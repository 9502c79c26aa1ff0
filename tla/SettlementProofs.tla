--------------------------- MODULE SettlementProofs ---------------------------
(***************************************************************************)
(* Theorems about Settlement, for every slate of games, every book of      *)
(* slips, and any number of commands at work at once.                      *)
(*                                                                         *)
(* The invariant follows a grade from the transaction that inserts it,     *)
(* which holds its key (KeysInv), to the outcome, and from there into the  *)
(* legs that cite it, in the table or still in a transaction (CitesInv).   *)
(***************************************************************************)
EXTENDS Settlement, FiniteSetTheorems, SequenceTheorems, TLAPS

\* What a command has selected is on record.
PagesInv == \A p \in Proc : job[p].todo \subseteq Written

\* A date in the ledger is over: its games stay final at the feed too.
LedgerInv ==
    \A d \in ingested : \A g \in GamesOn(d) :
        /\ feed.status[g] = "final" /\ games[g] = "final"
        /\ \A m \in MarketsOf(g) : feed.box[m] # Absent => lines[m] # <<>>

\* A grade on its way to an episode has the episode's key to itself.
KeysInv ==
    /\ \A e \in Episode : Settled(e) => e \in Written
    /\ \A p \in Proc : \A e \in Episode : Inserting(p, e) =>
          /\ e \in Written /\ ~Settled(e)
          /\ \A q \in Proc \ {p} : ~Inserting(q, e)

\* A leg's row, stored or about to be: its projection is of its market, and
\* its result is that of the settled episode it cites.
Cites(l, row) ==
    /\ row.projection # NoEpisode =>
          row.projection \in Written /\ episodes[row.projection] = LegMarket[l]
    /\ row.result # "pending" =>
          /\ row.episode \in Written /\ Settled(row.episode)
          /\ PlayerProp[episodes[row.episode]] = PlayerProp[LegMarket[l]]
          /\ row.result = "void" <=> outcomes[row.episode].grade = "void"

CitesInv ==
    \A l \in Leg : Cites(l, legs[l]) /\ \A p \in Proc : Cites(l, job[p].legs[l])

\* A leg in hand has a grade and is of a slip that exists, and a tally that
\* says a slip is whole stays true whatever the others commit.
WholeInv ==
    /\ \A s \in Slip : slips[s].status = "settled" =>
          \A l \in LegsOf(s) : legs[l].result # "pending"
    /\ \A p \in Proc :
          /\ \A l \in job[p].leg \union job[p].picked : job[p].legs[l].result # "pending"
          /\ \A l \in job[p].pending \union job[p].leg \union job[p].picked :
                slips[LegSlip[l]].status # "none"
          /\ \A s \in Slip : job[p].slips[s].whole =>
                /\ slips[s].status # "none"
                /\ \A l \in LegsOf(s) : Sees(p, l).result # "pending"

-----------------------------------------------------------------------------
(***************************************************************************)
(* Typing.                                                                 *)
(***************************************************************************)
LEMMA IdleTyped == Idle \in Job
BY SettlementAssumption DEF Idle, Job, Nothing, NoOutcome, OutcomeRow, NewLeg, LegRow, Tally, Episode, Command

\* A command is read into the process that begins it.
LEMMA BeginTyped ==
    ASSUME TypeOK, NEW p \in Proc, NEW name \in Command, Begin(p, name)
    PROVE  job' \in [Proc -> Job]
<1> DEFINE todo == CASE name = "void" -> VoidPage [] name = "settle" -> SettlePage [] OTHER -> {}
           pending == IF name = "picks" THEN OpenLegs ELSE {}
           j == [Idle EXCEPT !.name = name, !.todo = todo, !.pending = pending]
<1>1. Written \subseteq Episode
  BY SettlementAssumption DEF TypeOK, Written, Episode
<1>2. todo \in SUBSET Episode
  <2>1. Unsettled \subseteq Episode
    BY <1>1 DEF Unsettled
  <2> QED
    BY <2>1 DEF VoidPage, SettlePage, FirstOf
<1>3. pending \in SUBSET Leg
  BY DEF OpenLegs
<1> HIDE DEF todo, pending
<1>4. j \in Job
  BY <1>2, <1>3, IdleTyped DEF Job
<1>5. job' = [job EXCEPT ![p] = j]
  BY DEF Begin, todo, pending
<1> HIDE DEF j
<1> QED
  BY <1>4, <1>5 DEF TypeOK

LEMMA OutcomeTyped ==
    ASSUME TypeOK, NEW e \in Written
    PROVE  OutcomeOf(e) \in OutcomeRow /\ OutcomeOf(e).grade # "none"
<1>1. episodes[e] \in Market
  BY DEF TypeOK, Written
<1>2. Current(episodes[e]) \in Entry
  BY <1>1 DEF TypeOK, Current, Entry
<1> QED
  BY <1>1, <1>2, SettlementAssumption
     DEF OutcomeOf, OutcomeRow, Voided, Resolve, Beats, Grade, Entry

LEMMA LegResultTyped ==
    ASSUME TypeOK, NEW l \in Leg, NEW e \in Episode
    PROVE  /\ LegResult(l, e) \in Grade
           /\ LegResult(l, e) = "void" <=> outcomes[e].grade = "void"
<1>1. outcomes[e] \in OutcomeRow
  BY DEF TypeOK
<1>2. Stat \union {0} \subseteq Nat
  BY SettlementAssumption
<1>3. Absent \notin Nat /\ Benched \notin Nat
  BY SettlementAssumption
<1>4. outcomes[e].actual # Absent /\ outcomes[e].actual # Benched
  BY <1>1, <1>2, <1>3 DEF OutcomeRow
<1> QED
  BY <1>4 DEF LegResult, Resolve, Grade

LEMMA WrittenTyped ==
    ASSUME TypeOK
    PROVE  Written \subseteq Episode /\ Written = 1 .. Len(episodes)
BY SettlementAssumption DEF TypeOK, Written, Episode

LEMMA MatchTyped ==
    ASSUME TypeOK, NEW l \in Leg
    PROVE  Match(l) \subseteq {e \in Episode : Settled(e)}
<1>1. legs[l].projection \in Episode \union {NoEpisode}
  BY DEF TypeOK, LegRow
<1>2. {e \in {legs[l].projection} \ {NoEpisode} : Settled(e)} \subseteq {e \in Episode : Settled(e)}
  BY <1>1
<1>3. {e \in Near(l) : Settled(e)} \subseteq {e \in Episode : Settled(e)}
  BY WrittenTyped DEF Near
<1> QED
  BY <1>2, <1>3 DEF Match, FirstOf

LEMMA SummaryTyped ==
    ASSUME TypeOK, NEW p \in Proc, NEW s \in Slip
    PROVE  Summary(p, s) \in Tally
<1> DEFINE settled == {l \in LegsOf(s) : Sees(p, l).result # "pending"}
           won == {l \in LegsOf(s) : Sees(p, l).result = "win"}
<1>1. IsFiniteSet(settled) /\ IsFiniteSet(won)
  BY SettlementAssumption, FS_Subset DEF LegsOf
<1>2. Cardinality(settled) \in Nat /\ Cardinality(won) \in Nat
  BY <1>1, FS_CardinalityType
<1>3. AllGraded(s, settled) \in BOOLEAN
  BY DEF AllGraded
<1> QED
  BY <1>2, <1>3 DEF Summary, Tally

\* The three statements that write a row of a process's own, as one update.
GradedRow(l, e) == [legs[l] EXCEPT !.result = LegResult(l, e), !.episode = e]

LEMMA GradeEpisodeIs ==
    ASSUME TypeOK, NEW p \in Proc, NEW e \in Episode, GradeEpisode(p, e)
    PROVE  job' = [job EXCEPT ![p] = [job[p] EXCEPT !.todo = job[p].todo \ {e},
                     !.graded = [job[p].graded EXCEPT ![e] = OutcomeOf(e)]]]
<1>1. job[p] \in Job /\ job \in [Proc -> Job]
  BY DEF TypeOK
<1> QED
  BY <1>1 DEF GradeEpisode, Job

LEMMA MatchLegIs ==
    ASSUME TypeOK, NEW p \in Proc, NEW l \in Leg, MatchLeg(p, l)
    PROVE  \E e \in Match(l) :
             job' = [job EXCEPT ![p] = [job[p] EXCEPT !.pending = job[p].pending \ {l}, !.leg = {l},
                       !.legs = [job[p].legs EXCEPT ![l] = GradedRow(l, e)]]]
<1>1. PICK e \in Match(l) :
        job' = [job EXCEPT ![p].pending = @ \ {l}, ![p].leg = {l},
                           ![p].legs[l] = [legs[l] EXCEPT !.result = LegResult(l, e),
                                                          !.episode = e]]
  BY DEF MatchLeg
<1> DEFINE row == [legs[l] EXCEPT !.result = LegResult(l, e), !.episode = e]
<1>2. row = GradedRow(l, e)
  BY DEF GradedRow
<1> HIDE DEF row
<1>3. job' = [job EXCEPT ![p] = [job[p] EXCEPT !.pending = job[p].pending \ {l}, !.leg = {l},
                     !.legs = [job[p].legs EXCEPT ![l] = row]]]
  <2>1. job[p] \in Job /\ job \in [Proc -> Job]
    BY DEF TypeOK
  <2> QED
    BY <1>1, <2>1 DEF row, Job
<1> QED
  BY <1>2, <1>3

LEMMA SumSlipIs ==
    ASSUME TypeOK, NEW p \in Proc, SumSlip(p)
    PROVE  \E s \in Touched(p) :
             job' = [job EXCEPT ![p] = [job[p] EXCEPT !.slip = {s},
                       !.slips = [job[p].slips EXCEPT ![s] = Summary(p, s)]]]
<1>1. PICK s \in Touched(p) :
        job' = [job EXCEPT ![p].slip = {s}, ![p].slips[s] = Summary(p, s)]
  BY DEF SumSlip
<1> DEFINE tally == Summary(p, s)
<1>2. job' = [job EXCEPT ![p] = [job[p] EXCEPT !.slip = {s},
                       !.slips = [job[p].slips EXCEPT ![s] = tally]]]
  <2>1. job[p] \in Job /\ job \in [Proc -> Job]
    BY DEF TypeOK
  <2> QED
    BY <1>1, <2>1 DEF Job
<1> QED
  BY <1>2

\* A statement of a command leaves its process well typed.
LEMMA StatementTyped ==
    ASSUME TypeOK, PagesInv, NEW p \in Proc, Work(p) \/ Die(p)
    PROVE  job' \in [Proc -> Job]
<1>1. job[p] \in Job /\ job \in [Proc -> Job]
  BY DEF TypeOK
<1>2. ASSUME NEW j \in Job, job' = [job EXCEPT ![p] = j] PROVE job' \in [Proc -> Job]
  BY <1>1, <1>2
<1>3. ASSUME NEW e \in Episode, GradeEpisode(p, e) PROVE job' \in [Proc -> Job]
  <2> DEFINE graded == [job[p].graded EXCEPT ![e] = OutcomeOf(e)]
             j == [job[p] EXCEPT !.todo = job[p].todo \ {e}, !.graded = graded]
  <2>1. job' = [job EXCEPT ![p] = j]
    BY <1>3, GradeEpisodeIs
  <2>2. OutcomeOf(e) \in OutcomeRow
    BY <1>3, OutcomeTyped DEF GradeEpisode, NextEpisode, PagesInv
  <2>3. graded \in [Episode -> OutcomeRow]
    BY <1>1, <2>2 DEF Job
  <2>4. j \in Job
    <3> HIDE DEF graded
    <3> QED
      BY <1>1, <2>3 DEF Job
  <2> HIDE DEF j
  <2> QED
    BY <1>2, <2>1, <2>4
<1>4. ASSUME NEW e \in Episode, SkipSettled(p, e) PROVE job' \in [Proc -> Job]
  <2> DEFINE j == [job[p] EXCEPT !.todo = @ \ {e}]
  <2>1. job' = [job EXCEPT ![p] = j]
    BY <1>1, <1>4 DEF SkipSettled
  <2>2. j \in Job
    BY <1>1 DEF Job
  <2> HIDE DEF j
  <2> QED
    BY <1>2, <2>1, <2>2
<1>5. ASSUME NEW l \in Leg, SkipLeg(p, l) PROVE job' \in [Proc -> Job]
  <2> DEFINE j == [job[p] EXCEPT !.pending = @ \ {l}]
  <2>1. job' = [job EXCEPT ![p] = j]
    BY <1>1, <1>5 DEF SkipLeg
  <2>2. j \in Job
    BY <1>1 DEF Job
  <2> HIDE DEF j
  <2> QED
    BY <1>2, <2>1, <2>2
<1>6. ASSUME NEW l \in Leg, MatchLeg(p, l) PROVE job' \in [Proc -> Job]
  <2>1. PICK e \in Match(l) :
          job' = [job EXCEPT ![p] = [job[p] EXCEPT !.pending = job[p].pending \ {l}, !.leg = {l},
                    !.legs = [job[p].legs EXCEPT ![l] = GradedRow(l, e)]]]
    BY <1>6, MatchLegIs
  <2> DEFINE rows == [job[p].legs EXCEPT ![l] = GradedRow(l, e)]
             j == [job[p] EXCEPT !.pending = job[p].pending \ {l}, !.leg = {l}, !.legs = rows]
  <2>2. e \in Episode /\ LegResult(l, e) \in Grade
    BY MatchTyped, LegResultTyped
  <2>3. GradedRow(l, e) \in LegRow
    BY <2>2 DEF LegRow, GradedRow, TypeOK
  <2>4. rows \in [Leg -> LegRow]
    BY <1>1, <2>3 DEF Job
  <2> HIDE DEF rows
  <2>5. j \in Job
    BY <1>1, <2>4 DEF Job
  <2>6. job' = [job EXCEPT ![p] = j]
    BY <2>1 DEF rows
  <2> HIDE DEF j
  <2> QED
    BY <1>2, <2>5, <2>6
<1>7. CASE GradeLeg(p)
  <2> DEFINE j == [job[p] EXCEPT !.leg = {}, !.picked = @ \union job[p].leg]
  <2>1. job' = [job EXCEPT ![p] = j]
    BY <1>1, <1>7 DEF GradeLeg
  <2>2. j \in Job
    BY <1>1 DEF Job
  <2> HIDE DEF j
  <2> QED
    BY <1>2, <2>1, <2>2
<1>8. CASE SumSlip(p)
  <2>1. PICK s \in Touched(p) :
          job' = [job EXCEPT ![p] = [job[p] EXCEPT !.slip = {s},
                    !.slips = [job[p].slips EXCEPT ![s] = Summary(p, s)]]]
    BY <1>8, SumSlipIs
  <2> DEFINE tallies == [job[p].slips EXCEPT ![s] = Summary(p, s)]
             j == [job[p] EXCEPT !.slip = {s}, !.slips = tallies]
  <2>2. s \in Slip
    BY <1>1 DEF Touched, Slip, Job
  <2>3. Summary(p, s) \in Tally
    BY <2>2, SummaryTyped
  <2>4. tallies \in [Slip -> Tally]
    BY <1>1, <2>2, <2>3 DEF Job
  <2> HIDE DEF tallies
  <2>5. j \in Job
    BY <1>1, <2>2, <2>4 DEF Job
  <2>6. job' = [job EXCEPT ![p] = j]
    BY <2>1 DEF tallies
  <2> HIDE DEF j
  <2> QED
    BY <1>2, <2>5, <2>6
<1>9. CASE CloseSlip(p)
  <2> DEFINE j == [job[p] EXCEPT !.slip = {}, !.closed = @ \union job[p].slip]
  <2>1. job' = [job EXCEPT ![p] = j]
    BY <1>1, <1>9 DEF CloseSlip
  <2>2. j \in Job
    BY <1>1 DEF Job
  <2> HIDE DEF j
  <2> QED
    BY <1>2, <2>1, <2>2
<1>10. ASSUME Fails(p) \/ Commit(p) PROVE job' \in [Proc -> Job]
  BY <1>2, <1>10, IdleTyped DEF Fails, Commit
<1> QED
  BY <1>3, <1>4, <1>5, <1>6, <1>7, <1>8, <1>9, <1>10
     DEF Work, Die, Collides, DeadlockVictim

-----------------------------------------------------------------------------
(***************************************************************************)
(* What each kind of step leaves alone.                                    *)
(***************************************************************************)

\* The world around the commands.
WorldStep ==
    \/ \E g \in Game : GameEnds(g)
    \/ \E m \in Market : FeedCorrects(m) \/ Forecast(m)
    \/ \E d \in Date : SnapshotOdds(d)
    \/ \E d \in Date, force \in BOOLEAN : IngestDate(d, force)

\* A command begins, on its page.
Begins == \E p \in Proc, name \in Command : Begin(p, name)

LEMMA WorldKeepsCommands ==
    ASSUME WorldStep
    PROVE  UNCHANGED <<outcomes, legs, slips, job, unit, mishaps, typed>>
BY DEF WorldStep, GameEnds, FeedCorrects, Forecast, SnapshotOdds, IngestDate, Tables, Budgets

LEMMA CommandsKeepWorld ==
    ASSUME NEW p \in Proc, Work(p) \/ Die(p)
    PROVE  UNCHANGED World
BY DEF Work, Die, Fails, GradeEpisode, SkipSettled, Collides, SkipLeg, MatchLeg, GradeLeg, SumSlip,
       CloseSlip, DeadlockVictim, Commit

\* Only a commit writes the tables.
LEMMA OnlyCommitWrites ==
    ASSUME NEW p \in Proc, Work(p) \/ Die(p), ~Commit(p)
    PROVE  UNCHANGED <<outcomes, legs, slips>>
BY DEF Work, Die, Fails, GradeEpisode, SkipSettled, Collides, SkipLeg, MatchLeg, GradeLeg, SumSlip,
       CloseSlip, DeadlockVictim, Tables

\* A statement is of one process.
LEMMA OthersStay ==
    ASSUME TypeOK, NEW p \in Proc, Work(p) \/ Die(p)
    PROVE  \A q \in Proc \ {p} : job'[q] = job[q]
BY DEF Work, Die, Fails, GradeEpisode, SkipSettled, Collides, SkipLeg, MatchLeg, GradeLeg,
       SumSlip, CloseSlip, DeadlockVictim, Commit, TypeOK

LEMMA StartsAreBegins ==
    ASSUME TypeOK, UnitGoesOn \/ \E h \in Human, name \in Command : HumanTypes(h, name)
    PROVE  Begins /\ UNCHANGED <<World, Tables, unit>>
<1>1. CASE UnitGoesOn
  <2>1. unit \in 1 .. Len(Program)
    BY <1>1, SettlementAssumption DEF UnitGoesOn, TypeOK
  <2>2. Program[unit] \in Command
    BY <2>1, SettlementAssumption
  <2> QED
    BY <1>1, <2>2 DEF UnitGoesOn, Begins, Proc
<1>2. ASSUME NEW h \in Human, NEW name \in Command, HumanTypes(h, name)
      PROVE  Begins /\ UNCHANGED <<World, Tables, unit>>
  BY <1>2 DEF HumanTypes, Begins, Proc
<1> QED
  BY <1>1, <1>2

\* Forecasts are only added.
LEMMA ForecastsStay ==
    ASSUME TypeOK, [Next]_vars
    PROVE  Written \subseteq Written' /\ \A e \in Written : episodes'[e] = episodes[e]
<1>1. CASE UNCHANGED episodes
  BY <1>1 DEF Written
<1>2. ASSUME NEW m \in Market, Forecast(m)
      PROVE  Written \subseteq Written' /\ \A e \in Written : episodes'[e] = episodes[e]
  BY <1>2 DEF Forecast, Written, TypeOK
<1>3. CASE WorldStep
  BY <1>1, <1>2, <1>3 DEF WorldStep, GameEnds, FeedCorrects, SnapshotOdds, IngestDate
<1>4. ASSUME NEW p \in Proc, Work(p) \/ Die(p) PROVE UNCHANGED episodes
  BY <1>4, CommandsKeepWorld DEF World
<1>5. ASSUME UnitGoesOn \/ \E h \in Human, name \in Command : HumanTypes(h, name)
      PROVE  UNCHANGED episodes
  BY <1>5, StartsAreBegins DEF World
<1>6. ASSUME UnitStarts \/ \E s \in Slip : CreatePick(s) PROVE UNCHANGED episodes
  BY <1>6 DEF UnitStarts, CreatePick, World
<1>7. CASE UNCHANGED vars
  BY <1>1, <1>7 DEF vars
<1> QED
  BY <1>1, <1>3, <1>4, <1>5, <1>6, <1>7 DEF Next, WorldStep

LEMMA PagesStay ==
    ASSUME TypeOK, PagesInv, [Next]_vars
    PROVE  PagesInv'
<1> USE ForecastsStay
<1>1. CASE UNCHANGED job
  BY <1>1 DEF PagesInv
<1>2. ASSUME Begins PROVE PagesInv'
  <2>1. PICK p \in Proc, name \in Command : Begin(p, name)
    BY <1>2 DEF Begins
  <2>2. VoidPage \subseteq Written /\ SettlePage \subseteq Written
    BY DEF VoidPage, SettlePage, FirstOf, Unsettled
  <2>3. job'[p].todo \subseteq Written
    <3>1. job'[p].todo \in {VoidPage, SettlePage, {}}
      BY <2>1 DEF Begin, TypeOK, Idle
    <3> QED
      BY <2>2, <3>1
  <2>4. \A q \in Proc \ {p} : job'[q] = job[q]
    BY <2>1 DEF Begin, TypeOK
  <2> QED
    BY <2>3, <2>4 DEF PagesInv
<1>3. ASSUME NEW p \in Proc, Work(p) \/ Die(p) PROVE PagesInv'
  <2>1. \A q \in Proc \ {p} : job'[q] = job[q]
    BY <1>3, OthersStay
  <2>2. job'[p].todo \subseteq job[p].todo
    <3>1. job[p] \in Job /\ job \in [Proc -> Job]
      BY DEF TypeOK
    <3>2. ASSUME NEW e \in Episode, GradeEpisode(p, e) \/ SkipSettled(p, e)
          PROVE  job'[p].todo \subseteq job[p].todo
      BY <3>1, <3>2 DEF GradeEpisode, SkipSettled, Job
    <3>3. ASSUME NEW l \in Leg, SkipLeg(p, l) \/ MatchLeg(p, l)
          PROVE  job'[p].todo = job[p].todo
      <4>1. CASE MatchLeg(p, l)
        <5>1. PICK e \in Match(l) :
                job' = [job EXCEPT ![p] = [job[p] EXCEPT !.pending = job[p].pending \ {l}, !.leg = {l},
                          !.legs = [job[p].legs EXCEPT ![l] = GradedRow(l, e)]]]
          BY <4>1, MatchLegIs
        <5> QED
          BY <3>1, <5>1 DEF Job
      <4> QED
        BY <3>1, <3>3, <4>1 DEF SkipLeg, Job
    <3>4. ASSUME GradeLeg(p) \/ SumSlip(p) \/ CloseSlip(p) PROVE job'[p].todo = job[p].todo
      <4>1. CASE SumSlip(p)
        <5>1. PICK s \in Touched(p) :
                job' = [job EXCEPT ![p] = [job[p] EXCEPT !.slip = {s},
                          !.slips = [job[p].slips EXCEPT ![s] = Summary(p, s)]]]
          BY <4>1, SumSlipIs
        <5> QED
          BY <3>1, <5>1 DEF Job
      <4> QED
        BY <3>1, <3>4, <4>1 DEF GradeLeg, CloseSlip, Job
    <3>5. ASSUME Fails(p) \/ Commit(p) PROVE job'[p].todo = {}
      BY <3>1, <3>5 DEF Fails, Commit, Idle
    <3> QED
      BY <1>3, <3>2, <3>3, <3>4, <3>5 DEF Work, Die, Collides, DeadlockVictim
  <2> QED
    BY <2>1, <2>2 DEF PagesInv
<1>4. ASSUME UnitStarts \/ \E s \in Slip : CreatePick(s) PROVE UNCHANGED job
  BY <1>4 DEF UnitStarts, CreatePick
<1> QED
  BY <1>1, <1>2, <1>3, <1>4, WorldKeepsCommands, StartsAreBegins DEF Next, WorldStep, vars

LEMMA WorldTyped ==
    ASSUME TypeOK, WorldStep
    PROVE  TypeOK'
<1> USE SettlementAssumption DEF TypeOK
<1>0. UNCHANGED <<outcomes, legs, slips, job, unit, mishaps, typed>>
  BY WorldKeepsCommands
<1>1. ASSUME NEW g \in Game, GameEnds(g) PROVE TypeOK'
  <2>1. PICK played \in [MarketsOf(g) -> Entry] :
          feed' = [status |-> [feed.status EXCEPT ![g] = "final"],
                   box |-> [m \in Market |-> IF m \in MarketsOf(g) THEN played[m] ELSE feed.box[m]]]
    BY <1>1 DEF GameEnds
  <2>2. feed' \in [status : [Game -> {"scheduled", "final"}], box : [Market -> Entry]]
    BY <2>1
  <2> QED
    BY <1>0, <1>1, <2>2 DEF GameEnds
<1>2. ASSUME NEW m \in Market, FeedCorrects(m) PROVE TypeOK'
  <2>1. PICK x \in Stat : feed' = [feed EXCEPT !.box[m] = x]
    BY <1>2 DEF FeedCorrects
  <2>2. feed' \in [status : [Game -> {"scheduled", "final"}], box : [Market -> Entry]]
    BY <2>1 DEF Entry
  <2>3. corrections' \in 0 .. MaxCorrections
    <3>1. corrections < MaxCorrections /\ corrections' = corrections + 1
      BY <1>2 DEF FeedCorrects
    <3> QED
      BY <3>1
  <2> QED
    BY <1>0, <1>2, <2>2, <2>3 DEF FeedCorrects
<1>3. ASSUME NEW m \in Market, Forecast(m) PROVE TypeOK'
  <2>1. episodes' \in Seq(Market) /\ Len(episodes') <= MaxEpisodes
    BY <1>3 DEF Forecast
  <2> QED
    BY <1>0, <1>3, <2>1 DEF Forecast
<1>4. ASSUME NEW d \in Date, SnapshotOdds(d) PROVE TypeOK'
  <2>1. games' \in [Game -> {"scheduled", "final"}]
    BY <1>4 DEF SnapshotOdds
  <2> QED
    BY <1>0, <1>4, <2>1 DEF SnapshotOdds
<1>5. ASSUME NEW d \in Date, NEW force \in BOOLEAN, IngestDate(d, force) PROVE TypeOK'
  <2>1. ASSUME NEW m \in Market PROVE Corrected(m) \in Seq(Stat \union {Benched})
    <3>1. feed.box[m] # Absent => feed.box[m] \in Stat \union {Benched}
      BY DEF Entry
    <3>2. lines[m] \in Seq(Stat \union {Benched})
      OBVIOUS
    <3> QED
      BY <3>1, <3>2 DEF Corrected
  <2>2. lines' \in [Market -> Seq(Stat \union {Benched})]
    BY <1>5, <2>1 DEF IngestDate
  <2>3. games' \in [Game -> {"scheduled", "final"}] /\ ingested' \subseteq Date
    BY <1>5 DEF IngestDate
  <2> QED
    BY <1>0, <1>5, <2>2, <2>3 DEF IngestDate
<1> HIDE DEF TypeOK
<1> QED
  BY <1>1, <1>2, <1>3, <1>4, <1>5 DEF WorldStep

LEMMA CommitTyped ==
    ASSUME TypeOK, NEW p \in Proc, Commit(p)
    PROVE  /\ outcomes' \in [Episode -> OutcomeRow]
           /\ legs' \in [Leg -> LegRow]
           /\ slips' \in [Slip -> SlipRow]
           /\ unit' \in 0 .. Len(Program)
<1>1. job[p] \in Job
  BY DEF TypeOK
<1>2. outcomes' \in [Episode -> OutcomeRow]
  BY <1>1 DEF Commit, TypeOK, Job
<1>3. \A l \in Leg : Sees(p, l) \in LegRow
  BY <1>1 DEF Sees, TypeOK, Job
<1>4. legs' \in [Leg -> LegRow]
  BY <1>3 DEF Commit
<1>5. ASSUME NEW s \in Slip PROVE Updated(p, s) \in SlipRow
  <2>1. job[p].slips[s] \in Tally /\ slips[s] \in SlipRow
    BY <1>1 DEF TypeOK, Job
  <2> QED
    BY <2>1 DEF Updated, Tally, SlipRow
<1>6. slips' \in [Slip -> SlipRow]
  BY <1>5 DEF Commit, TypeOK
<1>7. unit' \in 0 .. Len(Program)
  BY SettlementAssumption DEF Commit, TypeOK
<1> QED
  BY <1>2, <1>4, <1>6, <1>7

LEMMA StepTyped ==
    ASSUME TypeOK, PagesInv, [Next]_vars
    PROVE  TypeOK'
<1>1. ASSUME NEW p \in Proc, Work(p) \/ Die(p) PROVE TypeOK'
  <2>1. UNCHANGED World /\ job' \in [Proc -> Job]
    BY <1>1, CommandsKeepWorld, StatementTyped
  <2>2. typed' \in 0 .. MaxTyped /\ mishaps' \in 0 .. MaxMishaps
    <3>1. CASE Work(p)
      <4>1. UNCHANGED Budgets
        BY <3>1 DEF Work, GradeEpisode, SkipSettled, Collides, SkipLeg, MatchLeg, GradeLeg,
                    SumSlip, CloseSlip, DeadlockVictim, Commit
      <4> QED
        BY <4>1 DEF TypeOK, Budgets
    <3>2. CASE Die(p)
      <4>1. mishaps < MaxMishaps /\ mishaps' = mishaps + 1 /\ UNCHANGED typed
        BY <3>2 DEF Die
      <4> QED
        BY <4>1, SettlementAssumption DEF TypeOK
    <3> QED
      BY <1>1, <3>1, <3>2
  <2>3. CASE Commit(p)
    BY <2>1, <2>2, <2>3, CommitTyped DEF TypeOK, World
  <2>4. CASE ~Commit(p)
    <3>1. UNCHANGED <<outcomes, legs, slips>>
      BY <1>1, <2>4, OnlyCommitWrites
    <3>2. unit' \in {unit, 0}
      BY <1>1, <2>4
         DEF Work, Die, Fails, GradeEpisode, SkipSettled, Collides, SkipLeg, MatchLeg, GradeLeg,
             SumSlip, CloseSlip, DeadlockVictim
    <3>3. unit' \in 0 .. Len(Program)
      BY <3>2, SettlementAssumption DEF TypeOK
    <3> QED
      BY <2>1, <2>2, <3>1, <3>3 DEF TypeOK, World
  <2> QED
    BY <2>3, <2>4
<1>2. ASSUME UnitGoesOn \/ \E h \in Human, name \in Command : HumanTypes(h, name) PROVE TypeOK'
  <2>1. Begins /\ UNCHANGED <<World, Tables, unit>>
    BY <1>2, StartsAreBegins
  <2>2. job' \in [Proc -> Job]
    BY <2>1, BeginTyped DEF Begins
  <2>3. typed' \in 0 .. MaxTyped /\ UNCHANGED mishaps
    BY <1>2, SettlementAssumption DEF UnitGoesOn, HumanTypes, TypeOK, Budgets
  <2> QED
    BY <2>1, <2>2, <2>3 DEF TypeOK, World, Tables
<1>3. CASE UnitStarts
  BY <1>3, SettlementAssumption DEF UnitStarts, TypeOK, World, Tables, Budgets
<1>4. ASSUME NEW s \in Slip, CreatePick(s) PROVE TypeOK'
  <2>1. PICK from \in [LegsOf(s) -> Written \union {NoEpisode}] :
          legs' = [l \in Leg |-> IF l \in LegsOf(s) THEN [NewLeg EXCEPT !.projection = from[l]]
                                                    ELSE legs[l]]
    BY <1>4 DEF CreatePick
  <2>2. legs' \in [Leg -> LegRow]
    BY <2>1, WrittenTyped DEF TypeOK, LegRow, NewLeg
  <2>3. Len(episodes) \in 0 .. MaxEpisodes
    BY SettlementAssumption DEF TypeOK
  <2>4. slips' \in [Slip -> SlipRow]
    <3> DEFINE row == [slips[s] EXCEPT !.status = "confirmed", !.made = Len(episodes)]
    <3>1. slips \in [Slip -> SlipRow] /\ slips[s] \in SlipRow
      BY DEF TypeOK
    <3>2. row \in SlipRow
      BY <2>3, <3>1 DEF SlipRow
    <3>3. slips' = [slips EXCEPT ![s] = row]
      BY <1>4, <3>1 DEF CreatePick, SlipRow
    <3> HIDE DEF row
    <3> QED
      BY <3>1, <3>2, <3>3
  <2> QED
    BY <1>4, <2>2, <2>4 DEF CreatePick, TypeOK, World, Budgets
<1>5. CASE UNCHANGED vars
  BY <1>5 DEF vars, TypeOK
<1> QED
  BY <1>1, <1>2, <1>3, <1>4, <1>5, WorldTyped DEF Next, WorldStep

LEMMA InitTyped == Init => TypeOK /\ PagesInv
<1> SUFFICES ASSUME Init PROVE TypeOK /\ PagesInv
  OBVIOUS
<1>1. Idle \in Job /\ Nothing \in [Episode -> OutcomeRow]
  BY IdleTyped DEF Nothing, NoOutcome, OutcomeRow
<1>2. Idle.legs \in [Leg -> LegRow] /\ Idle.todo = {}
  BY <1>1 DEF Job, Idle
<1>3. slips \in [Slip -> SlipRow]
  BY SettlementAssumption DEF Init, SlipRow
<1> QED
  BY <1>1, <1>2, <1>3, SettlementAssumption DEF Init, TypeOK, PagesInv, Entry

\* The tables and every transaction in flight stay well typed, whatever
\* commands overlap.
THEOREM SettlementTyped == Spec => []TypeOK
<1>1. TypeOK /\ PagesInv /\ [Next]_vars => (TypeOK /\ PagesInv)'
  BY StepTyped, PagesStay
<1> QED
  BY <1>1, InitTyped, PTL DEF Spec

-----------------------------------------------------------------------------
(***************************************************************************)
(* The kinds of step.                                                      *)
(***************************************************************************)
LEMMA Steps ==
    ASSUME TypeOK, [Next]_vars
    PROVE  \/ UNCHANGED <<World, Tables, job>>
           \/ WorldStep
           \/ \E s \in Slip : CreatePick(s)
           \/ Begins /\ UNCHANGED <<World, Tables>>
           \/ \E p \in Proc : Work(p) \/ Die(p)
<1>1. CASE UNCHANGED vars
  BY <1>1 DEF vars, World, Tables
<1>2. CASE UnitStarts
  BY <1>2 DEF UnitStarts
<1>3. ASSUME UnitGoesOn \/ \E h \in Human, name \in Command : HumanTypes(h, name)
      PROVE  Begins /\ UNCHANGED <<World, Tables>>
  BY <1>3, StartsAreBegins
<1> QED
  BY <1>1, <1>2, <1>3 DEF Next, WorldStep

\* What beginning, and every statement, does to the grades in hand.
LEMMA GradesMove ==
    ASSUME TypeOK, NEW p \in Proc, Work(p) \/ Die(p), NEW e \in Episode
    PROVE  \/ job'[p].graded[e] = NoOutcome
           \/ job'[p].graded[e] = job[p].graded[e]
           \/ GradeEpisode(p, e)
<1>1. job[p] \in Job /\ job \in [Proc -> Job]
  BY DEF TypeOK
<1>2. ASSUME NEW f \in Episode, GradeEpisode(p, f), f # e PROVE job'[p].graded[e] = job[p].graded[e]
  <2> DEFINE graded == [job[p].graded EXCEPT ![f] = OutcomeOf(f)]
  <2>1. job' = [job EXCEPT ![p] = [job[p] EXCEPT !.todo = job[p].todo \ {f}, !.graded = graded]]
    BY <1>2, GradeEpisodeIs
  <2>2. graded[e] = job[p].graded[e]
    BY <1>1, <1>2 DEF Job
  <2> HIDE DEF graded
  <2>3. job'[p].graded = graded
    BY <1>1, <2>1 DEF Job
  <2> QED
    BY <2>2, <2>3
<1>3. ASSUME NEW f \in Episode, SkipSettled(p, f) PROVE job'[p].graded[e] = job[p].graded[e]
  BY <1>1, <1>3 DEF SkipSettled, Job
<1>4. ASSUME NEW l \in Leg, SkipLeg(p, l) PROVE job'[p].graded[e] = job[p].graded[e]
  BY <1>1, <1>4 DEF SkipLeg, Job
<1>5. ASSUME NEW l \in Leg, MatchLeg(p, l) PROVE job'[p].graded = job[p].graded
  <2>1. PICK f \in Match(l) :
          job' = [job EXCEPT ![p] = [job[p] EXCEPT !.pending = job[p].pending \ {l}, !.leg = {l},
                    !.legs = [job[p].legs EXCEPT ![l] = GradedRow(l, f)]]]
    BY <1>5, MatchLegIs
  <2> QED
    BY <1>1, <2>1 DEF Job
<1>6. CASE SumSlip(p)
  <2>1. PICK s \in Touched(p) :
          job' = [job EXCEPT ![p] = [job[p] EXCEPT !.slip = {s},
                    !.slips = [job[p].slips EXCEPT ![s] = Summary(p, s)]]]
    BY <1>6, SumSlipIs
  <2>2. job'[p].graded = job[p].graded
    BY <1>1, <2>1 DEF Job
  <2> QED
    BY <2>2
<1>7. ASSUME GradeLeg(p) \/ CloseSlip(p) PROVE job'[p].graded = job[p].graded
  BY <1>1, <1>7 DEF GradeLeg, CloseSlip, Job
<1>8. ASSUME Fails(p) \/ Commit(p) PROVE job'[p].graded[e] = NoOutcome
  <2>1. job'[p] = Idle
    BY <1>1, <1>8 DEF Fails, Commit
  <2> QED
    BY <2>1 DEF Idle, Nothing
<1> QED
  BY <1>2, <1>3, <1>4, <1>5, <1>6, <1>7, <1>8 DEF Work, Die, Collides, DeadlockVictim

\* A settled episode keeps its outcome.
LEMMA OutcomesKept ==
    ASSUME TypeOK, KeysInv, [Next]_vars, NEW e \in Episode, Settled(e)
    PROVE  outcomes'[e] = outcomes[e]
<1>1. CASE UNCHANGED outcomes
  BY <1>1
<1>2. ASSUME NEW p \in Proc, Commit(p) PROVE outcomes'[e] = outcomes[e]
  <2>1. ~Inserting(p, e)
    BY DEF KeysInv
  <2> QED
    BY <1>2, <2>1 DEF Commit
<1>3. ASSUME NEW p \in Proc, Work(p) \/ Die(p) PROVE outcomes'[e] = outcomes[e]
  BY <1>2, <1>3, OnlyCommitWrites
<1>4. ASSUME \E s \in Slip : CreatePick(s) PROVE UNCHANGED outcomes
  BY <1>4 DEF CreatePick
<1> QED
  BY <1>1, <1>3, <1>4, Steps, WorldKeepsCommands DEF Tables

LEMMA KeysKept ==
    ASSUME TypeOK, PagesInv, KeysInv, [Next]_vars
    PROVE  KeysInv'
<1>1. Written \subseteq Written'
  BY ForecastsStay
<1>2. CASE UNCHANGED <<outcomes, job>>
  BY <1>1, <1>2 DEF KeysInv, Settled, Inserting
<1>3. CASE Begins /\ UNCHANGED Tables
  <2>1. PICK p \in Proc, name \in Command : Begin(p, name)
    BY <1>3 DEF Begins
  <2>2. job'[p].graded = Nothing /\ \A q \in Proc \ {p} : job'[q] = job[q]
    BY <2>1 DEF Begin, TypeOK, Idle
  <2>3. \A q \in Proc, e \in Episode : Inserting(q, e)' => Inserting(q, e)
    BY <2>2 DEF Inserting, Nothing
  <2> QED
    BY <1>1, <1>3, <2>3 DEF KeysInv, Settled, Tables
<1>4. ASSUME NEW p \in Proc, Work(p) \/ Die(p) PROVE KeysInv'
  <2>1. \A q \in Proc \ {p}, e \in Episode : Inserting(q, e)' <=> Inserting(q, e)
    BY <1>4, OthersStay DEF Inserting
  <2>2. CASE Commit(p)
    <3>1. \A e \in Episode : ~Inserting(p, e)'
      BY <2>2 DEF Commit, TypeOK, Idle, Nothing, Inserting
    <3>2. \A e \in Episode : Settled(e)' => Settled(e) \/ Inserting(p, e)
      BY <2>2 DEF Commit, Settled
    <3> QED
      BY <1>1, <2>1, <3>1, <3>2 DEF KeysInv
  <2>3. CASE ~Commit(p)
    <3>1. \A e \in Episode : Settled(e)' <=> Settled(e)
      BY <1>4, <2>3, OnlyCommitWrites DEF Settled
    <3>2. ASSUME NEW e \in Episode, Inserting(p, e)'
          PROVE  /\ e \in Written /\ ~Settled(e)
                 /\ \A q \in Proc \ {p} : ~Inserting(q, e)
      <4>1. CASE GradeEpisode(p, e)
        BY <4>1 DEF GradeEpisode, NextEpisode, PagesInv, Taken
      <4>2. CASE ~GradeEpisode(p, e)
        <5>1. Inserting(p, e)
          BY <1>4, <3>2, <4>2, GradesMove DEF Inserting
        <5> QED
          BY <5>1 DEF KeysInv
      <4> QED
        BY <4>1, <4>2
    <3>3. ASSUME NEW q \in Proc \ {p}, NEW e \in Episode, Inserting(q, e)'
          PROVE  e \in Written /\ ~Settled(e) /\ \A r \in Proc \ {q} : ~Inserting(r, e)'
      BY <2>1, <3>2, <3>3 DEF KeysInv
    <3> QED
      BY <1>1, <2>1, <3>1, <3>2, <3>3 DEF KeysInv
  <2> QED
    BY <2>2, <2>3
<1>5. ASSUME \E s \in Slip : CreatePick(s) PROVE UNCHANGED <<outcomes, job>>
  BY <1>5 DEF CreatePick
<1> QED
  BY <1>2, <1>3, <1>4, <1>5, Steps, WorldKeepsCommands DEF Tables

-----------------------------------------------------------------------------
(***************************************************************************)
(* The ledger of dates.                                                    *)
(***************************************************************************)
LEMMA LedgerKept ==
    ASSUME TypeOK, LedgerInv, [Next]_vars
    PROVE  LedgerInv'
<1>1. CASE UNCHANGED <<feed, games, lines, ingested>>
  BY <1>1 DEF LedgerInv
<1>2. ASSUME NEW h \in Game, GameEnds(h) PROVE LedgerInv'
  <2>1. PICK played \in [MarketsOf(h) -> Entry] :
          feed' = [status |-> [feed.status EXCEPT ![h] = "final"],
                   box |-> [m \in Market |-> IF m \in MarketsOf(h) THEN played[m] ELSE feed.box[m]]]
    BY <1>2 DEF GameEnds
  <2>2. ASSUME NEW d \in ingested, NEW g \in GamesOn(d)
        PROVE  /\ feed'.status[g] = "final"
               /\ \A m \in MarketsOf(g) : feed'.box[m] = feed.box[m]
    <3>1. g # h /\ feed.status[g] = "final"
      BY <1>2 DEF LedgerInv, GameEnds
    <3> QED
      BY <2>1, <3>1 DEF TypeOK, MarketsOf, GamesOn
  <2> QED
    BY <1>2, <2>2 DEF GameEnds, LedgerInv
<1>3. ASSUME NEW n \in Market, FeedCorrects(n) PROVE LedgerInv'
  <2>1. PICK x \in Stat : feed' = [feed EXCEPT !.box[n] = x]
    BY <1>3 DEF FeedCorrects
  <2>2. feed'.status = feed.status /\ \A m \in Market \ {n} : feed'.box[m] = feed.box[m]
    BY <2>1 DEF TypeOK
  <2>3. feed.box[n] # Absent
    BY <1>3, SettlementAssumption DEF FeedCorrects
  <2>4. \A m \in Market : feed'.box[m] # Absent => feed.box[m] # Absent
    BY <2>2, <2>3
  <2> QED
    BY <1>3, <2>2, <2>4 DEF FeedCorrects, LedgerInv, MarketsOf
<1>4. ASSUME NEW d \in Date, SnapshotOdds(d) PROVE LedgerInv'
  BY <1>4 DEF SnapshotOdds, LedgerInv, GamesOn
<1>5. ASSUME NEW c \in Date, NEW force \in BOOLEAN, IngestDate(c, force) PROVE LedgerInv'
  <2>1. ASSUME NEW m \in Market, lines[m] # <<>> \/ feed.box[m] # Absent PROVE Corrected(m) # <<>>
    <3>1. lines[m] \in Seq(Stat \union {Benched})
      BY DEF TypeOK
    <3>2. lines[m] = <<>> => Current(m) = Absent
      BY DEF Current
    <3>3. Append(lines[m], feed.box[m]) # <<>>
      <4>1. lines[m] \in Seq(Entry) /\ feed.box[m] \in Entry
        BY <3>1 DEF Entry, TypeOK
      <4> QED
        BY <4>1, AppendProperties
    <3> QED
      BY <2>1, <3>2, <3>3 DEF Corrected
  <2>2. ASSUME NEW d \in ingested', NEW g \in GamesOn(d)
        PROVE  /\ feed.status[g] = "final" /\ games'[g] = "final"
               /\ \A m \in MarketsOf(g) : feed.box[m] # Absent => lines'[m] # <<>>
    <3>1. CASE d \in ingested
      <4>1. games'[g] = "final" /\ feed.status[g] = "final"
        BY <1>5, <3>1 DEF IngestDate, LedgerInv, GamesOn
      <4>2. ASSUME NEW m \in MarketsOf(g), feed.box[m] # Absent PROVE lines'[m] # <<>>
        BY <1>5, <2>1, <3>1, <4>2 DEF IngestDate, LedgerInv, MarketsOf
      <4> QED
        BY <4>1, <4>2
    <3>2. CASE d \notin ingested
      <4>1. d = c /\ DateIsSettled(c)
        BY <1>5, <3>2 DEF IngestDate
      <4>2. feed.status[g] = "final" /\ games'[g] = "final"
        BY <1>5, <4>1 DEF IngestDate, DateIsSettled, GamesOn
      <4>3. ASSUME NEW m \in MarketsOf(g), feed.box[m] # Absent PROVE lines'[m] # <<>>
        BY <1>5, <2>1, <4>1, <4>2, <4>3 DEF IngestDate, MarketsOf
      <4> QED
        BY <4>2, <4>3
    <3> QED
      BY <3>1, <3>2
  <2>3. UNCHANGED feed
    BY <1>5 DEF IngestDate
  <2> QED
    BY <2>2, <2>3 DEF LedgerInv, GamesOn, MarketsOf
<1>6. ASSUME \/ \E m \in Market : Forecast(m)
             \/ \E s \in Slip : CreatePick(s)
             \/ \E p \in Proc : Work(p) \/ Die(p)
      PROVE  UNCHANGED <<feed, games, lines, ingested>>
  BY <1>6, CommandsKeepWorld DEF Forecast, CreatePick, World
<1> QED
  BY <1>1, <1>2, <1>3, <1>4, <1>5, <1>6, Steps DEF WorldStep, World

-----------------------------------------------------------------------------
(***************************************************************************)
(* Legs.                                                                   *)
(***************************************************************************)

\* What a statement other than a commit does to the legs and slips in hand.
LEMMA HandsMove ==
    ASSUME TypeOK, NEW p \in Proc, Work(p) \/ Die(p), ~Commit(p)
    PROVE  \/ job'[p] = Idle
           \/ /\ job'[p].legs = job[p].legs /\ job'[p].slips = job[p].slips
              /\ job'[p].pending \subseteq job[p].pending /\ job[p].picked \subseteq job'[p].picked
              /\ job'[p].leg \union job'[p].picked = job[p].leg \union job[p].picked
           \/ \E l \in Leg : \E e \in Match(l) :
                /\ l \in job[p].pending
                /\ job'[p].legs = [job[p].legs EXCEPT ![l] = GradedRow(l, e)]
                /\ job'[p].slips = job[p].slips /\ job'[p].pending \subseteq job[p].pending
                /\ job'[p].leg = {l} /\ job'[p].picked = job[p].picked
           \/ \E s \in Touched(p) :
                /\ job'[p].slips = [job[p].slips EXCEPT ![s] = Summary(p, s)]
                /\ job'[p].legs = job[p].legs /\ job'[p].pending = job[p].pending
                /\ job'[p].leg = job[p].leg /\ job'[p].picked = job[p].picked
<1> DEFINE Same == /\ job'[p].legs = job[p].legs /\ job'[p].slips = job[p].slips
                   /\ job'[p].pending \subseteq job[p].pending
                   /\ job[p].picked \subseteq job'[p].picked
                   /\ job'[p].leg \union job'[p].picked = job[p].leg \union job[p].picked
<1>1. job[p] \in Job /\ job \in [Proc -> Job]
  BY DEF TypeOK
<1>2. ASSUME NEW e \in Episode, GradeEpisode(p, e) PROVE Same
  <2> DEFINE graded == [job[p].graded EXCEPT ![e] = OutcomeOf(e)]
  <2>1. job' = [job EXCEPT ![p] = [job[p] EXCEPT !.todo = job[p].todo \ {e}, !.graded = graded]]
    BY <1>2, GradeEpisodeIs
  <2> HIDE DEF graded
  <2> QED
    BY <1>1, <2>1 DEF Job
<1>3. ASSUME NEW e \in Episode, SkipSettled(p, e) PROVE Same
  BY <1>1, <1>3 DEF SkipSettled, Job
<1>4. ASSUME NEW l \in Leg, SkipLeg(p, l) PROVE Same
  BY <1>1, <1>4 DEF SkipLeg, Job
<1>5. ASSUME GradeLeg(p) \/ CloseSlip(p) PROVE Same
  BY <1>1, <1>5 DEF GradeLeg, CloseSlip, Job
<1>6. ASSUME Fails(p) PROVE job'[p] = Idle
  BY <1>1, <1>6 DEF Fails
<1>7. ASSUME NEW l \in Leg, MatchLeg(p, l)
      PROVE  \E e \in Match(l) :
                /\ l \in job[p].pending
                /\ job'[p].legs = [job[p].legs EXCEPT ![l] = GradedRow(l, e)]
                /\ job'[p].slips = job[p].slips /\ job'[p].pending \subseteq job[p].pending
                /\ job'[p].leg = {l} /\ job'[p].picked = job[p].picked
  <2>1. PICK e \in Match(l) :
          job' = [job EXCEPT ![p] = [job[p] EXCEPT !.pending = job[p].pending \ {l}, !.leg = {l},
                    !.legs = [job[p].legs EXCEPT ![l] = GradedRow(l, e)]]]
    BY <1>7, MatchLegIs
  <2>2. l \in job[p].pending
    BY <1>7 DEF MatchLeg, NextLegs
  <2> DEFINE rows == [job[p].legs EXCEPT ![l] = GradedRow(l, e)]
  <2>3. /\ job'[p].legs = rows /\ job'[p].slips = job[p].slips
        /\ job'[p].pending = job[p].pending \ {l} /\ job'[p].leg = {l}
        /\ job'[p].picked = job[p].picked
    <3>1. job' = [job EXCEPT ![p] = [job[p] EXCEPT !.pending = job[p].pending \ {l}, !.leg = {l},
                    !.legs = rows]]
      BY <2>1
    <3> HIDE DEF rows
    <3> QED
      BY <1>1, <3>1 DEF Job
  <2> QED
    BY <2>2, <2>3
<1>8. CASE SumSlip(p)
  <2>1. PICK s \in Touched(p) :
          job' = [job EXCEPT ![p] = [job[p] EXCEPT !.slip = {s},
                    !.slips = [job[p].slips EXCEPT ![s] = Summary(p, s)]]]
    BY <1>8, SumSlipIs
  <2> DEFINE tallies == [job[p].slips EXCEPT ![s] = Summary(p, s)]
  <2>2. /\ job'[p].slips = tallies /\ job'[p].legs = job[p].legs
        /\ job'[p].pending = job[p].pending
        /\ job'[p].leg = job[p].leg /\ job'[p].picked = job[p].picked
    <3>1. job' = [job EXCEPT ![p] = [job[p] EXCEPT !.slip = {s}, !.slips = tallies]]
      BY <2>1
    <3> HIDE DEF tallies
    <3> QED
      BY <1>1, <3>1 DEF Job
  <2> QED
    BY <2>2
<1> QED
  BY <1>2, <1>3, <1>4, <1>5, <1>6, <1>7, <1>8 DEF Work, Die, Collides, DeadlockVictim

\* What a row cites does not change under it.
LEMMA CitationsStand ==
    ASSUME TypeOK, KeysInv, [Next]_vars, NEW l \in Leg, NEW row \in LegRow,
           row.projection # NoEpisode =>
             row.projection \in Written /\ episodes[row.projection] = LegMarket[l],
           row.result # "pending" =>
             /\ row.episode \in Written /\ Settled(row.episode)
             /\ PlayerProp[episodes[row.episode]] = PlayerProp[LegMarket[l]]
             /\ row.result = "void" <=> outcomes[row.episode].grade = "void"
    PROVE  /\ row.projection # NoEpisode =>
                row.projection \in Written' /\ episodes'[row.projection] = LegMarket[l]
           /\ row.result # "pending" =>
                /\ row.episode \in Written' /\ Settled(row.episode)'
                /\ PlayerProp[episodes'[row.episode]] = PlayerProp[LegMarket[l]]
                /\ row.result = "void" <=> outcomes'[row.episode].grade = "void"
<1>1. \A e \in Written : e \in Written' /\ episodes'[e] = episodes[e]
  BY ForecastsStay
<1>2. \A e \in Written : Settled(e) => outcomes'[e] = outcomes[e]
  BY OutcomesKept, WrittenTyped
<1> QED
  BY <1>1, <1>2 DEF Settled

\* A match is a settled episode of the leg's player and prop.
LEMMA MatchesCite ==
    ASSUME TypeOK, KeysInv, CitesInv, NEW l \in Leg, NEW e \in Match(l)
    PROVE  GradedRow(l, e) \in LegRow /\ Cites(l, GradedRow(l, e)) /\ LegResult(l, e) # "pending"
<1>1. e \in Episode /\ Settled(e) /\ e \in Written
  BY MatchTyped DEF KeysInv
<1>2. /\ LegResult(l, e) \in Grade /\ LegResult(l, e) # "pending"
      /\ LegResult(l, e) = "void" <=> outcomes[e].grade = "void"
  BY <1>1, LegResultTyped DEF Grade
<1>3. legs[l] \in LegRow /\ Cites(l, legs[l])
  BY DEF TypeOK, CitesInv
<1>4. PlayerProp[episodes[e]] = PlayerProp[LegMarket[l]]
  <2>1. CASE e \in {legs[l].projection} \ {NoEpisode}
    BY <1>3, <2>1 DEF Cites
  <2>2. CASE e \in Near(l)
    BY <2>2 DEF Near
  <2> QED
    BY <2>1, <2>2 DEF Match, FirstOf
<1>5. /\ GradedRow(l, e).projection = legs[l].projection
      /\ GradedRow(l, e).result = LegResult(l, e) /\ GradedRow(l, e).episode = e
  BY <1>3 DEF GradedRow, LegRow
<1>6. GradedRow(l, e) \in LegRow
  BY <1>1, <1>2, <1>3 DEF GradedRow, LegRow
<1> QED
  BY <1>1, <1>2, <1>3, <1>4, <1>5, <1>6 DEF Cites

LEMMA NewLegCites ==
    ASSUME NEW l \in Leg PROVE Cites(l, NewLeg) /\ Idle.legs[l] = NewLeg
BY DEF Cites, NewLeg, Idle

LEMMA CitesKept ==
    ASSUME TypeOK, KeysInv, CitesInv, [Next]_vars
    PROVE  CitesInv'
<1> DEFINE Before(l, row) == row \in LegRow /\ Cites(l, row)
<1>1. \A l \in Leg : Before(l, legs[l]) /\ \A p \in Proc : Before(l, job[p].legs[l])
  BY DEF TypeOK, Job, CitesInv
<1>2. \A l \in Leg : Before(l, NewLeg)
  BY NewLegCites, IdleTyped DEF Job
<1>3. SUFFICES ASSUME NEW l \in Leg
               PROVE  /\ Before(l, legs'[l]) \/ \E s \in Slip : CreatePick(s) /\ l \in LegsOf(s)
                      /\ \A q \in Proc : Before(l, job'[q].legs[l])
  <2>1. ASSUME NEW l \in Leg, NEW s \in Slip, CreatePick(s), l \in LegsOf(s)
        PROVE  Cites(l, legs[l])'
    <3>1. PICK from \in [LegsOf(s) -> Written \union {NoEpisode}] :
            /\ \A k \in LegsOf(s) : from[k] \in Offers(k)
            /\ legs' = [k \in Leg |-> IF k \in LegsOf(s) THEN [NewLeg EXCEPT !.projection = from[k]]
                                                         ELSE legs[k]]
      BY <2>1 DEF CreatePick
    <3>2. legs'[l].projection = from[l] /\ legs'[l].result = "pending"
      BY <2>1, <3>1 DEF NewLeg
    <3>3. from[l] # NoEpisode => from[l] \in Written /\ episodes[from[l]] = LegMarket[l]
      BY <2>1, <3>1 DEF Offers
    <3>4. UNCHANGED episodes
      BY <2>1 DEF CreatePick, World
    <3> QED
      BY <3>2, <3>3, <3>4 DEF Cites, Written
  <2>2. ASSUME NEW l \in Leg, Before(l, legs'[l]) PROVE Cites(l, legs[l])'
    BY <2>2, CitationsStand DEF Cites
  <2>3. ASSUME NEW l \in Leg, NEW q \in Proc, Before(l, job'[q].legs[l])
        PROVE  Cites(l, job[q].legs[l])'
    BY <2>3, CitationsStand DEF Cites
  <2> QED
    BY <1>3, <2>1, <2>2, <2>3 DEF CitesInv
<1> HIDE DEF Before
<1>4. CASE UNCHANGED <<legs, job>>
  BY <1>1, <1>4
<1>5. CASE Begins /\ UNCHANGED legs
  <2>1. PICK p \in Proc, name \in Command : Begin(p, name)
    BY <1>5 DEF Begins
  <2>2. job'[p].legs = Idle.legs /\ \A q \in Proc \ {p} : job'[q] = job[q]
    BY <2>1 DEF Begin, TypeOK, Idle
  <2> QED
    BY <1>1, <1>2, <1>5, <2>2, NewLegCites
<1>6. ASSUME NEW s \in Slip, CreatePick(s)
      PROVE  UNCHANGED job /\ (l \notin LegsOf(s) => legs'[l] = legs[l])
  BY <1>6 DEF CreatePick
<1>7. ASSUME NEW p \in Proc, Work(p) \/ Die(p)
      PROVE  Before(l, legs'[l]) /\ \A q \in Proc : Before(l, job'[q].legs[l])
  <2>1. \A q \in Proc \ {p} : job'[q] = job[q]
    BY <1>7, OthersStay
  <2>2. CASE Commit(p)
    <3>1. legs'[l] = Sees(p, l) /\ job'[p] = Idle
      BY <2>2 DEF Commit, TypeOK
    <3>2. legs'[l] \in {legs[l], job[p].legs[l]}
      BY <3>1 DEF Sees
    <3> QED
      BY <1>1, <1>2, <2>1, <3>1, <3>2, NewLegCites
  <2>3. CASE ~Commit(p)
    <3>1. UNCHANGED legs
      BY <1>7, <2>3, OnlyCommitWrites
    <3>2. \/ job'[p].legs[l] \in {NewLeg, job[p].legs[l]}
          \/ \E e \in Match(l) : job'[p].legs[l] = GradedRow(l, e)
      <4>1. \/ job'[p] = Idle \/ job'[p].legs = job[p].legs
            \/ \E k \in Leg : \E e \in Match(k) :
                 job'[p].legs = [job[p].legs EXCEPT ![k] = GradedRow(k, e)]
        BY <1>7, <2>3, HandsMove
      <4>2. job[p].legs \in [Leg -> LegRow]
        BY DEF TypeOK, Job
      <4> QED
        BY <4>1, <4>2, NewLegCites
    <3>3. \A e \in Match(l) : Before(l, GradedRow(l, e))
      BY MatchesCite DEF Before
    <3>4. Before(l, job'[p].legs[l])
      BY <1>1, <1>2, <3>2, <3>3
    <3> QED
      BY <1>1, <2>1, <3>1, <3>4
  <2> QED
    BY <2>2, <2>3
<1> QED
  BY <1>1, <1>4, <1>5, <1>6, <1>7, Steps, WorldKeepsCommands DEF Tables

-----------------------------------------------------------------------------
(***************************************************************************)
(* Slips.                                                                  *)
(***************************************************************************)

\* The part of WholeInv about one process.
Carries(p) ==
    /\ \A l \in job[p].leg \union job[p].picked : job[p].legs[l].result # "pending"
    /\ \A l \in job[p].pending \union job[p].leg \union job[p].picked :
          slips[LegSlip[l]].status # "none"
    /\ \A s \in Slip : job[p].slips[s].whole =>
          /\ slips[s].status # "none"
          /\ \A l \in LegsOf(s) : Sees(p, l).result # "pending"

LEMMA IdleCarries ==
    ASSUME NEW p \in Proc, job'[p].leg = {}, job'[p].picked = {},
           job'[p].slips = Idle.slips,
           \A l \in job'[p].pending : slips'[LegSlip[l]].status # "none"
    PROVE  Carries(p)'
BY DEF Carries, Idle

LEMMA IdleHasNothing ==
    /\ Idle.leg = {} /\ Idle.picked = {} /\ Idle.pending = {}
BY DEF Idle

\* Graded legs and written slips stay so under another process.
LEMMA OthersCarry ==
    ASSUME NEW q \in Proc, Carries(q), job'[q] = job[q],
           \A s \in Slip : slips[s].status # "none" =>
              /\ slips'[s].status # "none"
              /\ \A l \in LegsOf(s) : legs[l].result # "pending" => legs'[l].result # "pending",
           job[q] \in Job
    PROVE  Carries(q)'
<1>1. ASSUME NEW l \in job[q].pending \union job[q].leg \union job[q].picked
      PROVE  slips'[LegSlip[l]].status # "none"
  BY DEF Carries, Slip, Job
<1>2. ASSUME NEW s \in Slip, job[q].slips[s].whole, NEW l \in LegsOf(s)
      PROVE  Sees(q, l)'.result # "pending" /\ slips'[s].status # "none"
  BY <1>2 DEF Carries, Sees
<1> QED
  BY <1>1, <1>2 DEF Carries, Sees

LEMMA WholeIsCarried ==
    WholeInv <=> /\ \A s \in Slip : slips[s].status = "settled" =>
                      \A l \in LegsOf(s) : legs[l].result # "pending"
                 /\ \A p \in Proc : Carries(p)
BY DEF WholeInv, Carries

\* A commit grades legs and settles whole slips.
LEMMA CommitKeepsWhole ==
    ASSUME TypeOK, WholeInv, NEW p \in Proc, Commit(p)
    PROVE  WholeInv'
<1>1. Carries(p) /\ job[p] \in Job /\ job'[p] = Idle /\ \A q \in Proc \ {p} : job'[q] = job[q]
  BY WholeIsCarried, OthersStay DEF Commit, TypeOK, Work
<1>2. \A l \in Leg : /\ legs'[l] = Sees(p, l)
                     /\ legs[l].result # "pending" => legs'[l].result # "pending"
  BY <1>1 DEF Commit, Sees, Carries
<1>3. ASSUME NEW s \in Slip
      PROVE  /\ slips'[s].status \in {slips[s].status, "settled"}
             /\ slips[s].status # "none" => slips'[s].status # "none"
             /\ slips'[s].status # slips[s].status => job[p].slips[s].whole
  <2>1. slips[s] \in SlipRow
    BY DEF TypeOK
  <2>2. Updated(p, s).status = IF job[p].slips[s].whole THEN "settled" ELSE slips[s].status
    BY <2>1 DEF Updated, SlipRow
  <2> QED
    BY <2>2 DEF Commit
<1>4. ASSUME NEW s \in Slip, slips'[s].status = "settled", NEW l \in LegsOf(s)
      PROVE  legs'[l].result # "pending"
  <2>1. l \in Leg
    BY DEF LegsOf
  <2>2. CASE slips[s].status = "settled"
    BY <1>2, <2>1, <2>2, WholeIsCarried
  <2>3. CASE slips[s].status # "settled"
    BY <1>1, <1>2, <1>3, <1>4, <2>1, <2>3 DEF Carries
  <2> QED
    BY <2>2, <2>3
<1>5. Carries(p)'
  BY <1>1, IdleHasNothing, IdleCarries
<1>6. ASSUME NEW q \in Proc \ {p} PROVE Carries(q)'
  <2>1. Carries(q) /\ job[q] \in Job
    BY WholeIsCarried DEF TypeOK
  <2> QED
    BY <1>1, <1>2, <1>3, <2>1, OthersCarry DEF LegsOf
<1>7. WholeInv' <=> /\ \A s \in Slip : slips'[s].status = "settled" =>
                         \A l \in LegsOf(s) : legs'[l].result # "pending"
                    /\ \A q \in Proc : Carries(q)'
  BY DEF WholeInv, Carries, LegsOf, Slip
<1> QED
  BY <1>4, <1>5, <1>6, <1>7

LEMMA StatementKeepsWhole ==
    ASSUME TypeOK, KeysInv, CitesInv, WholeInv, NEW p \in Proc, Work(p) \/ Die(p), ~Commit(p)
    PROVE  WholeInv'
<1>1. UNCHANGED <<legs, slips>> /\ \A q \in Proc \ {p} : job'[q] = job[q]
  BY OnlyCommitWrites, OthersStay
<1>2. Carries(p) /\ job[p] \in Job
  BY WholeIsCarried DEF TypeOK
<1>3. ASSUME job'[p] = Idle PROVE Carries(p)'
  BY <1>3, IdleHasNothing, IdleCarries
<1>4. ASSUME job'[p].legs = job[p].legs, job'[p].slips = job[p].slips,
             job'[p].pending \subseteq job[p].pending, job[p].picked \subseteq job'[p].picked,
             job'[p].leg \union job'[p].picked = job[p].leg \union job[p].picked
      PROVE  Carries(p)'
  <2>1. \A l \in Leg : Sees(p, l).result # "pending" => Sees(p, l)'.result # "pending"
    BY <1>1, <1>2, <1>4 DEF Sees, Carries
  <2>2. \A s \in Slip : job[p].slips[s].whole =>
           /\ slips[s].status # "none" /\ \A l \in LegsOf(s) : Sees(p, l)'.result # "pending"
    BY <1>2, <2>1 DEF Carries, LegsOf
  <2>3. \A l \in job'[p].leg \union job'[p].picked : job'[p].legs[l].result # "pending"
    BY <1>2, <1>4 DEF Carries
  <2>4. \A l \in job'[p].pending \union job'[p].leg \union job'[p].picked :
           slips[LegSlip[l]].status # "none"
    BY <1>2, <1>4 DEF Carries
  <2> QED
    BY <1>1, <1>4, <2>2, <2>3, <2>4 DEF Carries, LegsOf
<1>5. ASSUME NEW k \in Leg, NEW e \in Match(k), k \in job[p].pending,
             job'[p].legs = [job[p].legs EXCEPT ![k] = GradedRow(k, e)],
             job'[p].slips = job[p].slips, job'[p].pending \subseteq job[p].pending,
             job'[p].leg = {k}, job'[p].picked = job[p].picked
      PROVE  Carries(p)'
  <2>1. GradedRow(k, e).result # "pending"
    BY MatchesCite DEF GradedRow, TypeOK, LegRow
  <2>2. \A l \in Leg : job'[p].legs[l] = IF l = k THEN GradedRow(k, e) ELSE job[p].legs[l]
    BY <1>2, <1>5 DEF Job
  <2>3. job[p].picked \subseteq Leg
    BY <1>2 DEF Job
  <2>4. \A l \in job'[p].leg \union job'[p].picked : job'[p].legs[l].result # "pending"
    BY <1>2, <1>5, <2>1, <2>2, <2>3 DEF Carries
  <2>5. \A l \in Leg : Sees(p, l).result # "pending" => Sees(p, l)'.result # "pending"
    BY <1>1, <1>5, <2>4 DEF Sees
  <2>6. \A s \in Slip : job[p].slips[s].whole =>
           /\ slips[s].status # "none" /\ \A l \in LegsOf(s) : Sees(p, l)'.result # "pending"
    BY <1>2, <2>5 DEF Carries, LegsOf
  <2>7. \A l \in job'[p].pending \union job'[p].leg \union job'[p].picked :
           slips[LegSlip[l]].status # "none"
    BY <1>2, <1>5 DEF Carries
  <2> QED
    BY <1>1, <1>5, <2>4, <2>6, <2>7 DEF Carries, LegsOf
<1>6. ASSUME NEW t \in Touched(p),
             job'[p].slips = [job[p].slips EXCEPT ![t] = Summary(p, t)],
             job'[p].legs = job[p].legs, job'[p].pending = job[p].pending,
             job'[p].leg = job[p].leg, job'[p].picked = job[p].picked
      PROVE  Carries(p)'
  <2>1. slips[t].status # "none"
    BY <1>2 DEF Touched, Carries
  <2>2. Summary(p, t).whole => \A l \in LegsOf(t) : Sees(p, l).result # "pending"
    BY DEF Summary, AllGraded
  <2>3. \A s \in Slip : job'[p].slips[s] = IF s = t THEN Summary(p, t) ELSE job[p].slips[s]
    BY <1>2, <1>6 DEF Job
  <2>4. \A l \in Leg : Sees(p, l)' = Sees(p, l)
    BY <1>1, <1>6 DEF Sees
  <2>5. \A s \in Slip : job'[p].slips[s].whole =>
           /\ slips[s].status # "none" /\ \A l \in LegsOf(s) : Sees(p, l)'.result # "pending"
    BY <1>2, <2>1, <2>2, <2>3, <2>4 DEF Carries, LegsOf
  <2> QED
    BY <1>1, <1>2, <1>6, <2>5 DEF Carries, LegsOf
<1>7. Carries(p)'
  BY <1>3, <1>4, <1>5, <1>6, HandsMove
<1>8. ASSUME NEW q \in Proc \ {p} PROVE Carries(q)'
  <2>1. Carries(q) /\ job[q] \in Job
    BY WholeIsCarried DEF TypeOK
  <2> QED
    BY <1>1, <2>1, OthersCarry
<1>9. WholeInv' <=> /\ \A s \in Slip : slips'[s].status = "settled" =>
                         \A l \in LegsOf(s) : legs'[l].result # "pending"
                    /\ \A q \in Proc : Carries(q)'
  BY DEF WholeInv, Carries, LegsOf, Slip
<1> QED
  BY <1>1, <1>7, <1>8, <1>9, WholeIsCarried

LEMMA WholeKept ==
    ASSUME TypeOK, KeysInv, CitesInv, WholeInv, [Next]_vars
    PROVE  WholeInv'
<1>1. WholeInv' <=> /\ \A s \in Slip : slips'[s].status = "settled" =>
                         \A l \in LegsOf(s) : legs'[l].result # "pending"
                    /\ \A q \in Proc : Carries(q)'
  BY DEF WholeInv, Carries, LegsOf, Slip
<1>2. CASE UNCHANGED <<legs, slips, job>>
  BY <1>2 DEF WholeInv, Sees, LegsOf
<1>3. CASE Begins /\ UNCHANGED Tables
  <2>1. PICK p \in Proc, name \in Command : Begin(p, name)
    BY <1>3 DEF Begins
  <2>2. /\ job'[p].leg = {} /\ job'[p].picked = {} /\ job'[p].slips = Idle.slips
        /\ job'[p].pending \subseteq OpenLegs
        /\ \A q \in Proc \ {p} : job'[q] = job[q]
    BY <2>1 DEF Begin, TypeOK, Idle
  <2>3. Carries(p)'
    BY <1>3, <2>2, IdleCarries DEF OpenLegs, Tables
  <2>4. ASSUME NEW q \in Proc \ {p} PROVE Carries(q)'
    BY <1>3, <2>2, WholeIsCarried, OthersCarry DEF Tables, TypeOK
  <2> QED
    BY <1>1, <1>3, <2>3, <2>4, WholeIsCarried DEF Tables
<1>4. ASSUME NEW s \in Slip, CreatePick(s) PROVE WholeInv'
  <2>1. UNCHANGED job /\ \A t \in Slip \ {s} : slips'[t] = slips[t]
    BY <1>4 DEF CreatePick, TypeOK
  <2>2. slips[s].status = "none" /\ slips'[s].status = "confirmed"
    <3>1. slips \in [Slip -> SlipRow] /\ slips[s] \in SlipRow
      BY DEF TypeOK
    <3> QED
      BY <1>4, <3>1 DEF CreatePick, SlipRow
  <2>3. \A t \in Slip \ {s} : \A l \in LegsOf(t) : legs'[l] = legs[l]
    BY <1>4 DEF CreatePick, LegsOf
  <2>4. \A t \in Slip : slips[t].status # "none" =>
           /\ slips'[t].status # "none"
           /\ \A l \in LegsOf(t) : legs[l].result # "pending" => legs'[l].result # "pending"
    BY <2>1, <2>2, <2>3
  <2>5. ASSUME NEW q \in Proc PROVE Carries(q)'
    <3>1. Carries(q) /\ job'[q] = job[q] /\ job[q] \in Job
      BY <2>1, WholeIsCarried DEF TypeOK
    <3> QED
      BY <2>4, <3>1, OthersCarry
  <2>6. ASSUME NEW t \in Slip, slips'[t].status = "settled", NEW l \in LegsOf(t)
        PROVE  legs'[l].result # "pending"
    BY <2>1, <2>2, <2>3, <2>6, WholeIsCarried
  <2> QED
    BY <1>1, <2>5, <2>6
<1>5. ASSUME NEW p \in Proc, Work(p) \/ Die(p) PROVE WholeInv'
  BY <1>5, CommitKeepsWhole, StatementKeepsWhole
<1> QED
  BY <1>2, <1>3, <1>4, <1>5, Steps, WorldKeepsCommands DEF Tables

-----------------------------------------------------------------------------
(***************************************************************************)
(* The theorems.                                                           *)
(***************************************************************************)
IInv == TypeOK /\ PagesInv /\ LedgerInv /\ KeysInv /\ CitesInv /\ WholeInv

LEMMA InitHolds == Init => IInv
<1> SUFFICES ASSUME Init PROVE IInv
  OBVIOUS
<1>1. TypeOK /\ PagesInv
  BY InitTyped
<1>2. /\ ingested = {} /\ outcomes = Nothing /\ legs = Idle.legs
      /\ \A s \in Slip : slips[s].status = "none"
      /\ \A p \in Proc : job[p] = Idle
  BY DEF Init
<1>3. LedgerInv
  BY <1>2 DEF LedgerInv
<1>4. KeysInv
  BY <1>2 DEF KeysInv, Settled, Inserting, Nothing, NoOutcome, Idle
<1>5. CitesInv
  BY <1>2, NewLegCites DEF CitesInv
<1>6. \A p \in Proc : \A s \in Slip : ~job[p].slips[s].whole
  BY <1>2 DEF Idle
<1>7. WholeInv
  BY <1>2, <1>6, IdleHasNothing DEF WholeInv
<1> QED
  BY <1>1, <1>3, <1>4, <1>5, <1>7 DEF IInv

LEMMA StepHolds == IInv /\ [Next]_vars => IInv'
BY StepTyped, PagesStay, LedgerKept, KeysKept, CitesKept, WholeKept DEF IInv

\* The strengthened invariant: typing, pages of recorded episodes, a ledger of
\* dates that are over, one inserter per key, rows that cite what is settled.
THEOREM SettlementInductive == Spec => []IInv
BY InitHolds, StepHolds, PTL DEF Spec

\* The ledger never closes a date before its games and box scores are in.
THEOREM LedgerComplete == Spec => []LedgerIsComplete
<1>1. IInv => LedgerIsComplete
  BY DEF IInv, LedgerInv, LedgerIsComplete
<1> QED
  BY <1>1, SettlementInductive, PTL

\* No command, however it overlaps with others, rewrites a grade.
THEOREM OutcomesAreFinal == Spec => OutcomesStand
<1>1. IInv /\ [Next]_vars => [\A e \in Episode : Settled(e) => outcomes'[e] = outcomes[e]]_vars
  BY OutcomesKept DEF IInv
<1> QED
  BY <1>1, SettlementInductive, PTL DEF Spec, OutcomesStand

\* A graded leg cites a settled episode of its own player and prop.
THEOREM LegsCite == Spec => []LegsCiteOutcomes
<1>1. IInv => LegsCiteOutcomes
  BY DEF IInv, CitesInv, Cites, LegsCiteOutcomes
<1> QED
  BY <1>1, SettlementInductive, PTL

\* A settled slip has no open leg, whatever settle-picks commands overlapped:
\* the half of SlipsCloseWhole that needs no bound on the processes.
SettledSlipsAreWhole ==
    \A s \in Slip : slips[s].status = "settled" =>
        \A l \in LegsOf(s) : legs[l].result # "pending"

THEOREM SlipsNeverCloseEarly == Spec => []SettledSlipsAreWhole
<1>1. IInv => SettledSlipsAreWhole
  BY DEF IInv, WholeInv, SettledSlipsAreWhole
<1> QED
  BY <1>1, SettlementInductive, PTL

-----------------------------------------------------------------------------
(***************************************************************************)
(* What a slip counts.                                                     *)
(***************************************************************************)

\* No two settle-picks run at once. The unit runs one a day; nothing in the
\* code keeps a human from typing another meanwhile.
OnePicks ==
    \A p, q \in Proc : job[p].name = "picks" /\ job[q].name = "picks" => p = q

\* A process that has counted a slip has graded all it will, and the count is
\* that of the rows it will leave.
Sums(p) ==
    /\ job[p].name # "picks" =>
          job[p].pending \union job[p].leg \union job[p].picked
            \union job[p].slip \union job[p].closed = {}
    /\ job[p].slip \union job[p].closed # {} => job[p].pending \union job[p].leg = {}
    /\ \A s \in job[p].slip \union job[p].closed :
          slips[s].status # "none" /\ job[p].slips[s] = Summary(p, s)

\* With one settle-picks at a time what a slip says is so.
TallyInv ==
    /\ SlipsCloseWhole
    /\ \A s \in Slip : slips[s].status = "none" => slips[s].settled = 0 /\ slips[s].won = 0
    /\ \A p \in Proc : Sums(p)

\* What a statement other than a commit does to the slips in hand.
LEMMA SumsMove ==
    ASSUME TypeOK, NEW p \in Proc, Work(p) \/ Die(p), ~Commit(p)
    PROVE  \/ job'[p] = Idle
           \/ /\ job'[p].name = job[p].name
              /\ job'[p].slip = job[p].slip /\ job'[p].closed = job[p].closed
              /\ \/ job[p].pending \union job[p].leg # {}
                 \/ /\ job'[p].pending = job[p].pending /\ job'[p].leg = job[p].leg
                    /\ job'[p].picked = job[p].picked
                    /\ job'[p].legs = job[p].legs /\ job'[p].slips = job[p].slips
           \/ /\ job[p].pending \union job[p].leg = {}
              /\ job'[p].name = job[p].name /\ job'[p].pending = job[p].pending
              /\ job'[p].leg = job[p].leg /\ job'[p].picked = job[p].picked
              /\ job'[p].legs = job[p].legs /\ job'[p].closed = job[p].closed
              /\ \E s \in Touched(p) :
                    /\ job'[p].slip = {s}
                    /\ job'[p].slips = [job[p].slips EXCEPT ![s] = Summary(p, s)]
           \/ /\ job'[p].name = job[p].name /\ job'[p].pending = job[p].pending
              /\ job'[p].leg = job[p].leg /\ job'[p].picked = job[p].picked
              /\ job'[p].legs = job[p].legs /\ job'[p].slips = job[p].slips
              /\ job'[p].slip \union job'[p].closed = job[p].slip \union job[p].closed
<1> DEFINE Kept == /\ job'[p].name = job[p].name
                   /\ job'[p].slip = job[p].slip /\ job'[p].closed = job[p].closed
           Same == /\ job'[p].pending = job[p].pending /\ job'[p].leg = job[p].leg
                   /\ job'[p].picked = job[p].picked
                   /\ job'[p].legs = job[p].legs /\ job'[p].slips = job[p].slips
<1>1. job[p] \in Job /\ job \in [Proc -> Job]
  BY DEF TypeOK
<1>2. ASSUME NEW e \in Episode, GradeEpisode(p, e) PROVE Kept /\ Same
  <2> DEFINE graded == [job[p].graded EXCEPT ![e] = OutcomeOf(e)]
  <2>1. job' = [job EXCEPT ![p] = [job[p] EXCEPT !.todo = job[p].todo \ {e}, !.graded = graded]]
    BY <1>2, GradeEpisodeIs
  <2> HIDE DEF graded
  <2> QED
    BY <1>1, <2>1 DEF Job
<1>3. ASSUME NEW e \in Episode, SkipSettled(p, e) PROVE Kept /\ Same
  BY <1>1, <1>3 DEF SkipSettled, Job
<1>4. ASSUME NEW l \in Leg, SkipLeg(p, l) PROVE Kept /\ job[p].pending # {}
  BY <1>1, <1>4 DEF SkipLeg, NextLegs, Job
<1>5. ASSUME NEW l \in Leg, MatchLeg(p, l) PROVE Kept /\ job[p].pending # {}
  <2>1. PICK e \in Match(l) :
          job' = [job EXCEPT ![p] = [job[p] EXCEPT !.pending = job[p].pending \ {l}, !.leg = {l},
                    !.legs = [job[p].legs EXCEPT ![l] = GradedRow(l, e)]]]
    BY <1>5, MatchLegIs
  <2> DEFINE rows == [job[p].legs EXCEPT ![l] = GradedRow(l, e)]
  <2>2. job' = [job EXCEPT ![p] = [job[p] EXCEPT !.pending = job[p].pending \ {l}, !.leg = {l},
                  !.legs = rows]]
    BY <2>1
  <2> HIDE DEF rows
  <2>3. Kept
    BY <1>1, <2>2 DEF Job
  <2> QED
    BY <1>5, <2>3 DEF MatchLeg, NextLegs
<1>6. CASE GradeLeg(p)
  <2>1. Kept /\ job[p].leg # {}
    BY <1>1, <1>6 DEF GradeLeg, Job
  <2> QED
    BY <2>1
<1>7. CASE SumSlip(p)
  <2>1. PICK s \in Touched(p) :
          job' = [job EXCEPT ![p] = [job[p] EXCEPT !.slip = {s},
                    !.slips = [job[p].slips EXCEPT ![s] = Summary(p, s)]]]
    BY <1>7, SumSlipIs
  <2> DEFINE tallies == [job[p].slips EXCEPT ![s] = Summary(p, s)]
  <2>2. job' = [job EXCEPT ![p] = [job[p] EXCEPT !.slip = {s}, !.slips = tallies]]
    BY <2>1
  <2> HIDE DEF tallies
  <2>3. /\ job'[p].name = job[p].name /\ job'[p].pending = job[p].pending
        /\ job'[p].leg = job[p].leg /\ job'[p].picked = job[p].picked
        /\ job'[p].legs = job[p].legs /\ job'[p].closed = job[p].closed
        /\ job'[p].slip = {s} /\ job'[p].slips = tallies
    BY <1>1, <2>2 DEF Job
  <2>4. job[p].pending \union job[p].leg = {}
    BY <1>7 DEF SumSlip
  <2> QED
    BY <2>3, <2>4 DEF tallies
<1>8. CASE CloseSlip(p)
  <2>1. /\ job'[p].name = job[p].name /\ Same
        /\ job'[p].slip = {} /\ job'[p].closed = job[p].closed \union job[p].slip
    BY <1>1, <1>8 DEF CloseSlip, Job
  <2> QED
    BY <2>1
<1>9. ASSUME Fails(p) PROVE job'[p] = Idle
  BY <1>1, <1>9 DEF Fails
<1> QED
  BY <1>2, <1>3, <1>4, <1>5, <1>6, <1>7, <1>8, <1>9 DEF Work, Die, Collides, DeadlockVictim

LEMMA IdleSums ==
    ASSUME NEW p \in Proc, job'[p].slip = {}, job'[p].closed = {},
           job'[p].leg = {}, job'[p].picked = {},
           job'[p].name # "picks" => job'[p].pending = {}
    PROVE  Sums(p)'
BY DEF Sums

LEMMA IdleIsFree ==
    /\ Idle.slip = {} /\ Idle.closed = {} /\ Idle.leg = {} /\ Idle.picked = {}
    /\ Idle.pending = {} /\ Idle.name = "idle"
BY DEF Idle

\* A count stands while neither the legs of its slip nor its process move.
LEMMA OthersSum ==
    ASSUME NEW q \in Proc, Sums(q), job'[q] = job[q],
           \A s \in Slip : slips[s].status # "none" =>
              /\ slips'[s].status # "none"
              /\ \A l \in LegsOf(s) : legs'[l] = legs[l],
           job[q] \in Job
    PROVE  Sums(q)'
<1>1. ASSUME NEW s \in job[q].slip \union job[q].closed
      PROVE  slips'[s].status # "none" /\ job'[q].slips[s] = Summary(q, s)'
  <2>1. s \in Slip /\ slips[s].status # "none" /\ job[q].slips[s] = Summary(q, s)
    BY DEF Sums, Job
  <2>2. \A l \in LegsOf(s) : Sees(q, l)' = Sees(q, l)
    BY <2>1 DEF Sees
  <2>3. Summary(q, s)' = Summary(q, s)
    <3>1. /\ {l \in LegsOf(s) : Sees(q, l)'.result # "pending"} = {l \in LegsOf(s) : Sees(q, l).result # "pending"}
          /\ {l \in LegsOf(s) : Sees(q, l)'.result = "win"} = {l \in LegsOf(s) : Sees(q, l).result = "win"}
      BY <2>2
    <3> QED
      BY <3>1 DEF Summary, LegsOf, AllGraded
  <2> QED
    BY <2>1, <2>3
<1> QED
  BY <1>1 DEF Sums

\* The table is left as it is counted in TallyInv when no leg of a slip moves.
LEMMA TablesTally ==
    ASSUME TypeOK, TallyInv, UNCHANGED <<legs, slips>>, \A p \in Proc : Sums(p)'
    PROVE  TallyInv'
BY DEF TallyInv, SlipsCloseWhole, LegsOf, Slip

LEMMA StatementKeepsTally ==
    ASSUME TypeOK, WholeInv, TallyInv, NEW p \in Proc, Work(p) \/ Die(p), ~Commit(p)
    PROVE  TallyInv'
<1>1. UNCHANGED <<legs, slips>> /\ \A q \in Proc \ {p} : job'[q] = job[q]
  BY OnlyCommitWrites, OthersStay
<1>2. Sums(p) /\ Carries(p) /\ job[p] \in Job
  BY WholeIsCarried DEF TypeOK, TallyInv
<1>3. ASSUME job'[p] = Idle PROVE Sums(p)'
  BY <1>3, IdleIsFree, IdleSums
<1>4. ASSUME job'[p].name = job[p].name, job'[p].slip = job[p].slip,
             job'[p].closed = job[p].closed, job[p].pending \union job[p].leg # {}
      PROVE  Sums(p)'
  BY <1>2, <1>4 DEF Sums
<1>5. ASSUME job'[p].legs = job[p].legs, job'[p].picked = job[p].picked
      PROVE  \A s \in Slip : Summary(p, s)' = Summary(p, s)
  <2>1. \A l \in Leg : Sees(p, l)' = Sees(p, l)
    BY <1>1, <1>5 DEF Sees
  <2> TAKE s \in Slip
  <2>2. /\ {l \in LegsOf(s) : Sees(p, l)'.result # "pending"} = {l \in LegsOf(s) : Sees(p, l).result # "pending"}
        /\ {l \in LegsOf(s) : Sees(p, l)'.result = "win"} = {l \in LegsOf(s) : Sees(p, l).result = "win"}
    BY <2>1 DEF LegsOf
  <2> QED
    BY <2>2 DEF Summary, LegsOf, AllGraded
<1>6. job[p].slip \union job[p].closed \subseteq Slip
  BY <1>2 DEF Job
<1>7. ASSUME job'[p].name = job[p].name, job'[p].pending = job[p].pending,
             job'[p].leg = job[p].leg, job'[p].picked = job[p].picked,
             job'[p].legs = job[p].legs, job'[p].slips = job[p].slips,
             job'[p].slip \union job'[p].closed = job[p].slip \union job[p].closed
      PROVE  Sums(p)'
  <2>1. \A s \in job'[p].slip \union job'[p].closed :
           slips'[s].status # "none" /\ job'[p].slips[s] = Summary(p, s)'
    BY <1>1, <1>2, <1>5, <1>6, <1>7 DEF Sums
  <2> QED
    BY <1>2, <1>7, <2>1 DEF Sums
<1>8. ASSUME NEW t \in Touched(p),
             job[p].pending \union job[p].leg = {},
             job'[p].name = job[p].name, job'[p].pending = job[p].pending,
             job'[p].leg = job[p].leg, job'[p].picked = job[p].picked,
             job'[p].legs = job[p].legs, job'[p].closed = job[p].closed,
             job'[p].slip = {t},
             job'[p].slips = [job[p].slips EXCEPT ![t] = Summary(p, t)]
      PROVE  Sums(p)'
  <2>1. t \in Slip /\ t \notin job[p].closed /\ slips[t].status # "none" /\ job[p].picked # {}
    BY <1>2 DEF Touched, Carries, Slip, Job
  <2>2. \A s \in Slip : job'[p].slips[s] = IF s = t THEN Summary(p, t) ELSE job[p].slips[s]
    BY <1>2, <1>8, <2>1 DEF Job
  <2>3. \A s \in job[p].closed : s \in Slip /\ slips[s].status # "none" /\ job[p].slips[s] = Summary(p, s)
    BY <1>2, <1>6 DEF Sums
  <2>4. \A s \in job'[p].slip \union job'[p].closed :
           slips'[s].status # "none" /\ job'[p].slips[s] = Summary(p, s)'
    BY <1>1, <1>5, <1>8, <2>1, <2>2, <2>3
  <2>5. job[p].name = "picks"
    BY <1>2, <2>1 DEF Sums
  <2> QED
    BY <1>8, <2>4, <2>5 DEF Sums
<1>9. Sums(p)'
  BY <1>3, <1>4, <1>7, <1>8, SumsMove
<1>10. ASSUME NEW q \in Proc \ {p} PROVE Sums(q)'
  BY <1>1, OthersSum DEF TallyInv, TypeOK
<1> QED
  BY <1>1, <1>9, <1>10, TablesTally

\* A commit writes the counts of the rows it leaves.
LEMMA CommitKeepsTally ==
    ASSUME TypeOK, WholeInv, TallyInv, OnePicks, NEW p \in Proc, Commit(p)
    PROVE  TallyInv'
<1>1. Sums(p) /\ Carries(p) /\ job[p] \in Job /\ job'[p] = Idle
  BY WholeIsCarried DEF TallyInv, Commit, TypeOK
<1>2. \A q \in Proc \ {p} : job'[q] = job[q]
  BY OthersStay DEF Work
<1>3. Sums(p)'
  BY <1>1, IdleIsFree, IdleSums
<1>4. /\ \A l \in Leg : legs'[l] = Sees(p, l)
      /\ \A s \in Slip : slips'[s] = IF s \in job[p].closed THEN Updated(p, s) ELSE slips[s]
  BY DEF Commit
<1>5. CASE job[p].name # "picks"
  <2>1. job[p].picked = {} /\ job[p].closed = {}
    BY <1>1, <1>5 DEF Sums
  <2>2. UNCHANGED <<legs, slips>>
    BY <1>4, <2>1 DEF TypeOK, Commit, Sees
  <2>3. ASSUME NEW q \in Proc \ {p} PROVE Sums(q)'
    BY <1>2, <2>2, OthersSum DEF TallyInv, TypeOK
  <2> QED
    BY <1>3, <2>2, <2>3, TablesTally
<1>6. CASE job[p].name = "picks"
  <2>1. ASSUME NEW q \in Proc \ {p} PROVE Sums(q)'
    <3>1. job[q].name # "picks"
      BY <1>6 DEF OnePicks
    <3> QED
      BY <1>2, <3>1 DEF Sums, TallyInv
  <2>2. ASSUME NEW s \in Slip
        PROVE  /\ slips'[s].status = "none" => slips'[s].settled = 0 /\ slips'[s].won = 0
               /\ slips'[s].status # "none" =>
                    LET graded == {l \in LegsOf(s) : legs'[l].result # "pending"} IN
                    /\ slips'[s].status = "settled" <=> graded = LegsOf(s)
                    /\ slips'[s].settled = Cardinality(graded)
                    /\ slips'[s].won = Cardinality({l \in graded : legs'[l].result = "win"})
    <3> DEFINE graded == {l \in LegsOf(s) : legs'[l].result # "pending"}
               won == {l \in graded : legs'[l].result = "win"}
    <3>1. CASE s \in job[p].closed
      <4>1. slips[s].status # "none" /\ job[p].slips[s] = Summary(p, s)
        BY <1>1, <3>1 DEF Sums
      <4>2. /\ graded = {l \in LegsOf(s) : Sees(p, l).result # "pending"}
            /\ won = {l \in LegsOf(s) : Sees(p, l).result = "win"}
        BY <1>4 DEF LegsOf
      <4>3. /\ Summary(p, s).whole = (graded = LegsOf(s))
            /\ Summary(p, s).settled = Cardinality(graded)
            /\ Summary(p, s).won = Cardinality(won)
        BY <4>2 DEF Summary, AllGraded
      <4>4. /\ slips'[s].status = IF Summary(p, s).whole THEN "settled" ELSE slips[s].status
            /\ slips'[s].settled = Summary(p, s).settled
            /\ slips'[s].won = Summary(p, s).won
        <5>1. slips[s] \in SlipRow
          BY DEF TypeOK
        <5>2. slips'[s] = Updated(p, s)
          BY <1>4, <3>1
        <5> QED
          BY <4>1, <5>1, <5>2 DEF Updated, SlipRow
      <4>5. slips[s].status = "settled" => graded = LegsOf(s)
        <5>1. \A l \in LegsOf(s) : legs[l].result # "pending" => Sees(p, l).result # "pending"
          BY <1>1 DEF Sees, Carries
        <5> QED
          BY <4>2, <5>1 DEF WholeInv
      <4> HIDE DEF graded, won
      <4>6. /\ slips'[s].status # "none"
            /\ slips'[s].status = "settled" <=> graded = LegsOf(s)
            /\ slips'[s].settled = Cardinality(graded)
            /\ slips'[s].won = Cardinality(won)
        BY <4>1, <4>3, <4>4, <4>5
      <4> QED
        BY <4>6 DEF graded, won
    <3>2. CASE s \notin job[p].closed
      <4>1. Touched(p) = {}
        BY DEF Commit
      <4>2. \A l \in LegsOf(s) : l \notin job[p].picked
        BY <3>2, <4>1 DEF Touched, LegsOf
      <4>3. slips'[s] = slips[s] /\ \A l \in LegsOf(s) : legs'[l] = legs[l]
        BY <1>4, <3>2, <4>2 DEF Sees, LegsOf
      <4>4. graded = {l \in LegsOf(s) : legs[l].result # "pending"}
        BY <4>3
      <4>5. won = {l \in {k \in LegsOf(s) : legs[k].result # "pending"} : legs[l].result = "win"}
        BY <4>3
      <4> HIDE DEF graded, won
      <4>6. /\ slips[s].status = "none" => slips[s].settled = 0 /\ slips[s].won = 0
            /\ slips[s].status # "none" =>
                 /\ slips[s].status = "settled" <=> graded = LegsOf(s)
                 /\ slips[s].settled = Cardinality(graded)
                 /\ slips[s].won = Cardinality(won)
        BY <4>4, <4>5 DEF TallyInv, SlipsCloseWhole
      <4> QED
        BY <4>3, <4>6 DEF graded, won
    <3> QED
      BY <3>1, <3>2
  <2>3. SlipsCloseWhole'
    BY <2>2 DEF SlipsCloseWhole, LegsOf, Slip
  <2> QED
    BY <1>3, <2>1, <2>2, <2>3 DEF TallyInv, Slip
<1> QED
  BY <1>5, <1>6

LEMMA PickKeepsTally ==
    ASSUME TypeOK, TallyInv, NEW s \in Slip, CreatePick(s)
    PROVE  TallyInv'
<1>1. UNCHANGED job /\ \A t \in Slip \ {s} : slips'[t] = slips[t]
  BY DEF CreatePick, TypeOK
<1>2. /\ slips[s].status = "none" /\ slips'[s].status = "confirmed"
      /\ slips'[s].settled = 0 /\ slips'[s].won = 0
  <2>1. slips \in [Slip -> SlipRow] /\ slips[s] \in SlipRow
    BY DEF TypeOK
  <2>2. slips[s].status = "none" /\ slips[s].settled = 0 /\ slips[s].won = 0
    BY DEF CreatePick, TallyInv
  <2> QED
    BY <2>1, <2>2 DEF CreatePick, SlipRow
<1>3. \A l \in Leg : l \notin LegsOf(s) => legs'[l] = legs[l]
  BY DEF CreatePick
<1>4. \A l \in LegsOf(s) : legs'[l].result = "pending"
  BY DEF CreatePick, NewLeg, LegsOf
<1>5. \A t \in Slip \ {s} : \A l \in LegsOf(t) : legs'[l] = legs[l]
  BY <1>3 DEF LegsOf
<1>6. ASSUME NEW q \in Proc PROVE Sums(q)'
  <2>1. Sums(q) /\ job'[q] = job[q] /\ job[q] \in Job
    BY <1>1 DEF TallyInv, TypeOK
  <2>2. \A t \in Slip : slips[t].status # "none" =>
           slips'[t].status # "none" /\ \A l \in LegsOf(t) : legs'[l] = legs[l]
    BY <1>1, <1>2, <1>5
  <2> QED
    BY <2>1, <2>2, OthersSum
<1>7. ASSUME NEW t \in Slip, slips'[t].status # "none"
      PROVE  LET graded == {l \in LegsOf(t) : legs'[l].result # "pending"} IN
             /\ slips'[t].status = "settled" <=> graded = LegsOf(t)
             /\ slips'[t].settled = Cardinality(graded)
             /\ slips'[t].won = Cardinality({l \in graded : legs'[l].result = "win"})
  <2>1. CASE t = s
    <3> DEFINE graded == {l \in LegsOf(t) : legs'[l].result # "pending"}
    <3>1. graded = {} /\ {l \in graded : legs'[l].result = "win"} = {}
      BY <1>4, <2>1
    <3>2. LegsOf(t) # {}
      BY DEF Slip, LegsOf
    <3>3. Cardinality({}) = 0
      BY FS_EmptySet
    <3> HIDE DEF graded
    <3>4. /\ slips'[t].status = "settled" <=> graded = LegsOf(t)
          /\ slips'[t].settled = Cardinality(graded)
          /\ slips'[t].won = Cardinality({l \in graded : legs'[l].result = "win"})
      BY <1>2, <2>1, <3>1, <3>2, <3>3
    <3> QED
      BY <3>4 DEF graded
  <2>2. CASE t # s
    <3> DEFINE now == {l \in LegsOf(t) : legs'[l].result # "pending"}
               graded == {l \in LegsOf(t) : legs[l].result # "pending"}
    <3>1. now = graded
      BY <1>5, <2>2
    <3>2. {l \in now : legs'[l].result = "win"} = {l \in graded : legs[l].result = "win"}
      BY <1>5, <2>2
    <3>3. /\ slips[t].status = "settled" <=> graded = LegsOf(t)
          /\ slips[t].settled = Cardinality(graded)
          /\ slips[t].won = Cardinality({l \in graded : legs[l].result = "win"})
      BY <1>1, <1>7, <2>2 DEF TallyInv, SlipsCloseWhole
    <3> HIDE DEF now, graded
    <3>4. /\ slips'[t].status = "settled" <=> now = LegsOf(t)
          /\ slips'[t].settled = Cardinality(now)
          /\ slips'[t].won = Cardinality({l \in now : legs'[l].result = "win"})
      BY <1>1, <2>2, <3>1, <3>2, <3>3
    <3> QED
      BY <3>4 DEF now
  <2> QED
    BY <2>1, <2>2
<1>8. SlipsCloseWhole'
  BY <1>7 DEF SlipsCloseWhole, LegsOf, Slip
<1>9. \A t \in Slip : slips'[t].status = "none" => slips'[t].settled = 0 /\ slips'[t].won = 0
  BY <1>1, <1>2 DEF TallyInv
<1> QED
  BY <1>6, <1>8, <1>9 DEF TallyInv, Slip

LEMMA TallyKept == TypeOK /\ WholeInv /\ OnePicks /\ TallyInv /\ [Next]_vars => TallyInv'
<1> SUFFICES ASSUME TypeOK, WholeInv, OnePicks, TallyInv, [Next]_vars PROVE TallyInv'
  OBVIOUS
<1>1. CASE UNCHANGED <<legs, slips, job>>
  <2>1. ASSUME NEW q \in Proc PROVE Sums(q)'
    BY <1>1, OthersSum DEF TallyInv, TypeOK
  <2> QED
    BY <1>1, <2>1, TablesTally
<1>2. CASE Begins /\ UNCHANGED Tables
  <2>1. PICK p \in Proc, name \in Command : Begin(p, name)
    BY <1>2 DEF Begins
  <2>2. /\ job'[p].slip = {} /\ job'[p].closed = {} /\ job'[p].leg = {} /\ job'[p].picked = {}
        /\ job'[p].name # "picks" => job'[p].pending = {}
        /\ \A q \in Proc \ {p} : job'[q] = job[q]
    BY <2>1 DEF Begin, TypeOK, Idle
  <2>3. Sums(p)'
    BY <2>2, IdleSums
  <2>4. ASSUME NEW q \in Proc \ {p} PROVE Sums(q)'
    BY <1>2, <2>2, OthersSum DEF Tables, TallyInv, TypeOK
  <2> QED
    BY <1>2, <2>3, <2>4, TablesTally DEF Tables
<1>3. ASSUME NEW p \in Proc, Work(p) \/ Die(p) PROVE TallyInv'
  BY <1>3, CommitKeepsTally, StatementKeepsTally
<1> QED
  BY <1>1, <1>2, <1>3, PickKeepsTally, Steps, WorldKeepsCommands DEF Tables

LEMMA TallyInit == Init => TallyInv
<1> SUFFICES ASSUME Init PROVE TallyInv
  OBVIOUS
<1>1. \A s \in Slip : slips[s].status = "none" /\ slips[s].settled = 0 /\ slips[s].won = 0
  BY DEF Init
<1>2. \A p \in Proc : Sums(p)
  BY IdleIsFree DEF Init, Sums
<1> QED
  BY <1>1, <1>2 DEF TallyInv, SlipsCloseWhole

\* With one settle-picks at a time a slip is settled exactly when its last leg
\* is and counts its legs as they stand, whatever else runs or dies meanwhile.
THEOREM SlipsCountTheirLegs == Spec /\ []OnePicks => []SlipsCloseWhole
<1>1. TallyInv => SlipsCloseWhole
  BY DEF TallyInv
<1>2. IInv => TypeOK /\ WholeInv
  BY DEF IInv
<1> QED
  BY <1>1, <1>2, TallyInit, TallyKept, SettlementInductive, PTL DEF Spec
=============================================================================
