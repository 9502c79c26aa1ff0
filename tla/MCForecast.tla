----------------------------- MODULE MCForecast -----------------------------
\* The jobs of the board and the numbers of its quotes share no variable, so a run
\* follows one of them at a time: the states are the sum of theirs.
\*
\* The jobs: one market of one player, and a teammate.  The numbers: three quotes,
\* two of players of one team, one of another game.
EXTENDS Board, Entries, TLC

CONSTANTS a, b, ma, q1, q2, q3

VARIABLE part   \* what this behaviour follows

ForecastInit ==
    /\ Init /\ EntriesInit
    /\ part \in {"jobs", "numbers"} /\ (part = "jobs" => incidents = {})

ForecastNext ==
    \/ part = "jobs" /\ Next /\ UNCHANGED <<part, entriesVars>>
    \/ part = "numbers" /\ EntriesNext /\ UNCHANGED <<part, vars>>

ForecastSpec == ForecastInit /\ [][ForecastNext]_<<part, vars, entriesVars>>

OfA == [x \in Market |-> a]
Processes == Permutations(Proc)
LocksLate == [x \in Market |-> MaxClock]

Q == {q1, q2, q3}
InQueue == <<q2, q3, q1>>

Twelfths(over, push, width) == [over |-> 128 * over, push |-> 128 * push, width |-> 64 * width]
ScoresOf == [q \in Q |->
    IF q = q1 THEN {Twelfths(o, p, w) : o \in (0..12) \ {2, 4}, p \in {0, 2}, w \in {0, 1}}
    ELSE {Twelfths(9, 0, 0), Twelfths(1, 0, 0), Twelfths(7, 0, 0)}]

\* A starter with everything known, and what may be missing or odd.  Asked for
\* 3, for 21 with a bench of 6, or for a whole game from 27, her minutes are
\* scaled; asked for 42 the starter's shift just up to a whole game.
Clean == [games |-> 20, starter |-> 30, bench |-> 24, start |-> 9, role |-> 20, delta |-> 1,
          starterStd |-> 3, benchStd |-> 4, matchup |-> TRUE, teammate |-> TRUE,
          prior |-> TRUE, fitted |-> TRUE,
          injury |-> "available", age |-> 10, sources |-> 2, availability |-> 95,
          restriction |-> 10, disagreement |-> 5]
Anything == {Clean,
          [Clean EXCEPT !.injury = "questionable"], [Clean EXCEPT !.age = Missing],
          [Clean EXCEPT !.age = 31], [Clean EXCEPT !.role = Missing],
          [Clean EXCEPT !.availability = 80], [Clean EXCEPT !.sources = 1],
          [Clean EXCEPT !.restriction = 21], [Clean EXCEPT !.restriction = Missing],
          [Clean EXCEPT !.role = 0, !.delta = -1], [Clean EXCEPT !.role = 2],
          [Clean EXCEPT !.bench = 6], [Clean EXCEPT !.start = 5, !.role = 41],
          [Clean EXCEPT !.start = 5, !.role = 45],
          [Clean EXCEPT !.games = 12], [Clean EXCEPT !.games = 12, !.prior = FALSE],
          [Clean EXCEPT !.disagreement = 13], [Clean EXCEPT !.fitted = FALSE]}
Found == [q \in Q |-> IF q = q1 THEN Anything ELSE {Clean}]

AtLeast(field, value) == [field |-> field, op |-> "gte", value |-> value]
Below(field, value) == [field |-> field, op |-> "lt", value |-> value]
Ruled(id, priority, status, kind, magnitude, all, when) ==
    [id |-> id, priority |-> priority, status |-> status, kind |-> kind,
     magnitude |-> magnitude, all |-> all, when |-> when]
Rules == {
    Ruled(1, 50, "active", "shrink_toward_even", 1, TRUE, {AtLeast("probability", 1408)}),
    Ruled(2, 90, "active", "shrink_toward_even", 2, FALSE,
          {Below("availability", 90), AtLeast("probability", 1536)}),
    Ruled(3, 50, "proposed", "shrink_toward_even", 2, TRUE, {AtLeast("probability", 0)}),
    Ruled(4, 70, "active", "block", 0, TRUE, {Below("sources", 2)})}

Players == (q1 :> "a") @@ (q2 :> "b") @@ (q3 :> "c")
Markets == [q \in Q |-> "points"]
Teams == (q1 :> "t") @@ (q2 :> "t") @@ (q3 :> "u")
Games == (q1 :> "g") @@ (q2 :> "g") @@ (q3 :> "h")

Trusted == [policyFitted |-> TRUE, confident |-> TRUE, sample |-> 40, covered |-> 88,
            target |-> 90, mean |-> 20, radius |-> 4, line |-> 15,
            sourceSample |-> 60, sourceWeight |-> 50]
TrustOf == {Trusted, [Trusted EXCEPT !.mean = 10], [Trusted EXCEPT !.sample = 39],
            [Trusted EXCEPT !.sourceWeight = 30], [Trusted EXCEPT !.sourceSample = 0]}

\* Underdog's bundled table.
Table == (<<"power", 2>> :> (2 :> 300)) @@ (<<"power", 3>> :> (3 :> 600))
         @@ (<<"power", 4>> :> (4 :> 1000)) @@ (<<"power", 5>> :> (5 :> 2000))
         @@ (<<"flex", 3>> :> (3 :> 300 @@ 2 :> 125)) @@ (<<"flex", 4>> :> (4 :> 600 @@ 3 :> 150))
         @@ (<<"flex", 5>> :> (5 :> 1000 @@ 4 :> 250 @@ 3 :> 40))
=============================================================================
