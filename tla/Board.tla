------------------------------- MODULE Board -------------------------------
(***************************************************************************)
(* The live board: what the context jobs (injuries, roles, teammate        *)
(* effects, matchups) keep in their tables, and the forecast runs that     *)
(* price the archived quotes with it.                                      *)
(*                                                                         *)
(* Every job takes its timestamp when it starts - the injury job once it   *)
(* has the report - reads the tables, and writes and commits later; every  *)
(* row it writes carries that time.  A forecast is made again only if a    *)
(* row newer than the forecast is found, so the board is right only as far *)
(* as "newer" means "not yet seen".                                        *)
(***************************************************************************)
EXTENDS Integers, FiniteSets, Sequences, FiniteSetsExt

CONSTANTS
    Player,
    Market,        \* a statistic of one player in one game; one source quotes it
    PlayerOf,      \* [Market -> Player]
    Scoreable,     \* markets the scorer supports and has history for
    LocksAt,       \* when each market's quotes lock
    Proc,          \* processes the timers and the owner may run at a time
    None,          \* no designation: the report does not list the player
    MaxClock,      \* bound: timestamps taken
    MaxQuotes,     \* bound: snapshots archived per market
    MaxStats,      \* bound: nights of new box scores
    MaxReports     \* bound: designations the league changes

ASSUME BoardAssumption ==
    /\ PlayerOf \in [Market -> Player]
    /\ Scoreable \subseteq Market
    /\ LocksAt \in [Market -> Nat]
    /\ None \notin {"available", "questionable", "out"}
    /\ MaxClock \in Nat /\ MaxQuotes \in Nat /\ MaxStats \in Nat
    /\ MaxReports \in Nat

VARIABLES
    clock,       \* the last timestamp taken
    report,      \* what the league's injury report says now
    reports,     \* how often it has changed
    stats,       \* how many nights of box scores are stored
    quotes,      \* prop_quotes of each market, oldest first
    rows,        \* open rows (system_to IS NULL) of the context tables, by key
    forecasts,   \* stat_forecasts: what each is about and what it rests on
    job          \* what each process is doing

vars == <<clock, report, reports, stats, quotes, rows, forecasts, job>>

-----------------------------------------------------------------------------
Designation == {"available", "questionable", "out"}
Line == {1, 2}
Context == {"injuries", "roles", "effects", "matchups"}

Pair == {pt \in Player \X Player : pt[1] # pt[2]}

\* What a row of each table is about.
InjuryKey == {"injury"} \X Player
Key == InjuryKey \cup ({"role"} \X Player) \cup ({"effect"} \X Pair)
                 \cup ({"matchup"} \X Market)

\* Tables whose open row a partial unique index keeps single; injury_status
\* has none.
SingleKey == Key \ InjuryKey

QuoteRow == [line : Line, available : BOOLEAN, seen : 0..MaxClock]

\* The context a forecast of a market reads.
KeysOf(m) ==
    LET p == PlayerOf[m]
    IN  {<<"injury", p>>, <<"role", p>>, <<"matchup", m>>}
          \cup {<<"effect", pt>> : pt \in {x \in Pair : x[1] = p}}

NoReport == [p \in Player |-> None]

Idle == [kind |-> "idle", at |-> 0, ready |-> FALSE, crowded |-> FALSE,
         heard |-> NoReport, writes |-> {}, todo |-> {}, made |-> {}]

-----------------------------------------------------------------------------
(* Reading the context.                                                    *)

\* The newest open row of a key, and its time; 0 when there is none.
NewestFrom(k) == Max({0} \cup {r.from : r \in rows[k]})
Newest(k) == CHOOSE r \in rows[k] : r.from = NewestFrom(k)

Says(p) == IF rows[<<"injury", p>>] = {} THEN "available"
           ELSE Newest(<<"injury", p>>).value

\* Markets a job started at this time works on: any available snapshot.
Quoted(at) == {m \in Market : /\ LocksAt[m] > at
                             /\ \E i \in DOMAIN quotes[m] : quotes[m][i].available}

QuotedPlayers(at) == {PlayerOf[m] : m \in Quoted(at)}

-----------------------------------------------------------------------------
(* What each context job means to write: for some keys a value, computed   *)
(* from what is committed as it reads.  A value stands for the numbers the *)
(* designation and the box scores determine.                               *)

\* ingest_official_injuries: rows of the report it fetched; a player it no
\* longer lists keeps the row there is.
InjuryValues(heard) ==
    {<<<<"injury", p>>, heard[p]>> : p \in {q \in Player : heard[q] # None}}

\* project_current_roles: every quoted player, from designation and history.
RoleValues(at) == {<<<<"role", p>>, <<Says(p), stats>>>> : p \in QuotedPlayers(at)}

\* project_teammate_effects: one row for each teammate who is out, fitted
\* together; there is no row to write for one who is back.
Absent == {p \in Player : \E r \in rows[<<"injury", p>>] : r.value = "out"}

EffectValues(at) ==
    {<<<<"effect", pt>>, <<Absent \ {pt[1]}, stats>>>> :
        pt \in {x \in Pair : x[1] \in QuotedPlayers(at) /\ x[2] \in Absent}}

\* project_matchup_contexts: every quoted market.
MatchupValues(at) == {<<<<"matchup", m>>, stats>> : m \in Quoted(at)}

Values(kind, at, heard) ==
    CASE kind = "injuries" -> InjuryValues(heard)
      [] kind = "roles"    -> RoleValues(at)
      [] kind = "effects"  -> EffectValues(at)
      [] kind = "matchups" -> MatchupValues(at)

\* A value equal to the current row's is "unchanged" and not written.  What
\* the job read beside each value decides whether it closes anything.
Writes(kind, at, heard) ==
    {[key |-> kv[1], value |-> kv[2], saw |-> rows[kv[1]]] :
        kv \in {x \in Values(kind, at, heard) :
                    rows[x[1]] = {} \/ Newest(x[1]).value # x[2]}}

-----------------------------------------------------------------------------
(* The forecast run's board query and what it makes of a quote.            *)

\* Mutation: the query forgets the roles.
OutdatedButForRoles(f) ==
    \E k \in KeysOf(f.market) : k[1] # "role" /\ NewestFrom(k) > f.at

\* A context row newer than the forecast.
Outdated(f) == \E k \in KeysOf(f.market) : NewestFrom(k) > f.at

\* The WHERE of the board query for snapshot i of market m.
Due(at, m, i) ==
    /\ quotes[m][i].available
    /\ LocksAt[m] > at
    /\ \A f \in forecasts : f.market = m /\ f.quote = i => Outdated(f)

\* DISTINCT ON the quote's source id, newest snapshot first, of those due.
Board(at) == {b \in Market \X (1..MaxQuotes) :
            /\ b[2] \in DOMAIN quotes[b[1]] /\ Due(at, b[1], b[2])
            /\ \A j \in DOMAIN quotes[b[1]] : j > b[2] => ~Due(at, b[1], j)}

\* Skipped without a forecast: unsupported, thin, or ruled out.
Skipped(m) == m \notin Scoreable \/ Says(PlayerOf[m]) = "out"

\* What the run read of each key; its time stands for the row.
Used(m) == [k \in KeysOf(m) |-> NewestFrom(k)]

ForecastRow(j, m, i) ==
    [market |-> m, quote |-> i, line |-> quotes[m][i].line, at |-> j.at,
     used |-> Used(m), crowded |-> j.crowded]

-----------------------------------------------------------------------------
\* The evening begins: every market has been quoted once.
Init ==
    /\ clock = 0
    /\ report = [p \in Player |-> None]
    /\ reports = 0
    /\ stats = 0
    /\ quotes = [m \in Market |-> <<[line |-> 1, available |-> TRUE, seen |-> 0]>>]
    /\ rows = [k \in Key |-> {}]
    /\ forecasts = {}
    /\ job = [p \in Proc |-> Idle]

(* The world.                                                              *)

ReportChanges(p, d) ==
    /\ report[p] # d /\ reports < MaxReports
    /\ reports' = reports + 1
    /\ report' = [report EXCEPT ![p] = d]
    /\ UNCHANGED <<clock, stats, quotes, rows, forecasts, job>>

\* A night's box scores are ingested.
StatsArrive ==
    /\ stats < MaxStats
    /\ stats' = stats + 1
    /\ UNCHANGED <<clock, report, reports, quotes, rows, forecasts, job>>

\* run_archiver: a snapshot is appended when the source's state changed.
Poll(m, l, a) ==
    /\ clock < MaxClock /\ Len(quotes[m]) < MaxQuotes
    /\ LET last == quotes[m][Len(quotes[m])] IN last.line # l \/ last.available # a
    /\ clock' = clock + 1
    /\ quotes' = [quotes EXCEPT ![m] =
                    Append(@, [line |-> l, available |-> a, seen |-> clock'])]
    /\ UNCHANGED <<report, reports, stats, rows, forecasts, job>>

(* The jobs.                                                               *)

\* A process takes its timestamp: as it starts, or, the injury job, once it has
\* fetched the report.  crowded is a history variable: some context job was at
\* work then.
Begin(p, kind) ==
    /\ job[p] = Idle
    /\ clock < MaxClock
    /\ clock' = clock + 1
    /\ job' = [job EXCEPT ![p] =
                [Idle EXCEPT !.kind = kind, !.at = clock',
                             !.heard = IF kind = "injuries" THEN report ELSE @,
                             !.crowded = \E o \in Proc : job[o].kind \in Context]]
    /\ UNCHANGED <<report, reports, stats, quotes, rows, forecasts>>

\* A context job reads what it needs and decides what to write.
Compute(p) ==
    /\ job[p].kind \in Context /\ ~job[p].ready
    /\ job' = [job EXCEPT ![p].ready = TRUE, ![p].heard = NoReport,
                          ![p].writes = Writes(job[p].kind, job[p].at, job[p].heard)]
    /\ UNCHANGED <<clock, report, reports, stats, quotes, rows, forecasts>>

\* The UPDATE that closes sees every open row, or, when it had to wait for
\* another job's, only those it had read that are open still.
Closes(w, all) ==
    IF w.saw = {} THEN {} ELSE IF all THEN rows[w.key] ELSE rows[w.key] \cap w.saw

\* Mutations: the table without the index, and without the CHECK.
MayWriteTwice(at, w, all) == \A r \in Closes(w, all) : r.from < at

MayBackdate(at, w, all) == w.key \in SingleKey => rows[w.key] \ Closes(w, all) = {}

\* CHECK (system_to > system_from), and the partial unique index.
MayWrite(at, w, all) ==
    /\ \A r \in Closes(w, all) : r.from < at
    /\ w.key \in SingleKey => rows[w.key] \ Closes(w, all) = {}

\* Close, insert and commit: all of it, or (Die) none.
Refresh(p) ==
    /\ job[p].kind \in Context /\ job[p].ready
    /\ \E all \in BOOLEAN :
         /\ \A w \in job[p].writes : MayWrite(job[p].at, w, all)
         /\ rows' = [k \in Key |->
              (UNION {(rows[k] \ Closes(w, all)) \cup {[value |-> w.value, from |-> job[p].at]} :
                        w \in {x \in job[p].writes : x.key = k}})
              \cup (IF \E w \in job[p].writes : w.key = k THEN {} ELSE rows[k])]
    /\ job' = [job EXCEPT ![p] = Idle]
    /\ UNCHANGED <<clock, report, reports, stats, quotes, forecasts>>

\* run_baseline reads its board once.
FetchBoard(p) ==
    /\ job[p].kind = "forecast" /\ ~job[p].ready
    /\ job' = [job EXCEPT ![p].ready = TRUE, ![p].todo = Board(job[p].at)]
    /\ UNCHANGED <<clock, report, reports, stats, quotes, rows, forecasts>>

\* One turn of its loop: the context is read as it is committed now.
ScoreQuote(p, m, i) ==
    /\ <<m, i>> \in job[p].todo
    /\ IF Skipped(m)
         THEN job' = [job EXCEPT ![p].todo = @ \ {<<m, i>>}]
         ELSE job' = [job EXCEPT ![p].todo = @ \ {<<m, i>>},
                                 ![p].made = @ \cup {ForecastRow(job[p], m, i)}]
    /\ UNCHANGED <<clock, report, reports, stats, quotes, rows, forecasts>>

CommitRun(p) ==
    /\ job[p].kind = "forecast" /\ job[p].ready /\ job[p].todo = {}
    /\ forecasts' = forecasts \cup job[p].made
    /\ job' = [job EXCEPT ![p] = Idle]
    /\ UNCHANGED <<clock, report, reports, stats, quotes, rows>>

\* Killed, or refused by a constraint: the transaction is rolled back.
Die(p) ==
    /\ job[p] # Idle
    /\ job' = [job EXCEPT ![p] = Idle]
    /\ UNCHANGED <<clock, report, reports, stats, quotes, rows, forecasts>>

Next ==
    \/ \E p \in Player, d \in Designation \cup {None} : ReportChanges(p, d)
    \/ StatsArrive
    \/ \E m \in Market, l \in Line, a \in BOOLEAN : Poll(m, l, a)
    \/ \E p \in Proc, kind \in Context \cup {"forecast"} : Begin(p, kind)
    \/ \E p \in Proc : Compute(p) \/ Refresh(p) \/ FetchBoard(p) \/ CommitRun(p) \/ Die(p)
    \/ \E p \in Proc, m \in Market, i \in 1..MaxQuotes : ScoreQuote(p, m, i)

Spec == Init /\ [][Next]_vars

-----------------------------------------------------------------------------
(* Properties.                                                             *)

Value(k) == CASE k[1] = "injury" -> Designation
              [] k[1] = "role" -> Designation \X (0..MaxStats)
              [] k[1] = "effect" -> (SUBSET Player) \X (0..MaxStats)
              [] OTHER -> 0..MaxStats

RowOf(k) == [value : Value(k), from : 1..MaxClock]

IsForecast(f) ==
    /\ f.market \in Scoreable
    /\ f.quote \in DOMAIN quotes[f.market]
    /\ f.line = quotes[f.market][f.quote].line
    /\ f.at \in 1..clock
    /\ f.used \in [KeysOf(f.market) -> 0..clock]
    /\ f.crowded \in BOOLEAN

\* The tables and the transactions in flight are well formed; a forecast is
\* of an archived snapshot, and of a market the scorer supports.
TypeOK ==
    /\ clock \in 0..MaxClock
    /\ report \in [Player -> Designation \cup {None}]
    /\ reports \in 0..MaxReports /\ stats \in 0..MaxStats
    /\ quotes \in [Market -> Seq(QuoteRow)]
    /\ \A k \in Key : rows[k] \subseteq RowOf(k)
    /\ \A k \in SingleKey : Cardinality(rows[k]) <= 1
    /\ \A f \in forecasts : IsForecast(f)
    /\ \A p \in Proc :
         /\ job[p].kind \in Context \cup {"forecast", "idle"}
         /\ job[p].at \in 0..clock
         /\ job[p].heard \in [Player -> Designation \cup {None}]
         /\ \A w \in job[p].writes : w.key \in Key /\ w.value \in Value(w.key)
         /\ \A f \in job[p].made : IsForecast(f) /\ f.at = job[p].at

\* The forecast does not rest on the context that is committed now.
Stale(f) == \E k \in KeysOf(f.market) : NewestFrom(k) # f.used[k]

\* run_baseline makes a forecast again only when it finds a context row newer
\* than the forecast.  So whatever is committed after a run read its context
\* must be newer than the run - which it is, unless the job that commits it
\* had started before the run did.
StaleForecastsAreDue ==
    \A f \in forecasts : Stale(f) => Outdated(f) \/ f.crowded

\* Two jobs of a kind may overlap and the older one may commit last.  What is
\* current of a key is never replaced by something older: the ledger's CHECK
\* refuses to close a row at a time before it was opened.
ContextNeverRunsBack ==
    [][\A k \in Key : NewestFrom(k)' >= NewestFrom(k)]_vars

\* run_baseline's docstring: "Forecast the current board."  A run forecasts
\* the newest snapshot of a market among those it could see.
ForecastsAreOfTheCurrentBoard ==
    \A f \in forecasts : \A j \in DOMAIN quotes[f.market] :
        j > f.quote => quotes[f.market][j].seen > f.at
=============================================================================
