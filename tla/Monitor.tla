-------------------------------- MODULE Monitor --------------------------------
(***************************************************************************)
(* The liveness monitor, monitoring/liveness.py: eight questions about     *)
(* whether the pipeline produced work, and the incident table reconciled   *)
(* with the answers. The pipeline is one game and one quoted athlete with  *)
(* the jobs that should produce something for them; each job may be late   *)
(* or never come, as in the failures the module is written against.        *)
(***************************************************************************)
EXTENDS Naturals, FiniteSets

CONSTANTS
    Asked,       \* CHECKS, or those of them an instance asks
    Timer,       \* the wnba-liveness unit, every fifteen minutes
    Typed,       \* a command typed beside it
    MaxTyped,    \* bound: runs of the command
    MaxErrors,   \* bound: queries that raise
    MaxDeaths    \* bound: runs that die

Checks == {"MARKET_ARCHIVE_STALE", "GAME_PAST_TIPOFF_NOT_FINAL", "QUOTED_GAME_WITHOUT_FORECASTS",
           "QUOTED_PLAYERS_WITHOUT_ROLES", "UNMERGED_QUOTED_ATHLETES", "SETTLED_GAME_WITH_UNSCORED_EPISODES",
           "CURRENT_FORECAST_WITHOUT_JOINT_SIMULATION", "TRUST_ARTIFACT_STALE"}

ASSUME MonitorAssumption ==
    /\ Asked \subseteq Checks /\ Timer # Typed
    /\ MaxTyped \in Nat /\ MaxErrors \in Nat /\ MaxDeaths \in Nat

VARIABLES
    hour,        \* where the game is: quoted just now, 30 minutes, under way, 6 and 12 hours past tipoff
    made,        \* what the jobs have produced for it
    openRows,    \* Asked -> how many unresolved rows of dq_incidents have the code
    watch,       \* process -> its run: the codes it found failing, and what it has written
    mishaps      \* how many runs were typed, queries raised, and runs died

monitorVars == <<hour, made, openRows, watch, mishaps>>

Hour == 0..4
Ahead == hour <= 1

\* "merged" the duplicate athlete, "role", "forecast", "simulation", "final" the
\* game, "settled" its episode, "fitted" trust within eight days of the last
\* settlement, "polled" the archive in the last 45 minutes.
Work == {"merged", "role", "forecast", "simulation", "final", "settled", "fitted", "polled"}

\* The queries, on rows committed when they are asked.
Failing(code) ==
    CASE code = "MARKET_ARCHIVE_STALE" -> "polled" \notin made
      [] code = "GAME_PAST_TIPOFF_NOT_FINAL" -> "final" \notin made /\ hour >= 3
      [] code = "QUOTED_GAME_WITHOUT_FORECASTS" -> Ahead /\ hour >= 1 /\ "forecast" \notin made
      [] code = "QUOTED_PLAYERS_WITHOUT_ROLES" -> Ahead /\ hour >= 1 /\ "role" \notin made
      [] code = "UNMERGED_QUOTED_ATHLETES" -> Ahead /\ "merged" \notin made
      [] code = "SETTLED_GAME_WITH_UNSCORED_EPISODES" ->
            {"final", "forecast"} \subseteq made /\ "settled" \notin made /\ hour >= 4
      [] code = "CURRENT_FORECAST_WITHOUT_JOINT_SIMULATION" ->
            Ahead /\ "forecast" \in made /\ "simulation" \notin made
      [] code = "TRUST_ARTIFACT_STALE" -> "fitted" \notin made

\* A job of the pipeline produces its work: the projector needs the athlete's one
\* identity, the forecaster a role, the simulator a forecast, settlement the final
\* score, and none of them fails when it finds nothing to do.
CanMake(work) ==
    CASE work = "merged" -> TRUE
      [] work = "role" -> Ahead /\ "merged" \in made
      [] work = "forecast" -> Ahead /\ "role" \in made
      [] work = "simulation" -> Ahead /\ "forecast" \in made
      [] work = "final" -> hour >= 2
      [] work = "settled" -> {"final", "forecast"} \subseteq made
      [] OTHER -> TRUE

Produce(work) ==
    /\ work \notin made /\ CanMake(work)
    /\ made' = made \cup {work}
    /\ UNCHANGED <<hour, openRows, watch, mishaps>>

\* The archiver falls silent, and trust is overtaken by a settlement.
Outdate(work) ==
    /\ work \in made
    /\ (work = "polled" \/ (work = "fitted" /\ "settled" \in made))
    /\ made' = made \ {work}
    /\ UNCHANGED <<hour, openRows, watch, mishaps>>

Pass ==
    /\ hour < 4 /\ hour' = hour + 1
    /\ UNCHANGED <<made, openRows, watch, mishaps>>

IdleWatch == [at |-> "rest", failing |-> {}, resolved |-> {}, refreshed |-> {}, inserted |-> {}]

MonitorInit ==
    /\ hour = 0
    /\ made = {"polled"}
    /\ openRows = [c \in Asked |-> 0]
    /\ watch = [p \in {Timer, Typed} |-> IdleWatch]
    /\ mishaps = [typed |-> 0, raised |-> 0, died |-> 0]

\* The checks, one after the other in milliseconds. One that raises is a finding of
\* its own, and its rollback has nothing to undo.
Check(p) ==
    /\ watch[p].at = "rest"
    /\ p = Typed => mishaps.typed < MaxTyped
    /\ \E raised \in SUBSET Asked :
        /\ mishaps.raised + Cardinality(raised) <= MaxErrors
        /\ watch' = [watch EXCEPT ![p] = [IdleWatch EXCEPT
                       !.at = "found", !.failing = raised \cup {c \in Asked : Failing(c)}]]
        /\ mishaps' = [mishaps EXCEPT !.raised = @ + Cardinality(raised), !.typed = @ + IF p = Typed THEN 1 ELSE 0]
    /\ UNCHANGED <<hour, made, openRows>>

OpenCodes == {c \in Asked : openRows[c] > 0}

\* Mutation: a run resolves nothing.
ClearedNothing(failing) == {}

\* The rows the run resolves: the open ones of a check that no longer fails.
Cleared(failing) == OpenCodes \ failing

\* The rows the run adds: of a failing check whose update finds no open one.
Inserted(failing) == failing \ OpenCodes

\* Resolve, then refresh the open rows of each failing check or insert one. The
\* updates wait for another run's uncommitted ones.
Reconcile(p) ==
    /\ watch[p].at = "found"
    /\ \A q \in {Timer, Typed} \ {p} : (watch[q].resolved \cup watch[q].refreshed) \cap OpenCodes = {}
    /\ watch' = [watch EXCEPT ![p].at = "written",
                              ![p].resolved = Cleared(watch[p].failing),
                              ![p].refreshed = OpenCodes \cap watch[p].failing,
                              ![p].inserted = Inserted(watch[p].failing)]
    /\ UNCHANGED <<hour, made, openRows, mishaps>>

CommitWatch(p) ==
    /\ watch[p].at = "written"
    /\ openRows' = [c \in Asked |-> IF c \in watch[p].resolved THEN 0
                                    ELSE IF c \in watch[p].inserted THEN openRows[c] + 1 ELSE openRows[c]]
    /\ watch' = [watch EXCEPT ![p] = IdleWatch]
    /\ UNCHANGED <<hour, made, mishaps>>

Die(p) ==
    /\ watch[p].at # "rest" /\ mishaps.died < MaxDeaths
    /\ watch' = [watch EXCEPT ![p] = IdleWatch]
    /\ mishaps' = [mishaps EXCEPT !.died = @ + 1]
    /\ UNCHANGED <<hour, made, openRows>>

WatchStep(p) == Check(p) \/ Reconcile(p) \/ CommitWatch(p)

MonitorNext ==
    \/ \E work \in Work : Produce(work) \/ Outdate(work)
    \/ Pass
    \/ \E p \in {Timer, Typed} : WatchStep(p) \/ Die(p)

\* The timer starts again every fifteen minutes, and a run that is not killed ends.
\* Nothing is promised of the pipeline.
MonitorFairness == \A p \in {Timer, Typed} : WF_monitorVars(Check(Timer)) /\ WF_monitorVars(Reconcile(p)) /\ WF_monitorVars(CommitWatch(p))

MonitorSpec == MonitorInit /\ [][MonitorNext]_monitorVars /\ MonitorFairness

\* Types of the incident table and of the runs.
MonitorTypeOK ==
    /\ hour \in Hour /\ made \subseteq Work
    /\ openRows \in [Asked -> Nat]
    /\ \A p \in {Timer, Typed} : watch[p].failing \subseteq Asked

\* A problem that persists does not fill the table: a code never has more open rows
\* than runs that found it without one, which is one for the timer's and one for a
\* typed command's, however long it fails, is resolved by one run while the other is
\* about to insert, or fails to execute. liveness.py:298 counts on one; hundreds was
\* what the first version left (liveness.py:253).
IncidentsDoNotPileUp == \A c \in Asked : openRows[c] <= 2
-----------------------------------------------------------------------------
\* The incidents come to say what is true, and stay so: a check that goes on
\* failing has an open incident from some moment on, and one that stays clean has
\* none, whatever overlapping runs, failed queries and dead runs left behind. The
\* first version of the module, its docstring says (liveness.py:251), did neither.
IncidentsComeTrue ==
    \A c \in Asked :
        /\ <>[]Failing(c) => <>[](openRows[c] > 0)
        /\ <>[]~Failing(c) => <>[](openRows[c] = 0)
=============================================================================
