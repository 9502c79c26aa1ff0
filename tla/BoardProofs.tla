----------------------------- MODULE BoardProofs -----------------------------
(***************************************************************************)
(* Theorems about the forecast run: about Board, for every number of       *)
(* players, markets, processes and timestamps, and about the numbers of    *)
(* Pricing and the tickets and stakes of Entries, for every board, set of  *)
(* rules, payout table and policy.                                         *)
(*                                                                         *)
(* What makes "newer than the forecast" mean "not seen by it" is an order  *)
(* of starts: a row committed after a run has read is newer than the run   *)
(* unless the job that commits it had started before.  So the invariant    *)
(* says of every forecast, stored or in a run, which context jobs at work  *)
(* can still commit something older than it: none, unless it is crowded.   *)
(***************************************************************************)
EXTENDS Board, Entries, FiniteSetTheorems, WellFoundedInduction, TLAPS

-----------------------------------------------------------------------------
(* The newest row of a key.                                                *)

\* A nonempty set of bounded naturals has its maximum for Max.
LEMMA MaxOfBounded ==
    ASSUME NEW n \in Nat, NEW S \in SUBSET (0..n), S # {}
    PROVE  Max(S) \in S /\ \A x \in S : x <= Max(S)
<1> DEFINE T == {n - x : x \in S}
<1>1. T \subseteq Nat
  <2>1. \A x \in S : x \in 0..n /\ n - x \in Nat
    OBVIOUS
  <2> QED  BY <2>1
<1>2. T # {}
  OBVIOUS
<1>3. PICK t \in T : \A y \in T : ~(<<y, t>> \in OpToRel(<, Nat))
  <2> HIDE DEF T
  <2> QED  BY <1>1, <1>2, WFMin, NatLessThanWellFounded
<1>4. \A y \in T : ~(y < t)
  BY <1>1, <1>3 DEF OpToRel
<1>5. PICK x \in S : t = n - x
  BY <1>3
<1>6. \A y \in S : x >= y
  <2> TAKE y \in S
  <2>1. ~(n - y < n - x)
    BY <1>4, <1>5
  <2> QED  BY <2>1
<1>7. Max(S) \in S /\ \A y \in S : Max(S) >= y
  BY <1>5, <1>6 DEF Max
<1>8. \A y \in S : Max(S) \in 0..n /\ y \in 0..n
  BY <1>7
<1> QED  BY <1>7, <1>8

\* Max({0} \cup froms) of the rows of a key, whatever table state they are from.
Latest(S) == Max({0} \cup {r.from : r \in S})

LEMMA LatestOfRows ==
    ASSUME NEW n \in Nat, NEW S, \A r \in S : r.from \in 1..n
    PROVE  /\ Latest(S) \in 0..n
           /\ \A r \in S : r.from <= Latest(S)
           /\ Latest(S) = 0 \/ \E r \in S : r.from = Latest(S)
           /\ S # {} => \E r \in S : r.from = Latest(S)
<1> DEFINE F == {0} \cup {r.from : r \in S}
<1>1. F \in SUBSET (0..n) /\ F # {}
  OBVIOUS
<1>2. Max(F) \in F /\ \A x \in F : x <= Max(F)
  <2> HIDE DEF F
  <2> QED  BY <1>1, MaxOfBounded
<1>3. Latest(S) = Max(F)
  BY DEF Latest
<1>4. Latest(S) \in 0..n
  BY <1>1, <1>2, <1>3
<1>5. \A r \in S : r.from <= Latest(S)
  BY <1>2, <1>3
<1>6. Latest(S) = 0 \/ \E r \in S : r.from = Latest(S)
  BY <1>2, <1>3
<1>7. S # {} => \E r \in S : r.from = Latest(S)
  <2> SUFFICES ASSUME NEW s \in S PROVE \E r \in S : r.from = Latest(S)
    OBVIOUS
  <2>1. s.from \in 1..n /\ s.from <= Latest(S)
    BY <1>5
  <2>2. Latest(S) # 0
    BY <2>1, <1>4
  <2> QED  BY <2>2, <1>6
<1> QED  BY <1>4, <1>5, <1>6, <1>7

-----------------------------------------------------------------------------
(* The invariant.                                                          *)

AnyRow == UNION {RowOf(k) : k \in Key}
AnyValue == UNION {Value(k) : k \in Key}
WriteRow == [key : Key, value : AnyValue, saw : SUBSET AnyRow]
AnyForecast ==
    [market : Market, quote : 1..MaxQuotes, line : Line, at : 0..MaxClock,
     used : UNION {[KeysOf(m) -> 0..MaxClock] : m \in Market}, crowded : BOOLEAN]

JobShape ==
    [kind : Context \cup {"forecast", "idle"}, at : 0..MaxClock, ready : BOOLEAN,
     crowded : BOOLEAN, heard : [Player -> Designation \cup {None}], writes : SUBSET WriteRow,
     todo : SUBSET (Market \X (1..MaxQuotes)), made : SUBSET AnyForecast]

\* The tables of the world.
WorldInv ==
    /\ clock \in 0..MaxClock
    /\ report \in [Player -> Designation \cup {None}]
    /\ reports \in 0..MaxReports /\ stats \in 0..MaxStats
    /\ quotes \in [Market -> Seq(QuoteRow)]

\* Open rows are of their table's shape, no newer than the clock, and single
\* where an index keeps them so.
RowsInv ==
    /\ rows \in [Key -> SUBSET AnyRow]
    /\ \A k \in Key : \A r \in rows[k] : r \in RowOf(k) /\ r.from <= clock
    /\ \A k \in SingleKey : \A r, s \in rows[k] : r = s

\* What a process means to write is of its table's shape, once for each key; what
\* it has still to price is archived, and what it has priced is of its own time.
JobOK(j) ==
    /\ j.at <= clock
    /\ j.kind # "idle" => j.at >= 1
    /\ \A w \in j.writes : w.value \in Value(w.key)
    /\ \A v, w \in j.writes : v.key = w.key => v = w
    /\ \A b \in j.todo : b[2] \in DOMAIN quotes[b[1]]
    /\ (j.todo # {} \/ j.made # {}) => j.kind = "forecast"
    /\ \A f \in j.made : IsForecast(f) /\ f.at = j.at /\ f.crowded = j.crowded

JobsInv == job \in [Proc -> JobShape] /\ \A p \in Proc : JobOK(job[p])

ForecastsInv == forecasts \subseteq AnyForecast /\ \A f \in forecasts : IsForecast(f)

TypeInv == WorldInv /\ RowsInv /\ JobsInv /\ ForecastsInv

\* Whatever of a key a forecast did not read is newer than it, or came from a job
\* that was at work when its run began.
Heeded(f) ==
    \A k \in KeysOf(f.market) : NewestFrom(k) # f.used[k] => NewestFrom(k) > f.at \/ f.crowded

\* No context job at work is older than the forecast, or it is crowded.
Fenced(at, crowded) ==
    \A p \in Proc : job[p].kind \in Context => job[p].at > at \/ crowded

OrderInv ==
    /\ \A f \in forecasts : Heeded(f) /\ Fenced(f.at, f.crowded)
    /\ \A p \in Proc : job[p].kind = "forecast" => Fenced(job[p].at, job[p].crowded)
    /\ \A p \in Proc : \A f \in job[p].made : Heeded(f)

IInv == TypeInv /\ OrderInv

-----------------------------------------------------------------------------
LEMMA KeysAreKeys == \A m \in Market : KeysOf(m) \subseteq Key
  BY BoardAssumption DEF KeysOf, Key, InjuryKey, Pair

LEMMA NewestFacts ==
    ASSUME WorldInv, RowsInv, NEW k \in Key
    PROVE  /\ NewestFrom(k) \in 0..clock
           /\ \A r \in rows[k] : r.from <= NewestFrom(k)
           /\ NewestFrom(k) = 0 \/ \E r \in rows[k] : r.from = NewestFrom(k)
           /\ rows[k] # {} => Newest(k) \in rows[k]
<1>1. clock \in Nat
  BY BoardAssumption DEF WorldInv
<1>2. \A r \in rows[k] : r.from \in 1..clock
  BY <1>1, BoardAssumption DEF RowsInv, RowOf
<1>3. NewestFrom(k) = Latest(rows[k])
  BY DEF NewestFrom, Latest
<1>4. /\ Latest(rows[k]) \in 0..clock
      /\ \A r \in rows[k] : r.from <= Latest(rows[k])
      /\ Latest(rows[k]) = 0 \/ \E r \in rows[k] : r.from = Latest(rows[k])
      /\ rows[k] # {} => \E r \in rows[k] : r.from = Latest(rows[k])
  BY <1>1, <1>2, LatestOfRows
<1>5. rows[k] # {} => Newest(k) \in rows[k]
  BY <1>3, <1>4 DEF Newest
<1> QED  BY <1>3, <1>4, <1>5

\* The designation a table has of a player.
LEMMA SaysType ==
    ASSUME WorldInv, RowsInv, NEW p \in Player
    PROVE  Says(p) \in Designation
<1>1. <<"injury", p>> \in Key
  BY DEF Key, InjuryKey
<1>2. CASE rows[<<"injury", p>>] = {}
  BY <1>2 DEF Says, Designation
<1>3. CASE rows[<<"injury", p>>] # {}
  <2>1. Newest(<<"injury", p>>) \in RowOf(<<"injury", p>>)
    BY <1>1, <1>3, NewestFacts DEF RowsInv
  <2>2. Value(<<"injury", p>>) = Designation
    BY DEF Value
  <2> QED  BY <1>3, <2>1, <2>2 DEF Says, RowOf
<1> QED  BY <1>2, <1>3

LEMMA QuotedArePlayers == ASSUME NEW at PROVE QuotedPlayers(at) \subseteq Player
  BY BoardAssumption DEF QuotedPlayers, Quoted

\* What a job computes is keyed by its table's keys and of their values, and no
\* key is computed twice.
LEMMA ValuesTyped ==
    ASSUME WorldInv, RowsInv, NEW kind \in Context, NEW at,
           NEW heard \in [Player -> Designation \cup {None}],
           NEW x \in Values(kind, at, heard)
    PROVE  x = <<x[1], x[2]>> /\ x[1] \in Key /\ x[2] \in Value(x[1])
<1>1. CASE kind = "injuries"
  <2>1. PICK p \in Player : heard[p] # None /\ x = <<<<"injury", p>>, heard[p]>>
    BY <1>1 DEF Values, InjuryValues
  <2>2. heard[p] \in Designation
    BY <2>1
  <2>3. <<"injury", p>> \in Key /\ Value(<<"injury", p>>) = Designation
    BY DEF Key, InjuryKey, Value
  <2> QED  BY <2>1, <2>2, <2>3
<1>2. CASE kind = "roles"
  <2>1. PICK p \in QuotedPlayers(at) : x = <<<<"role", p>>, <<Says(p), stats>>>>
    BY <1>2 DEF Values, RoleValues
  <2>2. p \in Player /\ Says(p) \in Designation
    BY QuotedArePlayers, SaysType
  <2>3. <<"role", p>> \in Key /\ Value(<<"role", p>>) = Designation \X (0..MaxStats)
    BY <2>2 DEF Key, Value
  <2> QED  BY <2>1, <2>2, <2>3 DEF WorldInv
<1>3. CASE kind = "effects"
  <2>1. PICK pt \in Pair : x = <<<<"effect", pt>>, <<Absent \ {pt[1]}, stats>>>>
    BY <1>3 DEF Values, EffectValues
  <2>2. Absent \ {pt[1]} \in SUBSET Player
    BY DEF Absent
  <2>3. <<"effect", pt>> \in Key /\ Value(<<"effect", pt>>) = (SUBSET Player) \X (0..MaxStats)
    BY DEF Key, Value
  <2> QED  BY <2>1, <2>2, <2>3 DEF WorldInv
<1>4. CASE kind = "matchups"
  <2>1. PICK m \in Quoted(at) : x = <<<<"matchup", m>>, stats>>
    BY <1>4 DEF Values, MatchupValues
  <2>2. m \in Market
    BY DEF Quoted
  <2>3. <<"matchup", m>> \in Key /\ Value(<<"matchup", m>>) = 0..MaxStats
    BY <2>2 DEF Key, Value
  <2> QED  BY <2>1, <2>3 DEF WorldInv
<1> QED  BY <1>1, <1>2, <1>3, <1>4 DEF Context

LEMMA ValuesUnique ==
    ASSUME NEW kind \in Context, NEW at, NEW heard,
           NEW x \in Values(kind, at, heard), NEW y \in Values(kind, at, heard), x[1] = y[1]
    PROVE  x = y
<1>1. CASE kind = "injuries"
  BY <1>1 DEF Values, InjuryValues
<1>2. CASE kind = "roles"
  BY <1>2 DEF Values, RoleValues
<1>3. CASE kind = "effects"
  BY <1>3 DEF Values, EffectValues
<1>4. CASE kind = "matchups"
  BY <1>4 DEF Values, MatchupValues
<1> QED  BY <1>1, <1>2, <1>3, <1>4 DEF Context

LEMMA WritesTyped ==
    ASSUME WorldInv, RowsInv, NEW kind \in Context, NEW at,
           NEW heard \in [Player -> Designation \cup {None}]
    PROVE  /\ Writes(kind, at, heard) \in SUBSET WriteRow
           /\ \A w \in Writes(kind, at, heard) : w.value \in Value(w.key)
           /\ \A v, w \in Writes(kind, at, heard) : v.key = w.key => v = w
<1>1. ASSUME NEW w \in Writes(kind, at, heard)
      PROVE  \E x \in Values(kind, at, heard) : w = [key |-> x[1], value |-> x[2], saw |-> rows[x[1]]]
  BY DEF Writes
<1>2. ASSUME NEW w \in Writes(kind, at, heard)
      PROVE  w \in WriteRow /\ w.value \in Value(w.key)
  <2>1. PICK x \in Values(kind, at, heard) : w = [key |-> x[1], value |-> x[2], saw |-> rows[x[1]]]
    BY <1>1
  <2>2. x[1] \in Key /\ x[2] \in Value(x[1])
    BY ValuesTyped
  <2>3. x[2] \in AnyValue /\ rows[x[1]] \in SUBSET AnyRow
    BY <2>2 DEF AnyValue, RowsInv
  <2> QED  BY <2>1, <2>2, <2>3 DEF WriteRow
<1>3. ASSUME NEW v \in Writes(kind, at, heard), NEW w \in Writes(kind, at, heard), v.key = w.key
      PROVE  v = w
  <2>1. PICK x \in Values(kind, at, heard) : v = [key |-> x[1], value |-> x[2], saw |-> rows[x[1]]]
    BY <1>1
  <2>2. PICK y \in Values(kind, at, heard) : w = [key |-> y[1], value |-> y[2], saw |-> rows[y[1]]]
    BY <1>1
  <2>3. x = y
    BY <1>3, <2>1, <2>2, ValuesUnique
  <2> QED  BY <2>1, <2>2, <2>3
<1> QED  BY <1>2, <1>3

-----------------------------------------------------------------------------
(* Close and insert.                                                       *)

\* A refresh leaves the rows of a key alone, or closes some and adds its own.
Refreshed(p, all, k) ==
    \E w \in job[p].writes :
        /\ w.key = k /\ MayWrite(job[p].at, w, all)
        /\ rows'[k] = (rows[k] \ Closes(w, all)) \cup {[value |-> w.value, from |-> job[p].at]}

LEMMA RefreshRows ==
    ASSUME JobsInv, NEW p \in Proc, Refresh(p)
    PROVE  \E all \in BOOLEAN : \A k \in Key : rows'[k] = rows[k] \/ Refreshed(p, all, k)
<1>1. PICK all \in BOOLEAN :
        /\ \A w \in job[p].writes : MayWrite(job[p].at, w, all)
        /\ rows' = [k \in Key |->
              (UNION {(rows[k] \ Closes(w, all)) \cup {[value |-> w.value, from |-> job[p].at]} :
                        w \in {x \in job[p].writes : x.key = k}})
              \cup (IF \E w \in job[p].writes : w.key = k THEN {} ELSE rows[k])]
  BY DEF Refresh
<1>2. SUFFICES ASSUME NEW k \in Key PROVE rows'[k] = rows[k] \/ Refreshed(p, all, k)
  OBVIOUS
<1>3. CASE ~\E w \in job[p].writes : w.key = k
  <2> DEFINE Hit == {x \in job[p].writes : x.key = k}
             U == {(rows[k] \ Closes(w, all)) \cup {[value |-> w.value, from |-> job[p].at]} : w \in Hit}
  <2>1. rows'[k] = (UNION U) \cup rows[k]
    BY <1>1, <1>3, Zenon
  <2>2. Hit = {}
    BY <1>3
  <2>3. U = {}
    <3> HIDE DEF Hit
    <3> QED  BY <2>2
  <2> HIDE DEF U
  <2>4. UNION U = {}
    BY <2>3
  <2> QED  BY <2>1, <2>4
<1>4. CASE \E w \in job[p].writes : w.key = k
  <2>1. PICK w \in job[p].writes : w.key = k
    BY <1>4
  <2>2. {x \in job[p].writes : x.key = k} = {w}
    BY <2>1 DEF JobsInv, JobOK
  <2>3. rows'[k] = (rows[k] \ Closes(w, all)) \cup {[value |-> w.value, from |-> job[p].at]}
    BY <1>1, <1>4, <2>2
  <2> QED  BY <1>1, <2>1, <2>3 DEF Refreshed
<1> QED  BY <1>3, <1>4

\* What is newest of a key only moves to the refresh's own start, forward.
LEMMA RefreshForward ==
    ASSUME WorldInv, RowsInv, RowsInv', WorldInv', JobsInv, NEW p \in Proc, Refresh(p),
           NEW k \in Key
    PROVE  /\ NewestFrom(k)' >= NewestFrom(k)
           /\ NewestFrom(k)' \in {NewestFrom(k), job[p].at}
<1>1. PICK all \in BOOLEAN : rows'[k] = rows[k] \/ Refreshed(p, all, k)
  BY RefreshRows
<1>2. /\ NewestFrom(k) \in 0..clock
      /\ \A r \in rows[k] : r.from <= NewestFrom(k)
      /\ NewestFrom(k) = 0 \/ \E r \in rows[k] : r.from = NewestFrom(k)
  BY NewestFacts
<1>3. /\ NewestFrom(k)' \in 0..clock'
      /\ \A r \in rows[k]' : r.from <= NewestFrom(k)'
      /\ NewestFrom(k)' = 0 \/ \E r \in rows[k]' : r.from = NewestFrom(k)'
  <2>1. clock' \in Nat
    BY BoardAssumption DEF WorldInv
  <2>2. \A r \in rows'[k] : r.from \in 1..clock'
    BY <2>1, BoardAssumption DEF RowsInv, RowOf
  <2>3. NewestFrom(k)' = Latest(rows'[k])
    BY DEF NewestFrom, Latest
  <2> QED  BY <2>1, <2>2, <2>3, LatestOfRows
<1>4. clock \in Nat /\ clock' \in Nat
  BY BoardAssumption DEF WorldInv
<1>5. CASE rows'[k] = rows[k]
  <2>1. NewestFrom(k)' = NewestFrom(k)
    BY <1>5 DEF NewestFrom
  <2> QED  BY <1>2, <1>4, <2>1
<1>6. CASE Refreshed(p, all, k)
  <2>1. PICK w \in job[p].writes :
          /\ w.key = k /\ MayWrite(job[p].at, w, all)
          /\ rows'[k] = (rows[k] \ Closes(w, all)) \cup {[value |-> w.value, from |-> job[p].at]}
    BY <1>6 DEF Refreshed
  <2>2. \A r \in Closes(w, all) : r.from < job[p].at
    BY <2>1 DEF MayWrite
  <2>3. job[p].at <= NewestFrom(k)' /\ job[p].at \in Nat
    <3>1. [value |-> w.value, from |-> job[p].at] \in rows'[k]
      BY <2>1
    <3> QED  BY <1>3, <3>1 DEF JobsInv, JobShape
  <2>4. \A r \in rows[k] : r.from <= NewestFrom(k)'
    <3> TAKE r \in rows[k]
    <3>1. CASE r \in Closes(w, all)
      <4>1. r.from \in Nat
        BY <1>4 DEF RowsInv, RowOf
      <4> QED  BY <1>3, <1>4, <2>2, <2>3, <3>1, <4>1
    <3>2. CASE r \notin Closes(w, all)
      BY <1>3, <2>1, <3>2
    <3> QED  BY <3>1, <3>2
  <2>5. NewestFrom(k)' >= NewestFrom(k)
    BY <1>2, <1>3, <1>4, <2>4
  <2>6. NewestFrom(k)' \in {NewestFrom(k), job[p].at}
    <3>1. CASE NewestFrom(k)' = 0
      BY <1>2, <1>4, <2>5, <3>1
    <3>2. CASE \E s \in rows'[k] : s.from = NewestFrom(k)'
      <4>1. PICK s \in rows'[k] : s.from = NewestFrom(k)'
        BY <3>2
      <4>2. CASE s \in rows[k]
        BY <1>2, <1>3, <1>4, <2>5, <4>1, <4>2
      <4>3. CASE s = [value |-> w.value, from |-> job[p].at]
        BY <4>1, <4>3
      <4> QED  BY <2>1, <4>1, <4>2, <4>3
    <3> QED  BY <1>3, <3>1, <3>2
  <2> QED  BY <2>5, <2>6
<1> QED  BY <1>1, <1>5, <1>6

-----------------------------------------------------------------------------
(* Types are kept.                                                         *)

\* Timestamps only move forward and archived snapshots stay as they are.
Grows ==
    /\ clock' \in 0..MaxClock /\ clock' >= clock
    /\ \A m \in Market : \A i \in DOMAIN quotes[m] :
          i \in DOMAIN quotes'[m] /\ quotes'[m][i] = quotes[m][i]

LEMMA PollAppends ==
    ASSUME WorldInv, NEW m \in Market, NEW l \in Line, NEW a \in BOOLEAN, Poll(m, l, a)
    PROVE  WorldInv' /\ Grows
<1>1. clock \in Nat /\ clock' = clock + 1 /\ clock' \in 0..MaxClock
  BY BoardAssumption DEF WorldInv, Poll
<1> DEFINE row == [line |-> l, available |-> a, seen |-> clock']
<1>2. row \in QuoteRow
  BY <1>1 DEF QuoteRow
<1>3. quotes' = [quotes EXCEPT ![m] = Append(quotes[m], row)]
  BY DEF Poll
<1>4. quotes \in [Market -> Seq(QuoteRow)]
  BY DEF WorldInv
<1> HIDE DEF row
<1>5. /\ Append(quotes[m], row) \in Seq(QuoteRow)
      /\ Len(Append(quotes[m], row)) = Len(quotes[m]) + 1
      /\ \A i \in DOMAIN quotes[m] : /\ i \in DOMAIN Append(quotes[m], row)
                                     /\ Append(quotes[m], row)[i] = quotes[m][i]
  BY <1>2, <1>4
<1>6. quotes' \in [Market -> Seq(QuoteRow)]
  BY <1>3, <1>4, <1>5
<1>7. \A n \in Market : \A i \in DOMAIN quotes[n] :
          i \in DOMAIN quotes'[n] /\ quotes'[n][i] = quotes[n][i]
  <2> TAKE n \in Market
  <2>1. CASE n = m
    BY <1>3, <1>4, <1>5, <2>1
  <2>2. CASE n # m
    BY <1>3, <1>4, <2>2
  <2> QED  BY <2>1, <2>2
<1>8. WorldInv'
  BY <1>1, <1>6 DEF WorldInv, Poll
<1> QED  BY <1>1, <1>7, <1>8 DEF Grows

LEMMA WorldStep == ASSUME WorldInv, [Next]_vars PROVE WorldInv' /\ Grows
<1>1. clock \in Nat
  BY BoardAssumption DEF WorldInv
<1>2. ASSUME clock' \in {clock, clock + 1}, clock' <= MaxClock,
             UNCHANGED <<report, reports, stats, quotes>>
      PROVE  WorldInv' /\ Grows
  BY <1>1, <1>2, BoardAssumption DEF WorldInv, Grows
<1>3. ASSUME NEW p \in Player, NEW d \in Designation \cup {None}, ReportChanges(p, d)
      PROVE  WorldInv' /\ Grows
  BY <1>1, <1>3, BoardAssumption DEF ReportChanges, WorldInv, Grows
<1>4. ASSUME StatsArrive PROVE WorldInv' /\ Grows
  BY <1>1, <1>4, BoardAssumption DEF StatsArrive, WorldInv, Grows
<1>5. ASSUME NEW p \in Proc, NEW kind \in Context \cup {"forecast"}, Begin(p, kind)
      PROVE  WorldInv' /\ Grows
  BY <1>1, <1>2, <1>5, BoardAssumption DEF Begin
<1>6. clock <= MaxClock
  BY DEF WorldInv
<1>7. ASSUME NEW p \in Proc, Compute(p) \/ Refresh(p) \/ FetchBoard(p) \/ CommitRun(p) \/ Die(p)
      PROVE  WorldInv' /\ Grows
  BY <1>2, <1>6, <1>7 DEF Compute, Refresh, FetchBoard, CommitRun, Die
<1>8. ASSUME NEW p \in Proc, NEW m \in Market, NEW i \in 1..MaxQuotes, ScoreQuote(p, m, i)
      PROVE  WorldInv' /\ Grows
  BY <1>2, <1>6, <1>8 DEF ScoreQuote
<1>9. CASE UNCHANGED vars
  BY <1>2, <1>6, <1>9 DEF vars
<1> QED  BY <1>3, <1>4, <1>5, <1>7, <1>8, <1>9, PollAppends DEF Next

\* What was a forecast stays one, and what was a sound job stays one.
LEMMA ForecastKept ==
    ASSUME WorldInv, Grows, NEW f, IsForecast(f)
    PROVE  IsForecast(f)'
<1>1. clock \in Nat /\ clock' \in Nat /\ clock' >= clock
  BY BoardAssumption DEF WorldInv, Grows
<1>2. f.market \in Market
  BY BoardAssumption DEF IsForecast
<1>3. f.at \in 1..clock'
  BY <1>1 DEF IsForecast
<1>4. f.used \in [KeysOf(f.market) -> 0..clock']
  BY <1>1 DEF IsForecast
<1> QED  BY <1>2, <1>3, <1>4 DEF IsForecast, Grows

LEMMA JobKept ==
    ASSUME WorldInv, Grows, NEW j \in JobShape, JobOK(j)
    PROVE  JobOK(j)'
<1>1. clock \in Nat /\ clock' \in Nat /\ clock' >= clock
  BY BoardAssumption DEF WorldInv, Grows
<1>2. j.at <= clock'
  BY <1>1, BoardAssumption DEF JobOK, JobShape
<1>3. \A b \in j.todo : b[2] \in DOMAIN quotes'[b[1]]
  BY DEF JobOK, JobShape, Grows
<1>4. \A f \in j.made : IsForecast(f)'
  BY ForecastKept DEF JobOK
<1> QED  BY <1>2, <1>3, <1>4 DEF JobOK, Value

LEMMA IdleIsSound == Idle \in JobShape /\ (clock \in Nat => JobOK(Idle))
  BY BoardAssumption DEF Idle, NoReport, JobShape, JobOK

\* One process takes a new state.
LEMMA JobReplaced ==
    ASSUME WorldInv, JobsInv, Grows, NEW p \in Proc, NEW j \in JobShape, JobOK(j)',
           job' = [job EXCEPT ![p] = j]
    PROVE  JobsInv'
<1>1. job' \in [Proc -> JobShape]
  BY DEF JobsInv
<1>2. \A q \in Proc : JobOK(job[q])'
  <2> TAKE q \in Proc
  <2>1. CASE q = p
    <3>1. job'[q] = j
      BY <2>1 DEF JobsInv
    <3> QED  BY <3>1 DEF JobOK
  <2>2. CASE q # p
    <3>1. job'[q] = job[q]
      BY <2>2 DEF JobsInv
    <3>2. PICK i \in JobShape : i = job[q]
      BY DEF JobsInv
    <3>3. JobOK(i)
      BY <3>2 DEF JobsInv
    <3>4. JobOK(i)'
      BY <3>3, JobKept
    <3> QED  BY <3>1, <3>2, <3>4 DEF JobOK
  <2> QED  BY <2>1, <2>2
<1> QED  BY <1>1, <1>2 DEF JobsInv

-----------------------------------------------------------------------------
(* Every action keeps the types.                                           *)

LEMMA RowsKept == ASSUME WorldInv, RowsInv, Grows, UNCHANGED rows PROVE RowsInv'
<1>1. clock \in Nat /\ clock' \in Nat /\ clock' >= clock
  BY BoardAssumption DEF WorldInv, Grows
<1>2. \A k \in Key : \A r \in rows[k] : r.from \in Nat
  BY DEF RowsInv, RowOf
<1> QED  BY <1>1, <1>2 DEF RowsInv, RowOf, Value

LEMMA ForecastsKept == ASSUME WorldInv, ForecastsInv, Grows, UNCHANGED forecasts PROVE ForecastsInv'
  BY ForecastKept DEF ForecastsInv, AnyForecast, KeysOf

LEMMA JobsKept == ASSUME WorldInv, JobsInv, Grows, UNCHANGED job PROVE JobsInv'
<1>1. SUFFICES ASSUME NEW q \in Proc PROVE JobOK(job[q])'
  BY DEF JobsInv
<1>2. PICK i \in JobShape : i = job[q]
  BY DEF JobsInv
<1>3. JobOK(i)'
  BY <1>2, JobKept DEF JobsInv
<1> QED  BY <1>2, <1>3 DEF JobOK

LEMMA BeginTyped ==
    ASSUME TypeInv, NEW p \in Proc, NEW kind \in Context \cup {"forecast"}, Begin(p, kind), Grows
    PROVE  JobsInv'
<1>1. clock \in Nat /\ clock' = clock + 1 /\ clock' \in 0..MaxClock
  BY BoardAssumption DEF TypeInv, WorldInv, Begin, Grows
<1> DEFINE busy == \E o \in Proc : job[o].kind \in Context
           got  == IF kind = "injuries" THEN report ELSE Idle.heard
           j == [Idle EXCEPT !.kind = kind, !.at = clock', !.heard = got, !.crowded = busy]
<1>2. busy \in BOOLEAN
  OBVIOUS
<1>3. job' = [job EXCEPT ![p] = j]
  BY DEF Begin
<1>4. PICK o \in JobShape : o = Idle
  BY IdleIsSound
<1>11. got \in [Player -> Designation \cup {None}]
  BY <1>4 DEF TypeInv, WorldInv, JobShape
<1> HIDE DEF busy, got
<1>5. j = [o EXCEPT !.kind = kind, !.at = clock', !.heard = got, !.crowded = busy]
  BY <1>4
<1>6. j \in JobShape
  BY <1>1, <1>2, <1>5, <1>11 DEF JobShape
<1>7. j.kind = kind /\ j.at = clock' /\ j.writes = o.writes /\ j.todo = o.todo /\ j.made = o.made
  BY <1>5 DEF JobShape
<1>8. o.writes = {} /\ o.todo = {} /\ o.made = {}
  BY <1>4 DEF Idle
<1> HIDE DEF j
<1>9. PICK i \in JobShape : i = j
  BY <1>6
<1>10. JobOK(i)'
  BY <1>1, <1>7, <1>8, <1>9 DEF JobOK
<1> QED  BY <1>3, <1>9, <1>10, JobReplaced DEF TypeInv

LEMMA ComputeTyped ==
    ASSUME TypeInv, NEW p \in Proc, Compute(p), Grows
    PROVE  JobsInv'
<1>1. PICK i \in JobShape : i = job[p] /\ JobOK(i)
  BY DEF TypeInv, JobsInv
<1>2. PICK W : W = Writes(i.kind, i.at, i.heard)
  OBVIOUS
<1>3. /\ W \in SUBSET WriteRow
      /\ \A w \in W : w.value \in Value(w.key)
      /\ \A v, w \in W : v.key = w.key => v = w
  <2>1. i.kind \in Context /\ i.heard \in [Player -> Designation \cup {None}]
    BY <1>1 DEF Compute, JobShape
  <2> QED  BY <1>2, <2>1, WritesTyped DEF TypeInv
<1> DEFINE j == [i EXCEPT !.ready = TRUE, !.heard = NoReport, !.writes = W]
<1>4. j \in JobShape
  BY <1>3, BoardAssumption DEF JobShape, NoReport
<1>5. job' = [job EXCEPT ![p] = j]
  BY <1>1, <1>2 DEF Compute
<1>6. /\ j.kind = i.kind /\ j.at = i.at /\ j.crowded = i.crowded
      /\ j.todo = i.todo /\ j.made = i.made /\ j.writes = W
  BY DEF JobShape
<1> HIDE DEF j
<1>7. JobOK(j)
  BY <1>1, <1>3, <1>6 DEF JobOK
<1>8. PICK c \in JobShape : c = j
  BY <1>4
<1>9. JobOK(c)'
  BY <1>7, <1>8, JobKept DEF TypeInv
<1> QED  BY <1>5, <1>8, <1>9, JobReplaced DEF TypeInv

LEMMA FetchTyped ==
    ASSUME TypeInv, NEW p \in Proc, FetchBoard(p), Grows
    PROVE  JobsInv'
<1>1. PICK i \in JobShape : i = job[p] /\ JobOK(i)
  BY DEF TypeInv, JobsInv
<1>2. PICK B : B = Board(i.at)
  OBVIOUS
<1>3. B \in SUBSET (Market \X (1..MaxQuotes)) /\ \A b \in B : b[2] \in DOMAIN quotes[b[1]]
  BY <1>2 DEF Board
<1> DEFINE j == [i EXCEPT !.ready = TRUE, !.todo = B]
<1>4. j \in JobShape
  BY <1>3 DEF JobShape
<1>5. job' = [job EXCEPT ![p] = j]
  BY <1>1, <1>2 DEF FetchBoard
<1>6. /\ j.kind = i.kind /\ j.at = i.at /\ j.crowded = i.crowded
      /\ j.todo = B /\ j.made = i.made /\ j.writes = i.writes
  BY DEF JobShape
<1> HIDE DEF j
<1>7. JobOK(j)
  BY <1>1, <1>3, <1>6 DEF JobOK, FetchBoard
<1>8. PICK c \in JobShape : c = j
  BY <1>4
<1>9. JobOK(c)'
  BY <1>7, <1>8, JobKept DEF TypeInv
<1> QED  BY <1>5, <1>8, <1>9, JobReplaced DEF TypeInv

\* A forecast as it is made: of an archived snapshot, resting on what is newest.
LEMMA ForecastMade ==
    ASSUME TypeInv, NEW p \in Proc, NEW m \in Market, NEW i \in 1..MaxQuotes,
           <<m, i>> \in job[p].todo, ~Skipped(m)
    PROVE  LET f == ForecastRow(job[p], m, i)
           IN  /\ f \in AnyForecast /\ IsForecast(f)
               /\ f.at = job[p].at /\ f.crowded = job[p].crowded /\ Heeded(f)
<1> DEFINE f == ForecastRow(job[p], m, i)
<1>1. /\ f.market = m /\ f.quote = i /\ f.line = quotes[m][i].line /\ f.at = job[p].at
      /\ f.used = Used(m) /\ f.crowded = job[p].crowded
      /\ f = [market |-> m, quote |-> i, line |-> quotes[m][i].line, at |-> job[p].at,
              used |-> Used(m), crowded |-> job[p].crowded]
  BY DEF ForecastRow
<1>2. /\ job[p] \in JobShape /\ job[p].at <= clock /\ job[p].at >= 1 /\ i \in DOMAIN quotes[m]
  BY DEF TypeInv, JobsInv, JobOK
<1>3. clock \in 0..MaxClock /\ MaxClock \in Nat
  BY BoardAssumption DEF TypeInv, WorldInv
<1>4. job[p].at \in 1..clock /\ job[p].at \in 0..MaxClock /\ job[p].crowded \in BOOLEAN
  BY <1>2, <1>3 DEF JobShape
<1>5. Used(m) \in [KeysOf(m) -> 0..clock]
  BY KeysAreKeys, NewestFacts DEF Used, TypeInv
<1>6. Used(m) \in [KeysOf(m) -> 0..MaxClock]
  BY <1>3, <1>5
<1>7. quotes[m][i].line \in Line
  <2>1. quotes[m] \in Seq(QuoteRow)
    BY DEF TypeInv, WorldInv
  <2>2. quotes[m][i] \in QuoteRow
    BY <1>2, <2>1
  <2> QED  BY <2>2 DEF QuoteRow
<1>8. m \in Scoreable
  BY DEF Skipped
<1>9. Heeded(f)
  BY <1>1 DEF Heeded, Used
<1> HIDE DEF f
<1>10. IsForecast(f)
  BY <1>1, <1>2, <1>4, <1>5, <1>8 DEF IsForecast
<1>11. f \in AnyForecast
  BY <1>1, <1>4, <1>6, <1>7 DEF AnyForecast
<1>12. /\ f \in AnyForecast /\ IsForecast(f)
       /\ f.at = job[p].at /\ f.crowded = job[p].crowded /\ Heeded(f)
  BY <1>1, <1>9, <1>10, <1>11
<1> QED  BY <1>12 DEF f

\* What a turn of the loop makes of the process: it keeps its start, and gains
\* at most the forecast of the quote.
LEMMA ScoreShape ==
    ASSUME TypeInv, NEW p \in Proc, NEW m \in Market, NEW i \in 1..MaxQuotes, ScoreQuote(p, m, i)
    PROVE  \E j \in JobShape :
             /\ job' = [job EXCEPT ![p] = j] /\ JobOK(j)
             /\ j.kind = job[p].kind /\ j.at = job[p].at /\ j.crowded = job[p].crowded
             /\ \A f \in j.made : f \in job[p].made \/ Heeded(f)
<1>1. PICK o \in JobShape : o = job[p] /\ JobOK(o)
  BY DEF TypeInv, JobsInv
<1>2. PICK T : T = o.todo \ {<<m, i>>}
  OBVIOUS
<1>3. T \in SUBSET (Market \X (1..MaxQuotes))
  BY <1>2 DEF JobShape
<1>4. o.kind = "forecast" /\ \A b \in T : b \in o.todo
  BY <1>1, <1>2 DEF JobOK, ScoreQuote
<1>5. CASE Skipped(m)
  <2> DEFINE j == [o EXCEPT !.todo = T]
  <2>1. j \in JobShape
    BY <1>3 DEF JobShape
  <2>2. job' = [job EXCEPT ![p] = j]
    BY <1>1, <1>2, <1>5 DEF ScoreQuote
  <2>3. /\ j.kind = o.kind /\ j.at = o.at /\ j.crowded = o.crowded
        /\ j.todo = T /\ j.made = o.made /\ j.writes = o.writes
    BY DEF JobShape
  <2> HIDE DEF j
  <2>4. JobOK(j)
    BY <1>1, <1>4, <2>3 DEF JobOK
  <2> QED  BY <1>1, <2>1, <2>2, <2>3, <2>4
<1>6. CASE ~Skipped(m)
  <2>1. PICK f : f = ForecastRow(job[p], m, i)
    OBVIOUS
  <2>2. /\ f \in AnyForecast /\ IsForecast(f)
        /\ f.at = o.at /\ f.crowded = o.crowded /\ Heeded(f)
    BY <1>1, <1>6, <2>1, ForecastMade DEF ScoreQuote
  <2>3. PICK M : M = o.made \cup {f}
    OBVIOUS
  <2>4. M \in SUBSET AnyForecast
    BY <2>2, <2>3 DEF JobShape
  <2> DEFINE j == [o EXCEPT !.todo = T, !.made = M]
  <2>5. j \in JobShape
    BY <1>3, <2>4 DEF JobShape
  <2>6. job' = [job EXCEPT ![p] = j]
    BY <1>1, <1>2, <1>6, <2>1, <2>3 DEF ScoreQuote
  <2>7. /\ j.kind = o.kind /\ j.at = o.at /\ j.crowded = o.crowded
        /\ j.todo = T /\ j.made = M /\ j.writes = o.writes
    BY DEF JobShape
  <2> HIDE DEF j
  <2>8. JobOK(j)
    BY <1>1, <1>4, <2>2, <2>3, <2>7 DEF JobOK
  <2>9. \A g \in j.made : g \in job[p].made \/ Heeded(g)
    BY <1>1, <2>2, <2>3, <2>7
  <2> QED  BY <1>1, <2>5, <2>6, <2>7, <2>8, <2>9
<1> QED  BY <1>5, <1>6

\* A process that ends leaves nothing.
LEMMA EndTyped ==
    ASSUME TypeInv, Grows, NEW p \in Proc, job' = [job EXCEPT ![p] = Idle]
    PROVE  JobsInv'
<1>1. PICK i \in JobShape : i = Idle
  BY IdleIsSound
<1>2. JobOK(i)
  BY <1>1, IdleIsSound, BoardAssumption DEF TypeInv, WorldInv
<1>3. JobOK(i)'
  BY <1>2, JobKept DEF TypeInv
<1> QED  BY <1>1, <1>3, JobReplaced DEF TypeInv

LEMMA RefreshTyped ==
    ASSUME TypeInv, NEW p \in Proc, Refresh(p), Grows
    PROVE  RowsInv'
<1>1. PICK all \in BOOLEAN : \A k \in Key : rows'[k] = rows[k] \/ Refreshed(p, all, k)
  BY RefreshRows DEF TypeInv
<1>2. clock \in Nat /\ clock' = clock
  BY BoardAssumption DEF TypeInv, WorldInv, Refresh
<1>3. /\ job[p] \in JobShape /\ JobOK(job[p]) /\ job[p].at \in 1..clock /\ clock <= MaxClock
  <2>1. job[p] \in JobShape /\ JobOK(job[p]) /\ job[p].kind # "idle"
    BY DEF TypeInv, JobsInv, Refresh, Context
  <2> QED  BY <1>2, <2>1 DEF JobShape, JobOK, TypeInv, WorldInv
<1>4. ASSUME NEW k \in Key
      PROVE  /\ rows'[k] \in SUBSET AnyRow
             /\ \A r \in rows'[k] : r \in RowOf(k) /\ r.from <= clock
             /\ k \in SingleKey => \A r, s \in rows'[k] : r = s
  <2>1. CASE rows'[k] = rows[k]
    BY <2>1 DEF TypeInv, RowsInv
  <2>2. CASE Refreshed(p, all, k)
    <3>1. PICK w \in job[p].writes :
            /\ w.key = k /\ MayWrite(job[p].at, w, all)
            /\ rows'[k] = (rows[k] \ Closes(w, all)) \cup {[value |-> w.value, from |-> job[p].at]}
      BY <2>2 DEF Refreshed
    <3>2. w.value \in Value(k)
      BY <1>3, <3>1 DEF JobOK
    <3>3. PICK new : new = [value |-> w.value, from |-> job[p].at]
      OBVIOUS
    <3>4. new \in RowOf(k) /\ new.from <= clock
      BY <1>2, <1>3, <3>2, <3>3, BoardAssumption DEF RowOf
    <3>5. \A r \in rows'[k] : r \in RowOf(k) /\ r.from <= clock
      BY <3>1, <3>3, <3>4 DEF TypeInv, RowsInv
    <3>6. rows'[k] \in SUBSET AnyRow
      BY <3>5 DEF AnyRow
    <3>7. ASSUME k \in SingleKey PROVE \A r, s \in rows'[k] : r = s
      <4>1. rows[k] \ Closes(w, all) = {}
        BY <3>1, <3>7 DEF MayWrite
      <4> QED  BY <3>1, <4>1
    <3> QED  BY <3>5, <3>6, <3>7
  <2> QED  BY <1>1, <2>1, <2>2
<1>5. rows' = [k \in Key |-> rows'[k]]
  BY DEF Refresh
<1>6. rows' \in [Key -> SUBSET AnyRow]
  BY <1>4, <1>5
<1>7. \A k \in SingleKey : k \in Key
  BY DEF SingleKey
<1> QED  BY <1>2, <1>4, <1>6, <1>7 DEF RowsInv, RowOf, Value

LEMMA CommitTyped ==
    ASSUME TypeInv, NEW p \in Proc, CommitRun(p), Grows
    PROVE  ForecastsInv'
<1>1. job[p] \in JobShape /\ JobOK(job[p])
  BY DEF TypeInv, JobsInv
<1>2. \A f \in forecasts' : f \in AnyForecast /\ IsForecast(f)
  BY <1>1 DEF CommitRun, JobShape, JobOK, TypeInv, ForecastsInv
<1>3. \A f \in forecasts' : IsForecast(f)'
  BY <1>2, ForecastKept DEF TypeInv
<1> QED  BY <1>2, <1>3 DEF ForecastsInv, AnyForecast, KeysOf

LEMMA TypeStep == ASSUME TypeInv, [Next]_vars PROVE TypeInv'
<1>1. WorldInv' /\ Grows
  BY WorldStep DEF TypeInv
<1>2. ASSUME UNCHANGED <<rows, forecasts, job>> PROVE TypeInv'
  BY <1>1, <1>2, RowsKept, ForecastsKept, JobsKept DEF TypeInv
<1>3. ASSUME UNCHANGED <<rows, forecasts>>, JobsInv' PROVE TypeInv'
  BY <1>1, <1>3, RowsKept, ForecastsKept DEF TypeInv
<1>4. ASSUME NEW p \in Proc, NEW kind \in Context \cup {"forecast"}, Begin(p, kind) PROVE TypeInv'
  <2>1. JobsInv'
    BY <1>1, <1>4, BeginTyped
  <2> QED  BY <1>3, <1>4, <2>1 DEF Begin
<1>5. ASSUME NEW p \in Proc, Compute(p) PROVE TypeInv'
  <2>1. JobsInv'
    BY <1>1, <1>5, ComputeTyped
  <2> QED  BY <1>3, <1>5, <2>1 DEF Compute
<1>6. ASSUME NEW p \in Proc, Refresh(p) PROVE TypeInv'
  <2>1. RowsInv'
    BY <1>1, <1>6, RefreshTyped
  <2>2. JobsInv'
    BY <1>1, <1>6, EndTyped DEF Refresh
  <2>3. ForecastsInv'
    BY <1>1, <1>6, ForecastsKept DEF Refresh, TypeInv
  <2> QED  BY <1>1, <2>1, <2>2, <2>3 DEF TypeInv
<1>7. ASSUME NEW p \in Proc, FetchBoard(p) PROVE TypeInv'
  <2>1. JobsInv'
    BY <1>1, <1>7, FetchTyped
  <2> QED  BY <1>3, <1>7, <2>1 DEF FetchBoard
<1>8. ASSUME NEW p \in Proc, CommitRun(p) PROVE TypeInv'
  <2>1. ForecastsInv'
    BY <1>1, <1>8, CommitTyped
  <2>2. JobsInv'
    BY <1>1, <1>8, EndTyped DEF CommitRun
  <2>3. RowsInv'
    BY <1>1, <1>8, RowsKept DEF CommitRun, TypeInv
  <2> QED  BY <1>1, <2>1, <2>2, <2>3 DEF TypeInv
<1>9. ASSUME NEW p \in Proc, Die(p) PROVE TypeInv'
  <2>1. JobsInv'
    BY <1>1, <1>9, EndTyped DEF Die
  <2> QED  BY <1>3, <1>9, <2>1 DEF Die
<1>10. ASSUME NEW p \in Proc, NEW m \in Market, NEW i \in 1..MaxQuotes, ScoreQuote(p, m, i)
       PROVE  TypeInv'
  <2>1. PICK j \in JobShape : job' = [job EXCEPT ![p] = j] /\ JobOK(j)
    BY <1>10, ScoreShape
  <2>2. JobOK(j)'
    BY <1>1, <2>1, JobKept DEF TypeInv
  <2>3. JobsInv'
    BY <1>1, <2>1, <2>2, JobReplaced DEF TypeInv
  <2> QED  BY <1>3, <1>10, <2>3 DEF ScoreQuote
<1>11. ASSUME NEW p \in Player, NEW d \in Designation \cup {None}, ReportChanges(p, d)
       PROVE  TypeInv'
  BY <1>2, <1>11 DEF ReportChanges
<1>12. ASSUME StatsArrive PROVE TypeInv'
  BY <1>2, <1>12 DEF StatsArrive
<1>13. ASSUME NEW m \in Market, NEW l \in Line, NEW a \in BOOLEAN, Poll(m, l, a) PROVE TypeInv'
  BY <1>2, <1>13 DEF Poll
<1>14. CASE UNCHANGED vars
  BY <1>2, <1>14 DEF vars
<1> QED  BY <1>4, <1>5, <1>6, <1>7, <1>8, <1>9, <1>10, <1>11, <1>12, <1>13, <1>14 DEF Next

LEMMA TypeInit == Init => TypeInv
<1> SUFFICES ASSUME Init PROVE TypeInv
  OBVIOUS
<1>1. WorldInv
  <2> DEFINE q == [line |-> 1, available |-> TRUE, seen |-> 0]
  <2>1. q \in QuoteRow
    BY BoardAssumption DEF QuoteRow, Line
  <2>2. quotes = [m \in Market |-> <<q>>]
    BY DEF Init
  <2> HIDE DEF q
  <2>3. quotes \in [Market -> Seq(QuoteRow)]
    BY <2>1, <2>2
  <2> QED  BY <2>3, BoardAssumption DEF Init, WorldInv
<1>2. RowsInv
  BY DEF Init, RowsInv, SingleKey
<1>3. JobsInv
  <2>1. \A p \in Proc : job[p] = Idle
    BY DEF Init
  <2>2. clock \in Nat
    BY DEF Init
  <2>3. JobOK(Idle) /\ Idle \in JobShape
    BY <2>2, IdleIsSound
  <2>4. job \in [Proc -> JobShape]
    BY <2>3 DEF Init
  <2> QED  BY <2>1, <2>3, <2>4 DEF JobsInv
<1>4. ForecastsInv
  BY DEF Init, ForecastsInv
<1> QED  BY <1>1, <1>2, <1>3, <1>4 DEF TypeInv

-----------------------------------------------------------------------------
(* The order of starts is kept.                                            *)

\* No process becomes a context job that was not one, and none changes its start.
NoNewContext ==
    \A q \in Proc : job'[q].kind \in Context => job'[q].kind = job[q].kind /\ job'[q].at = job[q].at

LEMMA GuardKept ==
    ASSUME NoNewContext, NEW at, NEW crowded, Fenced(at, crowded)
    PROVE  Fenced(at, crowded)'
  BY DEF Fenced, NoNewContext

LEMMA HeedKept == ASSUME UNCHANGED rows, NEW f, Heeded(f) PROVE Heeded(f)'
  BY DEF Heeded, NewestFrom

\* A step of one process that is no refresh: its forecasts are heeded and its
\* start is not moved.
LEMMA OrderOfJob ==
    ASSUME TypeInv, OrderInv, UNCHANGED <<rows, forecasts>>, NEW p \in Proc, NEW j,
           job' = [job EXCEPT ![p] = j],
           j.kind = job[p].kind, j.at = job[p].at, j.crowded = job[p].crowded,
           \A f \in j.made : f \in job[p].made \/ Heeded(f)
    PROVE  OrderInv'
<1>1. \A q \in Proc : /\ job'[q].kind = job[q].kind /\ job'[q].at = job[q].at
                      /\ job'[q].crowded = job[q].crowded
                      /\ \A f \in job'[q].made : f \in job[q].made \/ Heeded(f)
  BY DEF TypeInv, JobsInv
<1>2. NoNewContext
  BY <1>1 DEF NoNewContext
<1>3. \A f \in forecasts' : Heeded(f)' /\ Fenced(f.at, f.crowded)'
  BY <1>2, GuardKept, HeedKept DEF OrderInv
<1>4. ASSUME NEW q \in Proc, job'[q].kind = "forecast"
      PROVE  Fenced(job[q].at, job[q].crowded)'
  <2>1. PICK a, c : a = job[q].at /\ c = job[q].crowded
    OBVIOUS
  <2>2. Fenced(a, c)'
    BY <1>1, <1>2, <1>4, <2>1, GuardKept DEF OrderInv
  <2> QED  BY <1>1, <2>1, <2>2 DEF Fenced
<1>5. \A q \in Proc : \A f \in job'[q].made : Heeded(f)'
  BY <1>1, HeedKept DEF OrderInv
<1> QED  BY <1>3, <1>4, <1>5 DEF OrderInv

LEMMA EndOrdered ==
    ASSUME TypeInv, OrderInv, UNCHANGED rows, NEW p \in Proc, job' = [job EXCEPT ![p] = Idle],
           \A f \in forecasts' : Heeded(f) /\ Fenced(f.at, f.crowded)
    PROVE  OrderInv'
<1>1. \A q \in Proc : job'[q] = Idle \/ job'[q] = job[q]
  BY DEF TypeInv, JobsInv
<1>2. Idle.kind = "idle" /\ Idle.made = {}
  BY DEF Idle
<1>3. NoNewContext
  BY <1>1, <1>2 DEF NoNewContext, Context
<1>4. \A f \in forecasts' : Heeded(f)' /\ Fenced(f.at, f.crowded)'
  BY <1>3, GuardKept, HeedKept
<1>5. ASSUME NEW q \in Proc, job'[q].kind = "forecast"
      PROVE  Fenced(job[q].at, job[q].crowded)'
  <2>1. job'[q] = job[q]
    BY <1>1, <1>2, <1>5
  <2>2. PICK a, c : a = job[q].at /\ c = job[q].crowded
    OBVIOUS
  <2>3. Fenced(a, c)'
    BY <1>3, <1>5, <2>1, <2>2, GuardKept DEF OrderInv
  <2> QED  BY <2>1, <2>2, <2>3 DEF Fenced
<1>6. \A q \in Proc : \A f \in job'[q].made : Heeded(f)'
  BY <1>1, <1>2, HeedKept DEF OrderInv
<1> QED  BY <1>4, <1>5, <1>6 DEF OrderInv

\* A job that begins is younger than every forecast and run there is; a run
\* that begins is crowded if a context job is at work.
LEMMA BeginOrdered ==
    ASSUME TypeInv, OrderInv, NEW p \in Proc, NEW kind \in Context \cup {"forecast"},
           Begin(p, kind)
    PROVE  OrderInv'
<1> DEFINE busy == \E o \in Proc : job[o].kind \in Context
           got  == IF kind = "injuries" THEN report ELSE Idle.heard
           j == [Idle EXCEPT !.kind = kind, !.at = clock', !.heard = got, !.crowded = busy]
<1>1. /\ job' = [job EXCEPT ![p] = j] /\ job[p] = Idle
      /\ rows' = rows /\ forecasts' = forecasts /\ clock' = clock + 1
  BY Zenon DEF Begin
<1>2. (\E o \in Proc : job[o].kind \in Context) => busy
  OBVIOUS
<1> HIDE DEF busy, got
<1>3. j.kind = kind /\ j.at = clock' /\ j.crowded = busy /\ j.made = Idle.made /\ Idle.made = {}
  BY DEF Idle
<1> HIDE DEF j
<1>4. job'[p] = j /\ \A q \in Proc : q # p => job'[q] = job[q]
  BY <1>1 DEF TypeInv, JobsInv
<1>5. clock \in Nat /\ \A q \in Proc : job[q].at \in Nat /\ job[q].at <= clock
  BY BoardAssumption DEF TypeInv, WorldInv, JobsInv, JobShape, JobOK
<1>6. ASSUME NEW a \in Nat, a <= clock, NEW c, Fenced(a, c)
      PROVE  Fenced(a, c)'
  <2>1. clock' > a
    BY <1>1, <1>5, <1>6
  <2> QED  BY <1>3, <1>4, <1>6, <2>1 DEF Fenced
<1>7. \A f \in forecasts' : Heeded(f)' /\ Fenced(f.at, f.crowded)'
  <2>1. \A f \in forecasts : f.at \in Nat /\ f.at <= clock
    BY <1>5 DEF TypeInv, ForecastsInv, IsForecast
  <2> QED  BY <1>1, <1>6, <2>1, HeedKept DEF OrderInv
<1>8. ASSUME NEW q \in Proc, job'[q].kind = "forecast"
      PROVE  Fenced(job[q].at, job[q].crowded)'
  <2>1. CASE q = p
    <3>1. ASSUME NEW o \in Proc, job'[o].kind \in Context PROVE job'[q].crowded
      <4>1. o # p
        BY <1>8, <2>1, <3>1 DEF Context
      <4>2. job[o].kind \in Context
        BY <1>4, <3>1, <4>1
      <4>3. busy
        BY <1>2, <4>2
      <4> QED  BY <1>3, <1>4, <2>1, <4>3
    <3> QED  BY <3>1 DEF Fenced
  <2>2. CASE q # p
    <3>1. PICK a, c : a = job[q].at /\ c = job[q].crowded
      OBVIOUS
    <3>2. Fenced(a, c)'
      BY <1>4, <1>5, <1>6, <1>8, <2>2, <3>1 DEF OrderInv
    <3> QED  BY <1>4, <2>2, <3>1, <3>2 DEF Fenced
  <2> QED  BY <2>1, <2>2
<1>9. \A q \in Proc : \A f \in job'[q].made : Heeded(f)'
  BY <1>1, <1>3, <1>4, HeedKept DEF OrderInv
<1> QED  BY <1>7, <1>8, <1>9 DEF OrderInv

\* What a refresh commits of a key is no newer than it, or newer than every
\* forecast that is not crowded.
LEMMA RefreshOrdered ==
    ASSUME TypeInv, TypeInv', OrderInv, NEW p \in Proc, Refresh(p)
    PROVE  OrderInv'
<1>1. \A k \in Key : NewestFrom(k)' \in {NewestFrom(k), job[p].at}
  BY RefreshForward DEF TypeInv
<1>2. job[p].kind \in Context
  BY DEF Refresh
<1>3. ASSUME NEW f, f.market \in Market, Heeded(f), Fenced(f.at, f.crowded)
      PROVE  Heeded(f)'
  <2>1. SUFFICES ASSUME NEW k \in KeysOf(f.market), NewestFrom(k)' # f.used[k]
                 PROVE  NewestFrom(k)' > f.at \/ f.crowded
    BY DEF Heeded, KeysOf
  <2>2. k \in Key
    BY <1>3, KeysAreKeys
  <2>3. CASE NewestFrom(k)' = NewestFrom(k)
    BY <1>3, <2>1, <2>3 DEF Heeded
  <2>4. CASE NewestFrom(k)' = job[p].at
    BY <1>2, <1>3, <2>4 DEF Fenced
  <2> QED  BY <1>1, <2>2, <2>3, <2>4
<1>4. \A q \in Proc : job'[q] = Idle \/ job'[q] = job[q]
  BY DEF TypeInv, JobsInv, Refresh
<1>5. Idle.kind = "idle" /\ Idle.made = {}
  BY DEF Idle
<1>6. NoNewContext
  BY <1>4, <1>5 DEF NoNewContext, Context
<1>7. \A f \in forecasts' : Heeded(f)' /\ Fenced(f.at, f.crowded)'
  <2>1. \A f \in forecasts : f.market \in Market
    BY DEF TypeInv, ForecastsInv, AnyForecast
  <2> QED  BY <1>3, <1>6, <2>1, GuardKept DEF OrderInv, Refresh
<1>8. ASSUME NEW q \in Proc, job'[q].kind = "forecast"
      PROVE  Fenced(job[q].at, job[q].crowded)'
  <2>1. job'[q] = job[q]
    BY <1>4, <1>5, <1>8
  <2>2. PICK a, c : a = job[q].at /\ c = job[q].crowded
    OBVIOUS
  <2>3. Fenced(a, c)'
    BY <1>6, <1>8, <2>1, <2>2, GuardKept DEF OrderInv
  <2> QED  BY <2>1, <2>2, <2>3 DEF Fenced
<1>9. ASSUME NEW q \in Proc, NEW f \in job'[q].made PROVE Heeded(f)'
  <2>1. job'[q] = job[q] /\ f \in job[q].made
    BY <1>4, <1>5, <1>9
  <2>2. /\ job[q].kind = "forecast" /\ f.at = job[q].at /\ f.crowded = job[q].crowded
        /\ f.market \in Market
    BY <2>1 DEF TypeInv, JobsInv, JobOK, JobShape, AnyForecast
  <2>3. Heeded(f) /\ Fenced(f.at, f.crowded)
    BY <2>1, <2>2 DEF OrderInv
  <2> QED  BY <1>3, <2>2, <2>3
<1> QED  BY <1>7, <1>8, <1>9 DEF OrderInv

LEMMA OrderStep == ASSUME IInv, [Next]_vars PROVE OrderInv'
<1>1. TypeInv /\ OrderInv /\ TypeInv'
  BY TypeStep DEF IInv
<1>2. ASSUME UNCHANGED <<rows, forecasts, job>> PROVE OrderInv'
  BY <1>1, <1>2 DEF OrderInv, Heeded, Fenced, NewestFrom
<1>3. ASSUME NEW p \in Proc, NEW kind \in Context \cup {"forecast"}, Begin(p, kind) PROVE OrderInv'
  BY <1>1, <1>3, BeginOrdered
<1>4. ASSUME NEW p \in Proc, Compute(p) PROVE OrderInv'
  <2> DEFINE j == [job[p] EXCEPT !.ready = TRUE, !.heard = NoReport,
                               !.writes = Writes(job[p].kind, job[p].at, job[p].heard)]
  <2>1. job' = [job EXCEPT ![p] = j] /\ UNCHANGED <<rows, forecasts>>
    BY <1>4 DEF Compute
  <2>2. /\ j.kind = job[p].kind /\ j.at = job[p].at /\ j.crowded = job[p].crowded
        /\ j.made = job[p].made
    BY <1>1 DEF TypeInv, JobsInv, JobShape
  <2> HIDE DEF j
  <2> QED  BY <1>1, <2>1, <2>2, OrderOfJob
<1>5. ASSUME NEW p \in Proc, Refresh(p) PROVE OrderInv'
  BY <1>1, <1>5, RefreshOrdered
<1>6. ASSUME NEW p \in Proc, FetchBoard(p) PROVE OrderInv'
  <2> DEFINE j == [job[p] EXCEPT !.ready = TRUE, !.todo = Board(job[p].at)]
  <2>1. job' = [job EXCEPT ![p] = j] /\ UNCHANGED <<rows, forecasts>>
    BY <1>6 DEF FetchBoard
  <2>2. /\ j.kind = job[p].kind /\ j.at = job[p].at /\ j.crowded = job[p].crowded
        /\ j.made = job[p].made
    BY <1>1 DEF TypeInv, JobsInv, JobShape
  <2> HIDE DEF j
  <2> QED  BY <1>1, <2>1, <2>2, OrderOfJob
<1>7. ASSUME NEW p \in Proc, CommitRun(p) PROVE OrderInv'
  <2>1. \A f \in job[p].made : Heeded(f) /\ Fenced(f.at, f.crowded)
    BY <1>1, <1>7 DEF CommitRun, OrderInv, TypeInv, JobsInv, JobOK
  <2>2. \A f \in forecasts' : Heeded(f) /\ Fenced(f.at, f.crowded)
    BY <1>1, <1>7, <2>1 DEF CommitRun, OrderInv
  <2> QED  BY <1>1, <1>7, <2>2, EndOrdered DEF CommitRun
<1>8. ASSUME NEW p \in Proc, Die(p) PROVE OrderInv'
  <2>1. \A f \in forecasts' : Heeded(f) /\ Fenced(f.at, f.crowded)
    BY <1>1, <1>8 DEF Die, OrderInv
  <2> QED  BY <1>1, <1>8, <2>1, EndOrdered DEF Die
<1>9. ASSUME NEW p \in Proc, NEW m \in Market, NEW i \in 1..MaxQuotes, ScoreQuote(p, m, i)
      PROVE  OrderInv'
  <2>1. PICK j \in JobShape :
          /\ job' = [job EXCEPT ![p] = j]
          /\ j.kind = job[p].kind /\ j.at = job[p].at /\ j.crowded = job[p].crowded
          /\ \A f \in j.made : f \in job[p].made \/ Heeded(f)
    BY <1>1, <1>9, ScoreShape
  <2> QED  BY <1>1, <1>9, <2>1, OrderOfJob DEF ScoreQuote
<1>10. ASSUME NEW p \in Player, NEW d \in Designation \cup {None}, ReportChanges(p, d)
       PROVE  OrderInv'
  BY <1>2, <1>10 DEF ReportChanges
<1>11. ASSUME StatsArrive PROVE OrderInv'
  BY <1>2, <1>11 DEF StatsArrive
<1>12. ASSUME NEW m \in Market, NEW l \in Line, NEW a \in BOOLEAN, Poll(m, l, a) PROVE OrderInv'
  BY <1>2, <1>12 DEF Poll
<1>13. CASE UNCHANGED vars
  BY <1>2, <1>13 DEF vars
<1> QED  BY <1>3, <1>4, <1>5, <1>6, <1>7, <1>8, <1>9, <1>10, <1>11, <1>12, <1>13 DEF Next

LEMMA OrderInit == Init => OrderInv
<1>1. Idle.kind = "idle" /\ Idle.made = {}
  BY DEF Idle
<1> QED  BY <1>1 DEF Init, OrderInv

-----------------------------------------------------------------------------
(* The theorems.                                                           *)

\* The tables and the transactions in flight are well formed in every
\* reachable state, with or without the invariant of the order of starts.
THEOREM BoardInvariant == Spec => []IInv
<1>1. Init => IInv
  BY TypeInit, OrderInit DEF IInv
<1>2. IInv /\ [Next]_vars => IInv'
  BY TypeStep, OrderStep DEF IInv
<1> QED  BY <1>1, <1>2, PTL DEF Spec

\* Board's TypeOK: forecasts are of archived snapshots of markets the scorer
\* supports, and each role, effect and matchup has at most one open row.
THEOREM BoardTyped == Spec => []TypeOK
<1>1. IInv => TypeOK
  <2> SUFFICES ASSUME IInv PROVE TypeOK
    OBVIOUS
  <2>1. WorldInv /\ RowsInv /\ JobsInv /\ ForecastsInv
    BY DEF IInv, TypeInv
  <2>2. \A k \in Key : rows[k] \subseteq RowOf(k)
    BY <2>1 DEF RowsInv
  <2>3. ASSUME NEW k \in SingleKey PROVE Cardinality(rows[k]) <= 1
    <3>1. CASE rows[k] = {}
      BY <3>1, FS_EmptySet
    <3>2. CASE rows[k] # {}
      <4>1. PICK r \in rows[k] : TRUE
        BY <3>2
      <4>2. \A s \in rows[k] : s = r
        BY <2>1, <4>1 DEF RowsInv
      <4>3. rows[k] = {r}
        BY <4>1, <4>2
      <4>4. Cardinality({r}) = 1
        BY FS_Singleton, Zenon
      <4> QED  BY <4>3, <4>4
    <3> QED  BY <3>1, <3>2
  <2>4. ASSUME NEW p \in Proc
        PROVE  /\ job[p].kind \in Context \cup {"forecast", "idle"}
               /\ job[p].at \in 0..clock
               /\ job[p].heard \in [Player -> Designation \cup {None}]
               /\ \A w \in job[p].writes : w.key \in Key /\ w.value \in Value(w.key)
               /\ \A f \in job[p].made : IsForecast(f) /\ f.at = job[p].at
    <3>1. job[p] \in JobShape /\ JobOK(job[p]) /\ clock \in Nat
      BY <2>1, BoardAssumption DEF JobsInv, WorldInv
    <3> QED  BY <3>1 DEF JobShape, JobOK, WriteRow
  <2> QED  BY <2>1, <2>2, <2>3, <2>4 DEF TypeOK, WorldInv, ForecastsInv
<1> QED  BY <1>1, BoardInvariant, PTL

\* ContextNeverRunsBack: whatever jobs of a kind overlap, in whatever order they
\* commit, the newest row of a key is never replaced by an older one.
THEOREM ContextForward == Spec => ContextNeverRunsBack
<1>1. ASSUME IInv, [Next]_vars
      PROVE  [\A k \in Key : NewestFrom(k)' >= NewestFrom(k)]_vars
  <2>1. TypeInv /\ TypeInv'
    BY <1>1, TypeStep DEF IInv
  <2>2. ASSUME UNCHANGED rows PROVE \A k \in Key : NewestFrom(k)' >= NewestFrom(k)
    <3> TAKE k \in Key
    <3>1. NewestFrom(k)' = NewestFrom(k)
      BY <2>2 DEF NewestFrom
    <3>2. NewestFrom(k) \in 0..clock
      BY <2>1, NewestFacts DEF TypeInv
    <3>3. clock \in Nat
      BY <2>1, BoardAssumption DEF TypeInv, WorldInv
    <3> QED  BY <3>1, <3>2, <3>3
  <2>3. ASSUME NEW p \in Proc, Refresh(p) PROVE \A k \in Key : NewestFrom(k)' >= NewestFrom(k)
    BY <2>1, <2>3, RefreshForward DEF TypeInv
  <2>4. UNCHANGED rows \/ \E p \in Proc : Refresh(p)
    BY <1>1 DEF Next, vars, ReportChanges, StatsArrive, Poll, Begin, Compute, FetchBoard,
                ScoreQuote, CommitRun, Die
  <2> QED  BY <2>2, <2>3, <2>4
<1> QED  BY <1>1, BoardInvariant, PTL DEF Spec, ContextNeverRunsBack

\* StaleForecastsAreDue: a forecast that does not rest on the context committed
\* now is found outdated by the next run, unless a context job was at work when
\* its own run began.
THEOREM ForecastsAreDue == Spec => []StaleForecastsAreDue
<1>1. IInv => StaleForecastsAreDue
  BY DEF IInv, OrderInv, Heeded, StaleForecastsAreDue, Stale, Outdated
<1> QED  BY <1>1, BoardInvariant, PTL

-----------------------------------------------------------------------------
(* The numbers of a turn (Pricing). *)

\* The larger of two, the smaller of two.
LEMMA MaxOfTwo ==
    ASSUME NEW a \in Int, NEW b \in Int
    PROVE  Max({a, b}) = IF a >= b THEN a ELSE b
<1> DEFINE m == IF a >= b THEN a ELSE b
<1>1. m \in {a, b} /\ \A y \in {a, b} : m >= y
  OBVIOUS
<1>2. \A x \in {a, b} : (\A y \in {a, b} : x >= y) => x = m
  OBVIOUS
<1>3. \E x \in {a, b} : \A y \in {a, b} : x >= y
  BY <1>1
<1> QED  BY <1>2, <1>3 DEF Max

LEMMA MinOfTwo ==
    ASSUME NEW a \in Int, NEW b \in Int
    PROVE  Min({a, b}) = IF a <= b THEN a ELSE b
<1> DEFINE m == IF a <= b THEN a ELSE b
<1>1. m \in {a, b} /\ \A y \in {a, b} : m <= y
  OBVIOUS
<1>2. \A x \in {a, b} : (\A y \in {a, b} : x <= y) => x = m
  OBVIOUS
<1>3. \E x \in {a, b} : \A y \in {a, b} : x <= y
  BY <1>1
<1> QED  BY <1>2, <1>3 DEF Min

\* A shrink stays a probability and moves towards 1/2, never past it.
LEMMA TowardLess ==
    ASSUME PricingAssumption, NEW p \in 0..One, NEW q \in 0..4
    PROVE  /\ Toward(p, q) \in 0..One
           /\ p >= Half => Toward(p, q) \in Half..p
           /\ p <= Half => Toward(p, q) <= Half
<1> DEFINE h == One \div 2
<1>1. One \in Nat /\ One > 0 /\ One = 2 * h /\ h \in Nat
  BY DEF PricingAssumption
<1>2. Toward(p, q) = h + ((p - h) * (4 - q)) \div 4
  BY DEF Toward, Half
<1> HIDE DEF h
<1>3. q = 0 \/ q = 1 \/ q = 2 \/ q = 3 \/ q = 4
  OBVIOUS
<1>4. /\ Toward(p, q) \in 0..One
      /\ p >= h => Toward(p, q) \in h..p
      /\ p <= h => Toward(p, q) <= h
  <2>1. CASE q = 0  BY <1>1, <1>2, <2>1
  <2>2. CASE q = 1  BY <1>1, <1>2, <2>2
  <2>3. CASE q = 2  BY <1>1, <1>2, <2>3
  <2>4. CASE q = 3  BY <1>1, <1>2, <2>4
  <2>5. CASE q = 4  BY <1>1, <1>2, <2>5
  <2> QED  BY <1>3, <2>1, <2>2, <2>3, <2>4, <2>5
<1> QED  BY <1>4 DEF Half, h

\* A shrink keeps the order of two numbers.
LEMMA TowardMonotone ==
    ASSUME PricingAssumption, NEW p \in 0..One, NEW r \in 0..One, p <= r, NEW q \in 0..4
    PROVE  Toward(p, q) <= Toward(r, q)
<1> DEFINE h == One \div 2
<1>1. One \in Nat /\ One = 2 * h /\ h \in Nat
  BY DEF PricingAssumption
<1>2. /\ Toward(p, q) = h + ((p - h) * (4 - q)) \div 4
      /\ Toward(r, q) = h + ((r - h) * (4 - q)) \div 4
  BY DEF Toward, Half
<1> HIDE DEF h
<1>3. q = 0 \/ q = 1 \/ q = 2 \/ q = 3 \/ q = 4
  OBVIOUS
<1>4. CASE q = 0  BY <1>1, <1>2, <1>4
<1>5. CASE q = 1  BY <1>1, <1>2, <1>5
<1>6. CASE q = 2  BY <1>1, <1>2, <1>6
<1>7. CASE q = 3  BY <1>1, <1>2, <1>7
<1>8. CASE q = 4  BY <1>1, <1>2, <1>8
<1> QED  BY <1>3, <1>4, <1>5, <1>6, <1>7, <1>8

-----------------------------------------------------------------------------
\* A nonempty set of naturals has a least element.
LEMMA LeastOfNat ==
    ASSUME NEW T \in SUBSET Nat, T # {}
    PROVE  \E t \in T : \A y \in T : t <= y
<1>1. PICK t \in T : \A y \in T : ~(<<y, t>> \in OpToRel(<, Nat))
  BY WFMin, NatLessThanWellFounded
<1>2. \A y \in T : ~(y < t)
  BY <1>1 DEF OpToRel
<1>3. \A y \in T : t <= y
  BY <1>2
<1> QED  BY <1>1, <1>3

\* What AfterRules recurses over.
Turns(after, n, order, start, facts) ==
    after = [k \in 0..n |-> IF k = 0 THEN start ELSE Fire(after[k - 1], order[k], facts)]

\* What AfterRules recurses over exists: a least step without it would have
\* had the step before it.
LEMMA TurnsExist ==
    ASSUME NEW n \in Nat, NEW order, NEW start, NEW facts
    PROVE  \E after : Turns(after, n, order, start, facts)
<1> DEFINE Good(m) == \E after : after = [k \in 0..m |-> IF k = 0 THEN start
                                              ELSE Fire(after[k - 1], order[k], facts)]
           Bad == {m \in Nat : ~Good(m)}
<1>1. Good(0)
  <2>1. [k \in 0..0 |-> start] =
           [k \in 0..0 |-> IF k = 0 THEN start
                           ELSE Fire([i \in 0..0 |-> start][k - 1], order[k], facts)]
    OBVIOUS
  <2> QED  BY <2>1
<1>2. ASSUME NEW m \in Nat, Good(m)
      PROVE  Good(m + 1)
  <2>1. PICK f : f = [k \in 0..m |-> IF k = 0 THEN start
                                     ELSE Fire(f[k - 1], order[k], facts)]
    BY <1>2
  <2> DEFINE g == [k \in 0..(m + 1) |-> IF k = m + 1 THEN Fire(f[m], order[m + 1], facts) ELSE f[k]]
  <2>2. \A k \in 0..m : g[k] = f[k]
    OBVIOUS
  <2>3. ASSUME NEW k \in 0..(m + 1)
        PROVE  g[k] = IF k = 0 THEN start ELSE Fire(g[k - 1], order[k], facts)
    <3>1. CASE k = 0
      BY <2>1, <2>2, <3>1
    <3>2. CASE k # 0 /\ k # m + 1
      <4>1. k \in 0..m /\ k - 1 \in 0..m
        BY <3>2
      <4> HIDE DEF g
      <4> QED  BY <2>1, <2>2, <3>2, <4>1
    <3>3. CASE k = m + 1
      <4>1. g[k] = Fire(f[m], order[k], facts) /\ k - 1 = m /\ k # 0
        BY <3>3
      <4>2. m \in 0..m
        OBVIOUS
      <4> HIDE DEF g
      <4> QED  BY <2>2, <4>1, <4>2
    <3> QED  BY <3>1, <3>2, <3>3
  <2>4. g = [k \in 0..(m + 1) |-> g[k]]
    OBVIOUS
  <2> HIDE DEF g
  <2>5. g = [k \in 0..(m + 1) |-> IF k = 0 THEN start ELSE Fire(g[k - 1], order[k], facts)]
    BY <2>3, <2>4
  <2> QED  BY <2>5
<1>3. Bad = {}
  <2> SUFFICES ASSUME Bad # {} PROVE FALSE
    OBVIOUS
  <2>1. Bad \in SUBSET Nat
    OBVIOUS
  <2>2. PICK m \in Bad : \A y \in Bad : m <= y
    <3> HIDE DEF Bad
    <3> QED  BY <2>1, LeastOfNat
  <2>3. m \in Nat /\ ~Good(m)
    OBVIOUS
  <2> HIDE DEF Good
  <2>4. m # 0
    BY <1>1, <2>3
  <2>5. m - 1 \in Nat /\ m - 1 \notin Bad
    <3>1. m - 1 \in Nat /\ ~(m <= m - 1)
      BY <2>3, <2>4
    <3> HIDE DEF Bad
    <3> QED  BY <3>1, <2>2
  <2>6. Good(m - 1)
    BY <2>5
  <2>7. Good((m - 1) + 1)
    BY <1>2, <2>5, <2>6
  <2>8. (m - 1) + 1 = m
    BY <2>3
  <2> QED  BY <2>3, <2>7, <2>8
<1>4. Good(n)
  <2> HIDE DEF Good
  <2> QED  BY <1>3
<1> QED  BY <1>4 DEF Turns

\* One rule leaves a number between 1/2 and what it found.
LEMMA FireOnlyShrinks ==
    ASSUME PricingAssumption, NEW r \in Rule, NEW facts, NEW p \in 0..One,
           NEW o \in [p : 0..One, blocked : BOOLEAN], p >= Half => o.p \in Half..p
    PROVE  /\ Fire(o, r, facts) \in [p : 0..One, blocked : BOOLEAN]
           /\ p >= Half => Fire(o, r, facts).p \in Half..p
<1>1. r.magnitude \in 0..4
  BY DEF PricingAssumption
<1>2. One \in Nat /\ Half \in Int
  BY DEF PricingAssumption, Half
<1> DEFINE to == IF r.kind = "shrink_toward_even" THEN Toward(o.p, r.magnitude) ELSE o.p
           b  == o.blocked \/ r.kind = "block"
<1>3. o.p \in 0..One /\ b \in BOOLEAN
  OBVIOUS
<1>4. /\ Toward(o.p, r.magnitude) \in 0..One
      /\ o.p >= Half => Toward(o.p, r.magnitude) \in Half..(o.p)
  BY <1>1, <1>3, TowardLess
<1>5. to \in 0..One /\ (p >= Half => to \in Half..p)
  BY <1>2, <1>3, <1>4
<1>6. Fire(o, r, facts) = o \/ Fire(o, r, facts) = [o EXCEPT !.p = to, !.blocked = b]
  BY DEF Fire
<1> HIDE DEF to, b
<1>7. CASE Fire(o, r, facts) = o
  BY <1>7
<1>8. CASE Fire(o, r, facts) = [o EXCEPT !.p = to, !.blocked = b]
  BY <1>3, <1>5, <1>8
<1> QED  BY <1>6, <1>7, <1>8

\* So do any number of rules, one after the other.
LEMMA RulesOnlyShrink ==
    ASSUME PricingAssumption, NEW n \in Nat, NEW order \in [1..n -> Rule],
           NEW p \in 0..One, NEW facts
    PROVE  /\ AfterRules(order, p, facts) \in [p : 0..One, blocked : BOOLEAN]
           /\ p >= Half => AfterRules(order, p, facts).p \in Half..p
<1> DEFINE start == [p |-> p, blocked |-> FALSE]
           after == CHOOSE f : f = [k \in 0..n |-> IF k = 0 THEN start
                                                   ELSE Fire(f[k - 1], order[k], facts)]
           Ok(k) == /\ after[k] \in [p : 0..One, blocked : BOOLEAN]
                    /\ p >= Half => after[k].p \in Half..p
           Bad == {k \in 0..n : ~Ok(k)}
<1>1. Len(order) = n
  OBVIOUS
<1>2. AfterRules(order, p, facts) = after[n]
  BY <1>1 DEF AfterRules
<1>3. after = [k \in 0..n |-> IF k = 0 THEN start ELSE Fire(after[k - 1], order[k], facts)]
  <2> HIDE DEF start
  <2>1. \E f : Turns(f, n, order, start, facts)
    BY TurnsExist
  <2>2. Turns(CHOOSE f : Turns(f, n, order, start, facts), n, order, start, facts)
    BY <2>1, Zenon
  <2>3. after = CHOOSE f : Turns(f, n, order, start, facts)
    BY DEF Turns
  <2>4. Turns(after, n, order, start, facts)
    BY <2>2, <2>3
  <2> QED  BY <2>4 DEF Turns
<1>4. start \in [p : 0..One, blocked : BOOLEAN] /\ start.p = p
  OBVIOUS
<1>5. One \in Nat /\ Half \in Int
  BY DEF PricingAssumption, Half
<1> HIDE DEF start, after
<1>6. after[0] = start /\ \A k \in 1..n : after[k] = Fire(after[k - 1], order[k], facts)
  <2>1. \A k \in 0..n : after[k] = IF k = 0 THEN start ELSE Fire(after[k - 1], order[k], facts)
    BY <1>3
  <2> QED  BY <2>1
<1>7. Ok(0)
  BY <1>4, <1>5, <1>6
<1>8. ASSUME NEW k \in 1..n, Ok(k - 1)
      PROVE  Ok(k)
  <2>1. order[k] \in Rule
    OBVIOUS
  <2> QED  BY <1>6, <1>8, <2>1, FireOnlyShrinks
<1> HIDE DEF Ok
<1>9. Bad = {}
  <2> SUFFICES ASSUME Bad # {} PROVE FALSE
    OBVIOUS
  <2>1. Bad \in SUBSET Nat
    OBVIOUS
  <2>2. PICK m \in Bad : \A y \in Bad : m <= y
    <3> HIDE DEF Bad
    <3> QED  BY <2>1, LeastOfNat
  <2>3. m \in 0..n /\ ~Ok(m)
    OBVIOUS
  <2>4. m \in 1..n /\ m - 1 \in 0..n /\ ~(m <= m - 1)
    BY <1>7, <2>3
  <2>5. m - 1 \notin Bad
    <3> HIDE DEF Bad
    <3> QED  BY <2>2, <2>4
  <2>6. Ok(m - 1)
    BY <2>4, <2>5
  <2> QED  BY <1>8, <2>3, <2>4, <2>6
<1>10. Ok(n)
  BY <1>9
<1> QED  BY <1>2, <1>10 DEF Ok

\* A finite set of rules of different identifiers can be put in order.
LEMMA RulesCanBeSorted ==
    ASSUME PricingAssumption, NEW S \in SUBSET Rule
    PROVE  \E order \in SetToSeqs(S) :
              \A i, j \in DOMAIN order : i < j => Before(order[i], order[j])
<1> DEFINE Sorted(T) == \E order \in [1..Cardinality(T) -> T] :
                          /\ \A r \in T : \E i \in 1..Cardinality(T) : order[i] = r
                          /\ \A i, j \in 1..Cardinality(T) : i < j => Before(order[i], order[j])
           Bad == {k \in Nat : \E T \in SUBSET Rule : Cardinality(T) = k /\ ~Sorted(T)}
<1>1. \A r \in Rule : r.id \in Nat /\ r.priority \in Nat /\ r.priority <= 100
  BY DEF PricingAssumption
<1>2. \A r, s \in Rule : r.id = s.id => r = s
  BY DEF PricingAssumption
<1>3. \A T \in SUBSET Rule : IsFiniteSet(T)
  BY FS_Subset DEF PricingAssumption
<1>4. \A r \in Rule : ~Before(r, r)
  <2> TAKE r \in Rule
  <2>1. r.id \in Nat /\ r.priority \in Nat
    BY <1>1
  <2> QED  BY <2>1 DEF Before
<1>5. ASSUME NEW T \in SUBSET Rule, T # {}
      PROVE  \E r \in T : \A s \in T \ {r} : Before(r, s)
  <2> DEFINE P == {100 - s.priority : s \in T}
  <2>1. \A s \in T : s.priority \in Nat /\ 100 - s.priority \in Nat
    <3> TAKE s \in T
    <3>1. s.priority \in Nat /\ s.priority <= 100
      BY <1>1
    <3> QED  BY <3>1
  <2>2. P \in SUBSET Nat /\ P # {}
    BY <1>5, <2>1
  <2>3. PICK t \in P : \A y \in P : t <= y
    <3> HIDE DEF P
    <3> QED  BY <2>2, LeastOfNat
  <2>4. PICK h \in T : t = 100 - h.priority
    BY <2>3
  <2>5. \A s \in T : s.priority <= h.priority
    <3> TAKE s \in T
    <3>1. t <= 100 - s.priority
      BY <2>3
    <3>2. s.priority \in Nat /\ h.priority \in Nat
      BY <2>1
    <3> QED  BY <3>1, <3>2, <2>4
  <2> DEFINE Q == {s.id : s \in {s \in T : s.priority = h.priority}}
  <2>6. Q \in SUBSET Nat /\ Q # {}
    BY <1>1, <2>4
  <2>7. PICK d \in Q : \A y \in Q : d <= y
    <3> HIDE DEF Q
    <3> QED  BY <2>6, LeastOfNat
  <2>8. PICK r \in T : r.priority = h.priority /\ d = r.id
    BY <2>7
  <2>9. ASSUME NEW s \in T \ {r}
        PROVE  Before(r, s)
    <3>1. CASE s.priority = h.priority
      <4>1. r.id <= s.id
        BY <2>7, <2>8, <3>1
      <4>2. r.id # s.id /\ r.id \in Nat /\ s.id \in Nat
        BY <1>1, <1>2
      <4> QED  BY <2>8, <3>1, <4>1, <4>2 DEF Before
    <3>2. CASE s.priority # h.priority
      <4>1. s.priority \in Nat /\ r.priority \in Nat /\ s.priority <= r.priority
        BY <2>1, <2>5, <2>8
      <4> QED  BY <2>8, <3>2, <4>1 DEF Before
    <3> QED  BY <3>1, <3>2
  <2> QED  BY <2>9
<1>6. Bad = {}
  <2> SUFFICES ASSUME Bad # {} PROVE FALSE
    OBVIOUS
  <2>1. Bad \in SUBSET Nat
    OBVIOUS
  <2>2. PICK k \in Bad : \A y \in Bad : k <= y
    <3> HIDE DEF Bad
    <3> QED  BY <2>1, LeastOfNat
  <2>3. PICK T \in SUBSET Rule : Cardinality(T) = k /\ ~Sorted(T)
    BY <2>2
  <2>4. IsFiniteSet(T) /\ k \in Nat
    BY <1>3, <2>2
  <2>5. T # {}
    <3> SUFFICES ASSUME T = {} PROVE FALSE
      OBVIOUS
    <3>1. Cardinality(T) = 0
      BY FS_EmptySet
    <3>2. <<>> \in [1..Cardinality(T) -> T] /\ 1..Cardinality(T) = {}
      BY <3>1
    <3> QED  BY <2>3, <3>2
  <2>6. PICK r \in T : \A s \in T \ {r} : Before(r, s)
    BY <1>5, <2>5
  <2> DEFINE U == T \ {r}
             c == Cardinality(U)
  <2>7. U \in SUBSET Rule /\ IsFiniteSet(U) /\ c \in Nat /\ k = c + 1
    <3>1. U \in SUBSET Rule
      OBVIOUS
    <3>2. IsFiniteSet(U) /\ Cardinality(U) = Cardinality(T) - 1
      BY <2>4, <2>6, FS_RemoveElement
    <3>3. Cardinality(U) \in Nat
      BY <3>2, FS_CardinalityType
    <3> QED  BY <2>3, <2>4, <3>1, <3>2, <3>3
  <2>8. Sorted(U)
    <3>1. c \notin Bad
      <4>1. ~(k <= c)
        <5> HIDE DEF c
        <5> QED  BY <2>7
      <4> HIDE DEF Bad
      <4> QED  BY <2>2, <2>7, <4>1
    <3> HIDE DEF Sorted
    <3> QED  BY <2>7, <3>1
  <2>9. PICK f \in [1..c -> U] : /\ \A s \in U : \E i \in 1..c : f[i] = s
                                 /\ \A i, j \in 1..c : i < j => Before(f[i], f[j])
    BY <2>8
  <2> HIDE DEF c
  <2> DEFINE g == [i \in 1..(c + 1) |-> IF i = 1 THEN r ELSE f[i - 1]]
  <2>10. g[1] = r /\ \A i \in 1..c : g[i + 1] = f[i] /\ f[i] \in U
    BY <2>7
  <2>11. g \in [1..(c + 1) -> T]
    <3>1. \A i \in 1..(c + 1) : i # 1 => i - 1 \in 1..c
      BY <2>7
    <3> QED  BY <2>6, <3>1
  <2> HIDE DEF g
  <2>12. \A s \in T : \E i \in 1..(c + 1) : g[i] = s
    <3> TAKE s \in T
    <3>1. CASE s = r
      BY <2>7, <2>10, <3>1
    <3>2. CASE s # r
      <4>1. PICK i \in 1..c : f[i] = s
        BY <2>9, <3>2
      <4>2. i + 1 \in 1..(c + 1) /\ g[i + 1] = s
        BY <2>7, <2>10, <4>1
      <4> QED  BY <4>2
    <3> QED  BY <3>1, <3>2
  <2>13. ASSUME NEW i \in 1..(c + 1), NEW j \in 1..(c + 1), i < j
         PROVE  Before(g[i], g[j])
    <3>1. j - 1 \in 1..c /\ g[j] = f[j - 1] /\ f[j - 1] \in U
      <4>1. j - 1 \in 1..c /\ (j - 1) + 1 = j
        BY <2>7, <2>13
      <4> QED  BY <2>10, <4>1
    <3>2. CASE i = 1
      BY <2>6, <2>10, <3>1, <3>2
    <3>3. CASE i # 1
      <4>1. i - 1 \in 1..c /\ (i - 1) + 1 = i /\ i - 1 < j - 1
        BY <2>7, <2>13, <3>3
      <4>2. g[i] = f[i - 1]
        BY <2>10, <4>1
      <4> QED  BY <2>9, <3>1, <4>1, <4>2
    <3> QED  BY <3>2, <3>3
  <2>14. Sorted(T)
    <3>1. Cardinality(T) = c + 1
      BY <2>3, <2>7
    <3>2. \A i, j \in 1..(c + 1) : i < j => Before(g[i], g[j])
      BY <2>13
    <3> QED  BY <2>11, <2>12, <3>1, <3>2
  <2> QED  BY <2>3, <2>14
<1>7. IsFiniteSet(S) /\ Cardinality(S) \in Nat
  BY <1>3, FS_CardinalityType
<1>8. Sorted(S)
  <2> HIDE DEF Sorted
  <2> QED  BY <1>6, <1>7
<1> DEFINE n == Cardinality(S)
<1>9. PICK order \in [1..n -> S] :
        \A i, j \in 1..n : i < j => Before(order[i], order[j])
  BY <1>8
<1> HIDE DEF n
<1>10. \A i, j \in 1..n : i # j => order[i] # order[j]
  <2> TAKE i, j \in 1..n
  <2> HAVE i # j
  <2>1. i < j \/ j < i
    <3>1. i \in Nat /\ j \in Nat
      BY <1>7 DEF n
    <3> QED  BY <3>1
  <2>3. order[i] \in Rule /\ order[j] \in Rule
    OBVIOUS
  <2> QED  BY <1>9, <1>4, <2>1, <2>3
<1> QED  BY <1>9, <1>10 DEF SetToSeqs, n

\* The order the engine sorts the rules into is one of the rules.
LEMMA InOrderIsAnOrder ==
    ASSUME PricingAssumption
    PROVE  /\ Cardinality(Rule) \in Nat
           /\ InOrder \in [1..Cardinality(Rule) -> Rule]
<1>1. Cardinality(Rule) \in Nat
  BY FS_CardinalityType DEF PricingAssumption
<1>2. \E order \in Orders : \A i, j \in DOMAIN order : i < j => Before(order[i], order[j])
  BY RulesCanBeSorted DEF Orders
<1>3. InOrder \in Orders
  BY <1>2 DEF InOrder
<1> QED  BY <1>1, <1>3 DEF Orders, SetToSeqs

-----------------------------------------------------------------------------
(* Minutes. *)

\* No projection is more than a game.
LEMMA ClampOnTheCourt ==
    ASSUME NEW x \in Int
    PROVE  OnCourt(x) \in Nat /\ OnCourt(x) <= MaxMinutes
<1> DEFINE m == Min({MaxMinutes, x})
<1>1. m = (IF MaxMinutes <= x THEN MaxMinutes ELSE x)
  BY MinOfTwo DEF MaxMinutes
<1>2. m \in Int /\ m <= MaxMinutes
  BY <1>1 DEF MaxMinutes
<1> HIDE DEF m
<1>3. Max({0, m}) = (IF 0 >= m THEN 0 ELSE m)
  BY <1>2, MaxOfTwo
<1> QED  BY <1>2, <1>3 DEF OnCourt, MaxMinutes, m

\* The minutes a model was moved to, or less with a whole game for one of its
\* regimes.
Kept(m, t) ==
    \/ Mean10(m) = 10 * m.per * t
    \/ Mean10(m) < 10 * m.per * t /\ MaxMinutes * m.per \in {m.starter, m.bench}

\* Shifted while both regimes stay on the court, scaled when one would not: the
\* mix is the target, and of two regimes of which one is held at a whole game it
\* is no more.
LEMMA ShiftKeepsTheMean ==
    ASSUME NEW e, e.start \in 0..10, e.starter \in Nat, e.bench \in Nat, NEW t \in Nat
    PROVE  Kept(Shift(FromHistory(e), t), t)
<1> DEFINE m == FromHistory(e)
<1>1. PICK a \in 0..10 : a = e.start
  OBVIOUS
<1>2. PICK s \in Nat : s = e.starter
  OBVIOUS
<1>3. PICK b \in Nat : b = e.bench
  OBVIOUS
<1>4. m = [starter |-> s, bench |-> b, start |-> a, per |-> 1]
  BY <1>1, <1>2, <1>3 DEF FromHistory
<1> HIDE DEF m
<1> DEFINE mean    == Mean10(m)
           starter == 10 * m.starter + (10 * t - Mean10(m))
           bench   == 10 * m.bench + (10 * t - Mean10(m))
           onCourt == {starter, bench} \subseteq 0..(10 * MaxMinutes)
           game    == MaxMinutes * mean
<1>6. Shift(m, t) =
         IF onCourt
           THEN [m EXCEPT !.per = 10, !.starter = starter, !.bench = bench]
         ELSE IF mean = 0 THEN [m EXCEPT !.starter = t, !.bench = t]
         ELSE [m EXCEPT !.per = mean, !.starter = Min({game, 10 * t * m.starter}),
                        !.bench = Min({game, 10 * t * m.bench})]
  BY Zenon DEF Shift
<1>7. m.starter = s /\ m.bench = b /\ m.start = a /\ m.per = 1
  BY <1>4
<1>8. mean = a * s + (10 - a) * b
  BY <1>7 DEF Mean10
<1>9. a \in Nat /\ 10 - a \in Nat
  OBVIOUS
<1>10. mean \in Nat
  BY <1>8, <1>9
<1>11. starter = 10 * s + (10 * t - mean) /\ bench = 10 * b + (10 * t - mean)
  BY <1>7
<1>16. game \in Int /\ game = MaxMinutes * mean
  BY <1>10 DEF MaxMinutes
<1> HIDE DEF mean, starter, bench, game, onCourt
<1>13. CASE onCourt
  <2>1. Shift(m, t) = [starter |-> starter, bench |-> bench, start |-> a, per |-> 10]
    <3>1. Shift(m, t) = [m EXCEPT !.per = 10, !.starter = starter, !.bench = bench]
      BY <1>13, <1>6, Zenon
    <3> QED  BY <1>4, <3>1
  <2>2. Mean10(Shift(m, t)) = a * starter + (10 - a) * bench
    BY <2>1 DEF Mean10
  <2>3. a * starter + (10 - a) * bench = 10 * mean + 10 * (10 * t - mean)
    BY <1>8, <1>9, <1>11
  <2>4. 10 * mean + 10 * (10 * t - mean) = 100 * t
    BY <1>10
  <2>5. 10 * 10 * t = 100 * t
    OBVIOUS
  <2>6. Shift(m, t).per = 10
    BY <2>1
  <2> QED  BY <2>2, <2>3, <2>4, <2>5, <2>6 DEF m, Kept
<1>14. CASE ~onCourt /\ mean = 0
  <2>1. Shift(m, t) = [starter |-> t, bench |-> t, start |-> a, per |-> 1]
    <3>1. Shift(m, t) = [m EXCEPT !.starter = t, !.bench = t]
      BY <1>14, <1>6, Zenon
    <3> QED  BY <1>4, <3>1
  <2>2. Mean10(Shift(m, t)) = a * t + (10 - a) * t /\ Shift(m, t).per = 1
    BY <2>1 DEF Mean10
  <2>3. a * t + (10 - a) * t = 10 * 1 * t
    BY <1>9
  <2> QED  BY <2>2, <2>3 DEF m, Kept
<1>15. CASE ~onCourt /\ mean # 0
  <2> DEFINE fs == 10 * t * s
             fb == 10 * t * b
             x  == Min({game, fs})
             y  == Min({game, fb})
  <2>1. fs \in Int /\ fb \in Int
    OBVIOUS
  <2>2. a * fs + (10 - a) * fb = 10 * mean * t
    BY <1>8, <1>9
  <2>3. Shift(m, t) = [m EXCEPT !.per = mean, !.starter = x, !.bench = y]
    <3>1. Shift(m, t) = [m EXCEPT !.per = mean, !.starter = Min({game, 10 * t * m.starter}),
                                  !.bench = Min({game, 10 * t * m.bench})]
      BY <1>15, <1>6, Zenon
    <3> QED  BY <1>7, <3>1
  <2> HIDE DEF fs, fb
  <2>4. x = (IF game <= fs THEN game ELSE fs) /\ y = (IF game <= fb THEN game ELSE fb)
    BY <1>16, <2>1, MinOfTwo
  <2> HIDE DEF x, y
  <2>5. x \in Int /\ y \in Int /\ x <= fs /\ y <= fb /\ (x = fs \/ x = game) /\ (y = fb \/ y = game)
    BY <1>16, <2>1, <2>4
  <2>6. Shift(m, t) = [starter |-> x, bench |-> y, start |-> a, per |-> mean]
    BY <1>4, <2>3
  <2>7. /\ Mean10(Shift(m, t)) = a * x + (10 - a) * y
        /\ Shift(m, t).starter = x /\ Shift(m, t).bench = y /\ Shift(m, t).per = mean
    BY <2>6 DEF Mean10
  <2>8. a * x <= a * fs /\ (10 - a) * y <= (10 - a) * fb
    <3>1. \A c, u, v \in Int : c >= 0 /\ u <= v => c * u <= c * v
      OBVIOUS
    <3> QED  BY <1>9, <2>1, <2>5, <3>1
  <2>9. a * x + (10 - a) * y <= 10 * mean * t
    <3>1. a * x \in Int /\ a * fs \in Int /\ (10 - a) * y \in Int /\ (10 - a) * fb \in Int
      BY <1>9, <2>1, <2>5
    <3> QED  BY <2>2, <2>8, <3>1
  <2>10. a * x + (10 - a) * y = 10 * mean * t \/ game \in {x, y}
    BY <2>2, <2>5
  <2>11. a * x + (10 - a) * y \in Int /\ 10 * mean * t \in Int
    BY <1>9, <1>10, <2>5
  <2> QED  BY <1>16, <2>7, <2>9, <2>10, <2>11 DEF m, Kept
<1> QED  BY <1>13, <1>14, <1>15

\* The projection of a piece of evidence is the mean of its minutes model.
LEMMA MinutesAreKept ==
    ASSUME PricingAssumption, NEW q \in Quote, NEW e \in Evidences[q], Asked(e) # Missing
    PROVE  Kept(MinutesModel(e), Asked(e))
<1>1. /\ {e.games, e.starter, e.bench} \subseteq Nat
      /\ e.start \in 0..10 /\ e.delta \in Int /\ e.role \in Nat \cup {Missing}
  BY DEF PricingAssumption
<1>2. e.role \in Nat
  BY <1>1 DEF Asked
<1>3. e.role + e.delta \in Int /\ e.role \in Int
  BY <1>1, <1>2
<1>4. Asked(e) = OnCourt(e.role + e.delta) \/ Asked(e) = OnCourt(e.role)
  BY DEF Asked
<1>5. Asked(e) \in Nat
  BY <1>3, <1>4, ClampOnTheCourt
<1>6. MinutesModel(e) = Shift(FromHistory(e), Asked(e))
  BY DEF MinutesModel
<1> QED  BY <1>1, <1>5, <1>6, ShiftKeepsTheMean

-----------------------------------------------------------------------------
(* Decisions. *)

Sides == {"over", "under"}

Reasons == {"blocked_by_skeptic", "blocked_stale_quote", "blocked_data_quality", "blocked_calibration"}

Decisions == [side : Sides, raw : 0..One, lower : 0..One,
              status : Reasons \cup {"none", "candidate", "declined_no_edge"}]

\* What is left of a number after the market's shrinkage and the allowance.
Lower(raw, width) == Max({0, Toward(raw, 4 - Factor) - width})

\* A larger number leaves a larger bound.
LEMMA LowerGrows ==
    ASSUME PricingAssumption, NEW w \in 0..One, NEW r \in 0..One, NEW p \in 0..r
    PROVE  Lower(r, w) \in 0..One /\ Lower(p, w) <= Lower(r, w)
<1>1. One \in Nat /\ 4 - Factor \in 0..4 /\ p \in 0..One
  BY DEF PricingAssumption
<1> DEFINE tp == Toward(p, 4 - Factor)
           tr == Toward(r, 4 - Factor)
<1>2. tp \in 0..One /\ tr \in 0..One
  BY <1>1, TowardLess
<1>3. tp <= tr
  BY <1>1, TowardMonotone
<1> HIDE DEF tp, tr
<1>4. /\ Max({0, tp - w}) = (IF 0 >= tp - w THEN 0 ELSE tp - w)
      /\ Max({0, tr - w}) = (IF 0 >= tr - w THEN 0 ELSE tr - w)
  BY <1>1, <1>2, MaxOfTwo
<1>5. Max({0, tr - w}) \in 0..One /\ Max({0, tp - w}) <= Max({0, tr - w})
  BY <1>1, <1>2, <1>3, <1>4
<1> QED  BY <1>5 DEF Lower, tp, tr

\* The gates name one reason or none, and a rule's block only adds one.
LEMMA GatesNameOne ==
    ASSUME NEW blocked \in BOOLEAN, NEW c
    PROVE  /\ Blocks(blocked, c) = {} \/ \E why \in Reasons : Blocks(blocked, c) = {why}
           /\ Blocks(blocked, c) = {} => Blocks(FALSE, c) = {}
<1>1. Blocks(blocked, c) = {} \/ \E why \in Reasons : Blocks(blocked, c) = {why}
  BY DEF Blocks, Reasons
<1>2. ASSUME blocked
      PROVE  Blocks(blocked, c) # {}
  BY <1>2 DEF Blocks
<1>3. CASE blocked
  BY <1>1, <1>2, <1>3
<1>4. CASE ~blocked
  BY <1>1, <1>4
<1> QED  BY <1>3, <1>4

\* What a decision says of the number and the side it was given.
Reads(d, raw, w, blocked, c) ==
    /\ d \in Decisions
    /\ d.raw = raw
    /\ d.status = "candidate" <=> /\ Blocks(blocked, c) = {}
                                  /\ ~(Lower(raw, w) < Breakeven + Margin)

\* What decide_candidate answers, whatever it is given.
LEMMA DecideReads ==
    ASSUME PricingAssumption, NEW over \in 0..One, NEW under \in 0..One,
           NEW w \in 0..One, NEW blocked \in BOOLEAN, NEW c
    PROVE  Reads(Decide(over, under, w, blocked, c), Max({over, under}), w, blocked, c)
<1> DEFINE raw == Max({over, under})
           low == Lower(raw, w)
           why == Blocks(blocked, c)
           st  == IF why # {} THEN CHOOSE x \in why : TRUE
                  ELSE IF low < Breakeven + Margin THEN "declined_no_edge" ELSE "candidate"
<1>1. Decide(over, under, w, blocked, c) =
        [side |-> Side(over, under), raw |-> raw, lower |-> low, status |-> st]
  BY DEF Decide, Lower
<1>2. raw \in 0..One
  BY MaxOfTwo
<1>3. low \in 0..One
  <2> HIDE DEF raw
  <2>1. raw \in 0..raw
    BY <1>2
  <2> QED  BY <1>2, <2>1, LowerGrows
<1>4. Side(over, under) \in Sides
  BY DEF Side, Sides
<1>5. why = {} \/ \E x \in Reasons : why = {x}
  BY GatesNameOne
<1> HIDE DEF raw, low, why
<1>6. /\ st \in Reasons \cup {"none", "candidate", "declined_no_edge"}
      /\ st = "candidate" <=> why = {} /\ ~(low < Breakeven + Margin)
  <2>1. CASE why = {}
    BY <2>1
  <2>2. CASE \E x \in Reasons : why = {x}
    <3>1. PICK x \in Reasons : why = {x}
      BY <2>2
    <3>2. st = x /\ why # {}
      BY <3>1
    <3>3. x # "candidate"
      BY DEF Reasons
    <3> HIDE DEF st
    <3> QED  BY <3>2, <3>3
  <2> QED  BY <1>5, <2>1, <2>2
<1> HIDE DEF st
<1>7. Decide(over, under, w, blocked, c) \in Decisions
  BY <1>1, <1>2, <1>3, <1>4, <1>6 DEF Decisions
<1>8. /\ Decide(over, under, w, blocked, c).raw = raw
      /\ Decide(over, under, w, blocked, c).status = st
  BY <1>1
<1> QED  BY <1>6, <1>7, <1>8 DEF raw, low, why, Reads

\* The run hands over a side and its number.
LEMMA DecisionReads ==
    ASSUME PricingAssumption, NEW side \in Sides, NEW p \in 0..One,
           NEW w \in 0..One, NEW blocked \in BOOLEAN, NEW c
    PROVE  /\ Decision(side, p, w, blocked, c) \in Decisions
           /\ p >= Half => /\ Reads(Decision(side, p, w, blocked, c), p, w, blocked, c)
                           /\ Decision(side, p, w, blocked, c).side = side \/ p = Half
<1> DEFINE over  == IF side = "over" THEN p ELSE One - p
           under == IF side = "under" THEN p ELSE One - p
<1>1. One \in Nat /\ One = 2 * Half /\ Half \in Nat
  BY DEF PricingAssumption, Half
<1>2. over \in 0..One /\ under \in 0..One
  BY <1>1
<1>3. Decision(side, p, w, blocked, c) = Decide(over, under, w, blocked, c)
  BY DEF Decision
<1>4. p >= Half => Max({over, under}) = p
  <2>1. Max({over, under}) = (IF over >= under THEN over ELSE under)
    <3> HIDE DEF over, under
    <3> QED  BY <1>2, MaxOfTwo
  <2> QED  BY <1>1, <2>1 DEF Sides
<1>5. p >= Half => Side(over, under) = side \/ p = Half
  BY <1>1 DEF Side, Sides
<1> HIDE DEF over, under
<1> DEFINE d == Decide(over, under, w, blocked, c)
<1>6. Reads(d, Max({over, under}), w, blocked, c) /\ d.side = Side(over, under)
  <2>1. PICK o \in 0..One, u \in 0..One : o = over /\ u = under
    BY <1>2
  <2>2. Reads(Decide(o, u, w, blocked, c), Max({o, u}), w, blocked, c)
    BY DecideReads
  <2>3. Decide(o, u, w, blocked, c).side = Side(o, u)
    BY DEF Decide
  <2> QED  BY <2>1, <2>2, <2>3
<1>7. Decision(side, p, w, blocked, c) = d
  BY <1>3
<1> HIDE DEF d
<1> QED  BY <1>4, <1>5, <1>6, <1>7 DEF Reads

\* The calibrated number of the side the forecast leans to.
LEMMA SelectedIsAProbability ==
    ASSUME PricingAssumption, NEW q \in Quote, NEW s \in Scores[q]
    PROVE  Selected(s) \in 0..One /\ Leaning(s) \in Sides /\ s.width \in 0..One
<1>1. One \in Nat /\ s.over \in 0..One /\ s.push \in 0..One /\ s.width \in 0..One
  BY DEF PricingAssumption
<1> DEFINE x == One - s.over - s.push
           m == Min({One, x})
<1>2. x \in Int
  BY <1>1
<1>3. m = (IF One <= x THEN One ELSE x)
  <2> HIDE DEF x
  <2> QED  BY <1>1, <1>2, MinOfTwo
<1>4. m \in Int /\ m <= One
  BY <1>1, <1>2, <1>3
<1> HIDE DEF x
<1>5. CalibratedUnder(s) = Max({0, m})
  BY DEF CalibratedUnder, Clamp, x
<1> HIDE DEF m
<1>6. CalibratedUnder(s) \in 0..One
  <2>1. PICK y \in Int : y = m
    BY <1>4
  <2>2. Max({0, y}) = (IF 0 >= y THEN 0 ELSE y)
    BY MaxOfTwo
  <2> QED  BY <1>1, <1>4, <1>5, <2>1, <2>2
<1>7. Selected(s) = (IF s.over >= CalibratedUnder(s) THEN s.over ELSE CalibratedUnder(s))
  <2>1. PICK o \in Int, u \in Int : o = s.over /\ u = CalibratedUnder(s)
    BY <1>1, <1>6
  <2>2. Max({o, u}) = (IF o >= u THEN o ELSE u)
    BY MaxOfTwo
  <2> QED  BY <2>1, <2>2 DEF Selected
<1>8. Leaning(s) \in Sides
  BY DEF Leaning, Side, Sides
<1> QED  BY <1>1, <1>6, <1>7, <1>8

-----------------------------------------------------------------------------
(* A turn of the run. *)

AnyScore == {NoWork.score} \cup UNION {Scores[q] : q \in Quote}
AnyEvidence == UNION {Evidences[q] : q \in Quote}

\* What the run works with, whatever quote it is at.
Numbers == [score : AnyScore, side : Sides, p : 0..One, blocked : BOOLEAN,
            given : {0} \cup {Given(e) : e \in AnyEvidence}, evidence : {0} \cup AnyEvidence]

\* What the stages of a turn have made of the quote they are at.
TurnInv ==
    /\ next \in 0..Len(Queue)
    /\ stage \in {"board", "scored", "ruled", "decided"}
    /\ work \in Numbers
    /\ board \in [Quote -> Decisions]
    /\ stage # "board" => /\ next < Len(Queue)
                          /\ work.score \in Scores[Current]
                          /\ work.evidence \in Evidences[Current]
                          /\ work.side = Leaning(work.score)
    /\ stage = "scored" => work.p = Selected(work.score)
    /\ stage \in {"ruled", "decided"} /\ Selected(work.score) >= Half =>
         work.p \in Half..Selected(work.score)
    /\ stage = "decided" =>
         board[Current] = Decision(work.side, Guarded(work.p), work.score.width,
                                   work.blocked, work.given)

\* The turn is at a quote of the board.
LEMMA CurrentIsAQuote ==
    ASSUME PricingAssumption, next \in 0..Len(Queue), next < Len(Queue)
    PROVE  Current \in Quote
<1>1. Queue \in Seq(Quote) /\ next + 1 \in 1..Len(Queue)
  BY DEF PricingAssumption
<1> QED  BY <1>1 DEF Current

\* The drift guard shrinks like a rule.
LEMMA GuardOnlyShrinks ==
    ASSUME PricingAssumption, NEW p \in 0..One
    PROVE  /\ Guarded(p) \in 0..One
           /\ p >= Half => Guarded(p) \in Half..p
<1>1. GuardQuarters \in 0..4
  BY DEF GuardQuarters
<1> QED  BY <1>1, TowardLess DEF Guarded

\* The steps of a turn.
LEMMA ScoreKeepsTurn ==
    ASSUME PricingAssumption, TurnInv, Score
    PROVE  TurnInv'
<1>1. next < Len(Queue) /\ stage' = "scored" /\ next' = next /\ board' = board
  BY DEF Score
<1>2. Current \in Quote /\ Current' = Current
  BY <1>1, CurrentIsAQuote DEF TurnInv, Current
<1>3. PICK s \in Scores[Current], e \in Evidences[Current] :
        work' = [score |-> s, side |-> Leaning(s), p |-> Selected(s),
                 blocked |-> FALSE, given |-> Given(e), evidence |-> e]
  BY DEF Score
<1>4. s \in AnyScore /\ e \in AnyEvidence
  BY <1>2 DEF AnyScore, AnyEvidence
<1>5. Selected(s) \in 0..One /\ Leaning(s) \in Sides
  BY <1>2, SelectedIsAProbability
<1>6. work' \in Numbers
  BY <1>3, <1>4, <1>5 DEF Numbers
<1>7. work'.score = s /\ work'.evidence = e /\ work'.side = Leaning(s) /\ work'.p = Selected(s)
  BY <1>3
<1> QED  BY <1>1, <1>2, <1>6, <1>7 DEF TurnInv

LEMMA RulesKeepTurn ==
    ASSUME PricingAssumption, TurnInv, ApplyRules
    PROVE  TurnInv'
<1>1. stage = "scored" /\ stage' = "ruled" /\ next' = next /\ board' = board
  BY DEF ApplyRules
<1> DEFINE facts == Facts(work.p, work.given)
           o == AfterRules(InOrder, work.p, facts)
<1>2. work' = [work EXCEPT !.p = o.p, !.blocked = o.blocked]
  BY DEF ApplyRules
<1>3. work.p \in 0..One
  BY DEF TurnInv, Numbers
<1>4. /\ o \in [p : 0..One, blocked : BOOLEAN]
      /\ work.p >= Half => o.p \in Half..(work.p)
  <2> HIDE DEF facts
  <2>1. PICK p \in 0..One : p = work.p
    BY <1>3
  <2>2. /\ AfterRules(InOrder, p, facts) \in [p : 0..One, blocked : BOOLEAN]
        /\ p >= Half => AfterRules(InOrder, p, facts).p \in Half..p
    BY InOrderIsAnOrder, RulesOnlyShrink
  <2> QED  BY <2>1, <2>2
<1> HIDE DEF o
<1>5. /\ work' \in Numbers /\ work'.score = work.score /\ work'.side = work.side
      /\ work'.evidence = work.evidence /\ work'.p = o.p
  <2>1. work \in Numbers
    BY DEF TurnInv
  <2> QED  BY <1>2, <1>4, <2>1 DEF Numbers
<1>6. Current' = Current
  BY <1>1 DEF Current
<1>7. work.p = Selected(work.score)
  BY <1>1 DEF TurnInv
<1> QED  BY <1>1, <1>4, <1>5, <1>6, <1>7 DEF TurnInv

LEMMA ConcludeKeepsTurn ==
    ASSUME PricingAssumption, TurnInv, Conclude
    PROVE  TurnInv'
<1>1. stage = "ruled" /\ stage' = "decided" /\ next' = next /\ work' = work /\ incidents' = incidents
  BY DEF Conclude
<1>2. Current \in Quote /\ Current' = Current
  BY <1>1, CurrentIsAQuote DEF TurnInv, Current
<1> DEFINE d == Decision(work.side, Guarded(work.p), work.score.width, work.blocked, work.given)
<1>3. board' = [board EXCEPT ![Current] = d]
  BY DEF Conclude
<1>4. d \in Decisions
  <2>1. work.p \in 0..One /\ work.side \in Sides /\ work.blocked \in BOOLEAN
    BY DEF TurnInv, Numbers
  <2>2. work.score.width \in 0..One
    BY <1>1, <1>2, SelectedIsAProbability DEF TurnInv
  <2>3. Guarded(work.p) \in 0..One
    BY <2>1, GuardOnlyShrinks
  <2> QED  BY <2>1, <2>2, <2>3, DecisionReads
<1>5. d' = d
  BY <1>1 DEF Guarded, GuardQuarters
<1> HIDE DEF d
<1>6. board' \in [Quote -> Decisions] /\ board'[Current] = d
  BY <1>2, <1>3, <1>4 DEF TurnInv
<1>7. board'[Current'] = d'
  BY <1>2, <1>5, <1>6
<1> QED  BY <1>1, <1>2, <1>6, <1>7 DEF TurnInv, d

LEMMA AdvanceKeepsTurn ==
    ASSUME PricingAssumption, TurnInv, Advance
    PROVE  TurnInv'
<1>1. next < Len(Queue) /\ next' = next + 1 /\ next \in Nat /\ Len(Queue) \in Nat
  BY DEF Advance, TurnInv, PricingAssumption
<1>2. NoWork \in Numbers
  <2>1. 0 \in 0..One
    BY DEF PricingAssumption
  <2> QED  BY <2>1 DEF NoWork, Numbers, AnyScore, Sides
<1> QED  BY <1>1, <1>2 DEF Advance, TurnInv

\* Every step of the run, and what it starts from.
LEMMA TurnKept ==
    ASSUME PricingAssumption, TurnInv, [PricingNext]_pricingVars
    PROVE  TurnInv'
<1>1. CASE UNCHANGED pricingVars
  BY <1>1 DEF pricingVars, TurnInv, Current, Guarded, GuardQuarters
<1> QED  BY <1>1, ScoreKeepsTurn, RulesKeepTurn, ConcludeKeepsTurn, AdvanceKeepsTurn
         DEF PricingNext

LEMMA TurnInit == PricingAssumption /\ PricingInit => TurnInv
<1> SUFFICES ASSUME PricingAssumption, PricingInit PROVE TurnInv
  OBVIOUS
<1>1. One \in Nat /\ Len(Queue) \in Nat
  BY DEF PricingAssumption
<1>2. NoWork \in Numbers
  BY <1>1 DEF NoWork, Numbers, AnyScore, Sides
<1>3. NoDecision \in Decisions
  BY <1>1 DEF NoDecision, Decisions, Sides
<1> QED  BY <1>1, <1>2, <1>3 DEF PricingInit, TurnInv

\* After the turn: p is between 1/2 and the calibrated number, so its bound is
\* lower, and the gates that let it through let the other through.
LEMMA TurnRestricts ==
    ASSUME PricingAssumption, TurnInv
    PROVE  RestrictionsOnlyRestrict
<1> SUFFICES ASSUME stage = "decided", Selected(work.score) >= Half
             PROVE  LET d == board[Current]
                    IN  /\ d.side = Leaning(work.score) \/ d.raw = Half
                        /\ d.raw <= Selected(work.score)
                        /\ d.status = "candidate" => Unrestricted.status = "candidate"
  BY DEF RestrictionsOnlyRestrict
<1> DEFINE sel == Selected(work.score)
           g   == Guarded(work.p)
           w   == work.score.width
           d   == board[Current]
<1>1. Current \in Quote /\ work.score \in Scores[Current]
  BY CurrentIsAQuote DEF TurnInv
<1>2. sel \in 0..One /\ w \in 0..One /\ work.side = Leaning(work.score)
  BY <1>1, SelectedIsAProbability DEF TurnInv
<1>3. work.p \in 0..One /\ work.side \in Sides /\ work.blocked \in BOOLEAN
  BY DEF TurnInv, Numbers
<1>4. work.p \in Half..sel
  BY DEF TurnInv
<1>5. One \in Nat /\ Half \in Nat
  BY DEF PricingAssumption, Half
<1>6. g \in 0..One /\ g \in Half..sel
  <2>1. work.p >= Half
    BY <1>2, <1>4, <1>5
  <2>2. g \in 0..One /\ g \in Half..(work.p)
    BY <1>3, <2>1, GuardOnlyShrinks
  <2> HIDE DEF g, sel
  <2> QED  BY <1>2, <1>3, <1>4, <1>5, <2>2
<1>7. d = Decision(work.side, g, w, work.blocked, work.given)
  BY DEF TurnInv
<1>8. sel >= Half
  OBVIOUS
<1>9. Unrestricted = Decision(work.side, sel, w, FALSE, work.given)
  BY DEF Unrestricted
<1> HIDE DEF g, sel, w, d
<1>10. g >= Half /\ g \in 0..sel
  BY <1>5, <1>6
<1>11. Reads(d, g, w, work.blocked, work.given) /\ (d.side = work.side \/ g = Half)
  BY <1>2, <1>3, <1>6, <1>7, <1>10, DecisionReads
<1>12. /\ d.raw = g /\ (d.side = work.side \/ g = Half)
       /\ d.status = "candidate" <=> /\ Blocks(work.blocked, work.given) = {}
                                     /\ ~(Lower(g, w) < Breakeven + Margin)
  BY <1>11 DEF Reads
<1>13. Unrestricted.status = "candidate" <=> /\ Blocks(FALSE, work.given) = {}
                                             /\ ~(Lower(sel, w) < Breakeven + Margin)
  <2>1. FALSE \in BOOLEAN
    OBVIOUS
  <2>2. Reads(Decision(work.side, sel, w, FALSE, work.given), sel, w, FALSE, work.given)
    BY <1>2, <1>3, <1>8, <2>1, DecisionReads, Zenon
  <2> QED  BY <1>9, <2>2, Zenon DEF Reads
<1>14. Lower(g, w) \in Int /\ Lower(sel, w) \in Int /\ Lower(g, w) <= Lower(sel, w)
  <2>1. Lower(sel, w) \in 0..One /\ Lower(g, w) <= Lower(sel, w)
    BY <1>2, <1>10, LowerGrows
  <2>2. g \in 0..g
    BY <1>6, <1>5
  <2>3. Lower(g, w) \in 0..One
    BY <1>2, <1>6, <2>2, LowerGrows
  <2> QED  BY <1>5, <2>1, <2>3
<1>15. Breakeven + Margin \in Int
  BY DEF PricingAssumption
<1>16. Blocks(work.blocked, work.given) = {} => Blocks(FALSE, work.given) = {}
  BY <1>3, GatesNameOne
<1>17. d.status = "candidate" => Unrestricted.status = "candidate"
  <2>1. ~(Lower(g, w) < Breakeven + Margin) => ~(Lower(sel, w) < Breakeven + Margin)
    BY <1>14, <1>15
  <2> QED  BY <1>12, <1>13, <1>16, <2>1, Zenon
<1>18. d.raw <= sel
  BY <1>5, <1>6, <1>12
<1> QED  BY <1>2, <1>12, <1>17, <1>18 DEF d, sel

\* Once scored, the evidence of the turn is evidence of its quote.
LEMMA TurnKeepsMinutes ==
    ASSUME PricingAssumption, TurnInv
    PROVE  ProjectedMinutesAreKept
<1> SUFFICES ASSUME stage = "scored", Asked(work.evidence) # Missing
             PROVE  Kept(MinutesModel(work.evidence), Asked(work.evidence))
  BY DEF ProjectedMinutesAreKept, Kept
<1>1. Current \in Quote /\ work.evidence \in Evidences[Current]
  BY CurrentIsAQuote DEF TurnInv
<1> QED  BY <1>1, MinutesAreKept

-----------------------------------------------------------------------------
(* The stakes of a day (Entries). *)

\* The least of four.
LEMMA MinOfFour ==
    ASSUME NEW a \in Int, NEW b \in Int, NEW c \in Int, NEW d \in Int
    PROVE  /\ Min({a, b, c, d}) \in {a, b, c, d}
           /\ Min({a, b, c, d}) <= a /\ Min({a, b, c, d}) <= b
           /\ Min({a, b, c, d}) <= c /\ Min({a, b, c, d}) <= d
<1> DEFINE ab == IF a <= b THEN a ELSE b
           cd == IF c <= d THEN c ELSE d
           m  == IF ab <= cd THEN ab ELSE cd
<1>1. ab \in {a, b} /\ ab <= a /\ ab <= b /\ cd \in {c, d} /\ cd <= c /\ cd <= d /\ ab \in Int /\ cd \in Int
  OBVIOUS
<1> HIDE DEF ab, cd
<1>2. m \in {a, b, c, d} /\ \A y \in {a, b, c, d} : m <= y
  BY <1>1
<1>3. \E x \in {a, b, c, d} : \A y \in {a, b, c, d} : x <= y
  BY <1>2
<1>4. Min({a, b, c, d}) \in {a, b, c, d} /\ \A y \in {a, b, c, d} : Min({a, b, c, d}) <= y
  BY <1>3 DEF Min
<1> QED  BY <1>4

\* A stake fits into what is left of the game and of the day.
LEMMA StakeIsHeadroom ==
    ASSUME EntriesAssumption, NEW kelly \in Nat, NEW worst \in Int,
           NEW staked \in Nat, NEW day \in Nat
    PROVE  /\ Stake(kelly, worst, staked, day) \in 0..PerPosition
           /\ Stake(kelly, worst, staked, day) > 0 =>
                /\ staked + Stake(kelly, worst, staked, day) <= PerGame
                /\ day + Stake(kelly, worst, staked, day) <= PerDay
<1> DEFINE game == Max({0, PerGame - staked})
           left == Max({0, PerDay - day})
           cap  == Min({kelly, PerPosition, game, left})
<1>1. PerPosition \in Nat /\ PerGame \in Nat /\ PerDay \in Nat /\ MinEdge \in Int
  BY DEF EntriesAssumption
<1>2. game = (IF 0 >= PerGame - staked THEN 0 ELSE PerGame - staked)
  BY <1>1, MaxOfTwo
<1>3. left = (IF 0 >= PerDay - day THEN 0 ELSE PerDay - day)
  BY <1>1, MaxOfTwo
<1>4. game \in Nat /\ left \in Nat
  BY <1>1, <1>2, <1>3
<1> HIDE DEF game, left
<1>5. cap \in Nat /\ cap <= PerPosition /\ cap <= game /\ cap <= left
  <2>1. kelly \in Int /\ PerPosition \in Int /\ game \in Int /\ left \in Int
    BY <1>1, <1>4
  <2>2. cap \in {kelly, PerPosition, game, left}
    BY <2>1, MinOfFour
  <2>3. cap <= kelly /\ cap <= PerPosition /\ cap <= game /\ cap <= left
    BY <2>1, MinOfFour
  <2> HIDE DEF cap
  <2> QED  BY <2>2, <2>3, <1>1, <1>4
<1>6. Max({0, cap}) = cap
  <2> HIDE DEF cap
  <2> QED  BY <1>5, MaxOfTwo
<1>7. Stake(kelly, worst, staked, day) = (IF worst < MinEdge THEN 0 ELSE cap)
  BY <1>6 DEF Stake, game, left
<1> HIDE DEF cap
<1> QED  BY <1>1, <1>2, <1>3, <1>5, <1>7

\* What the day's books hold.
BooksInv ==
    /\ qualified \subseteq Quote
    /\ entries \in 0..MaxEntries
    /\ onGame \in [Advice -> [GameOnBoard -> Nat]]
    /\ today \in [Advice -> Nat]
    /\ \A a \in Advice : /\ today[a] <= entries * PerPosition
                         /\ \A g \in GameOnBoard : onGame[a][g] <= entries * PerPosition

PolicyInv == BooksInv /\ PricedEntriesStayWithinThePolicy

\* An entry of a stake no more than a position's.
LEMMA EnterKeepsBooks ==
    ASSUME EntriesAssumption, BooksInv, NEW a \in Advice, NEW S \in SUBSET qualified,
           NEW stake \in 0..PerPosition, entries < MaxEntries, Enter(a, S, stake),
           UNCHANGED qualified
    PROVE  /\ BooksInv'
           /\ \A b \in Advice : b # a => onGame'[b] = onGame[b] /\ today'[b] = today[b]
           /\ today'[a] = today[a] + stake
           /\ \A g \in GameOnBoard : \/ onGame'[a][g] = onGame[a][g]
                                     \/ /\ \E q \in S : LegGame[q] = g
                                        /\ onGame'[a][g] = onGame[a][g] + stake
<1>1. PerPosition \in Nat /\ MaxEntries \in Nat
  BY DEF EntriesAssumption
<1> DEFINE plus(g) == IF \E q \in S : LegGame[q] = g THEN stake ELSE 0
<1>2. /\ onGame' = [onGame EXCEPT ![a] = [g \in GameOnBoard |-> onGame[a][g] + plus(g)]]
      /\ today' = [today EXCEPT ![a] = today[a] + stake]
      /\ entries' = entries + 1
  BY DEF Enter
<1>3. \A g : plus(g) \in 0..PerPosition
  BY <1>1
<1>4. \A g : \/ plus(g) = 0
             \/ plus(g) = stake /\ \E q \in S : LegGame[q] = g
  OBVIOUS
<1>5. entries' * PerPosition = entries * PerPosition + PerPosition /\ entries' \in 0..MaxEntries
  <2>1. entries \in Nat /\ entries' \in 0..MaxEntries
    BY <1>1, <1>2 DEF BooksInv
  <2>2. \A x, y \in Nat : (x + 1) * y = x * y + y
    OBVIOUS
  <2>3. (entries + 1) * PerPosition = entries * PerPosition + PerPosition
    BY <1>1, <2>1, <2>2
  <2> QED  BY <1>2, <2>1, <2>3
<1> HIDE DEF plus
<1>6. \A b \in Advice : b # a => onGame'[b] = onGame[b] /\ today'[b] = today[b]
  BY <1>2 DEF BooksInv
<1>7. today'[a] = today[a] + stake /\ \A g \in GameOnBoard : onGame'[a][g] = onGame[a][g] + plus(g)
  BY <1>2 DEF BooksInv
<1>8. onGame' \in [Advice -> [GameOnBoard -> Nat]]
  <2>1. [g \in GameOnBoard |-> onGame[a][g] + plus(g)] \in [GameOnBoard -> Nat]
    <3>1. \A g \in GameOnBoard : onGame[a][g] \in Nat /\ plus(g) \in Nat
      BY <1>1, <1>3 DEF BooksInv
    <3> QED  BY <3>1
  <2> QED  BY <2>1, <1>2 DEF BooksInv
<1>9. today' \in [Advice -> Nat]
  BY <1>1, <1>2 DEF BooksInv
<1>10. ASSUME NEW b \in Advice
       PROVE  /\ today'[b] <= entries' * PerPosition
              /\ \A g \in GameOnBoard : onGame'[b][g] <= entries' * PerPosition
  <2> DEFINE e == entries * PerPosition
  <2>1. e \in Nat /\ entries' * PerPosition = e + PerPosition
    <3>1. entries \in Nat
      BY <1>1 DEF BooksInv
    <3>2. e \in Nat
      BY <3>1, <1>1
    <3> QED  BY <3>2, <1>5
  <2>2. /\ today[b] \in Nat /\ today[b] <= e
        /\ \A g \in GameOnBoard : onGame[b][g] \in Nat /\ onGame[b][g] <= e
    BY DEF BooksInv
  <2> HIDE DEF e
  <2>3. CASE b # a
    BY <2>1, <2>2, <2>3, <1>1, <1>6
  <2>4. CASE b = a
    BY <2>1, <2>2, <2>4, <1>1, <1>3, <1>7
  <2> QED  BY <2>3, <2>4
<1>11. BooksInv'
  BY <1>5, <1>8, <1>9, <1>10 DEF BooksInv
<1> QED  BY <1>4, <1>6, <1>7, <1>11 DEF BooksInv

\* An entry priced by the console, told truly of what is staked.
LEMMA PricedEntryKeepsPolicy ==
    ASSUME EntriesAssumption, PolicyInv, PriceAndEnter
    PROVE  PolicyInv'
<1>1. PICK S \in Tickets, worst \in Edges, kelly \in 1..(PerPosition + 1) :
         LET stake == Stake(kelly, worst, Max({StakedOn(LegGame[q]) : q \in S}), Total(today))
         IN  stake > 0 /\ Enter("priced", S, stake)
  BY DEF PriceAndEnter
<1> DEFINE staked == Max({StakedOn(LegGame[q]) : q \in S})
           stake  == Stake(kelly, worst, staked, Total(today))
<1>2. PerPosition \in Nat /\ MaxEntries \in Nat /\ worst \in Int /\ kelly \in Nat
  BY DEF EntriesAssumption
<1>3. S \in SUBSET qualified /\ S \subseteq Quote /\ S # {}
  <2>1. Cardinality(S) \in 2..8 /\ S \in SUBSET qualified
    BY DEF Tickets, EntriesAssumption
  <2>2. S # {}
    <3>1. Cardinality({}) = 0
      BY FS_EmptySet
    <3>2. 0 \notin 2..8
      OBVIOUS
    <3> QED  BY <2>1, <3>1, <3>2
  <2> QED  BY <2>1, <2>2 DEF PolicyInv, BooksInv
<1>4. \A g \in GameOnBoard : /\ StakedOn(g) \in 0..(2 * (entries * PerPosition))
                             /\ StakedOn(g) = onGame["priced"][g] + onGame["suggested"][g]
                             /\ onGame["suggested"][g] \in Nat
                             /\ onGame["priced"][g] \in Nat
  <2> DEFINE e == entries * PerPosition
  <2>1. e \in Nat
    BY <1>2 DEF PolicyInv, BooksInv
  <2>2. \A a \in Advice : \A g \in GameOnBoard : onGame[a][g] \in Nat /\ onGame[a][g] <= e
    BY DEF PolicyInv, BooksInv
  <2> HIDE DEF e
  <2>3. \A g \in GameOnBoard : /\ StakedOn(g) \in 0..(2 * e)
                               /\ StakedOn(g) = onGame["priced"][g] + onGame["suggested"][g]
    BY <2>1, <2>2 DEF StakedOn, Advice
  <2> QED  BY <2>2, <2>3 DEF e, Advice
<1>5. 2 * (entries * PerPosition) \in Nat
  BY <1>2 DEF PolicyInv, BooksInv
<1>6. staked \in Nat /\ \A q \in S : StakedOn(LegGame[q]) <= staked
  <2> DEFINE T == {StakedOn(LegGame[q]) : q \in S}
             n == 2 * (entries * PerPosition)
  <2>1. T \in SUBSET (0..n) /\ T # {}
    BY <1>3, <1>4 DEF GameOnBoard
  <2>2. n \in Nat
    BY <1>5
  <2>3. \A q \in S : StakedOn(LegGame[q]) \in T
    OBVIOUS
  <2>4. Max(T) \in T /\ \A x \in T : x <= Max(T)
    <3> HIDE DEF T, n
    <3> QED  BY <2>1, <2>2, MaxOfBounded
  <2> QED  BY <2>1, <2>2, <2>3, <2>4
<1>7. Total(today) \in Nat /\ today["priced"] \in Nat /\ today["suggested"] \in Nat
      /\ Total(today) = today["priced"] + today["suggested"]
  BY DEF Total, PolicyInv, BooksInv, Advice
<1>8. stake > 0 /\ Enter("priced", S, stake) /\ entries < MaxEntries /\ UNCHANGED qualified
  BY <1>1 DEF PriceAndEnter
<1>9. /\ stake \in 0..PerPosition
      /\ staked + stake <= PerGame
      /\ Total(today) + stake <= PerDay
  <2> HIDE DEF staked
  <2> QED  BY <1>2, <1>6, <1>7, <1>8, StakeIsHeadroom
<1>10. PICK paid \in 0..PerPosition : paid = stake
  BY <1>9
<1> HIDE DEF stake, staked
<1>11. PICK priced \in Advice : priced = "priced"
  BY DEF Advice
<1>12. Enter(priced, S, paid) /\ entries < MaxEntries /\ UNCHANGED qualified
  BY <1>8, <1>10, <1>11
<1>13. /\ BooksInv'
       /\ today'["priced"] = today["priced"] + paid
       /\ \A g \in GameOnBoard : \/ onGame'["priced"][g] = onGame["priced"][g]
                                 \/ /\ \E q \in S : LegGame[q] = g
                                    /\ onGame'["priced"][g] = onGame["priced"][g] + paid
  <2>1. BooksInv
    BY DEF PolicyInv
  <2>2. BooksInv' /\ today'[priced] = today[priced] + paid
    <3>1. paid \in 0..PerPosition /\ S \in SUBSET qualified /\ priced \in Advice
      BY <1>3, <1>10, <1>11
    <3>2. BooksInv'
      BY ONLY <1>12, <2>1, <3>1, EntriesAssumption, EnterKeepsBooks
    <3>3. today'[priced] = today[priced] + paid
      <4>1. today' = [today EXCEPT ![priced] = today[priced] + paid]
        BY ONLY <1>12 DEF Enter
      <4>2. today \in [Advice -> Nat]
        BY ONLY <2>1 DEF BooksInv
      <4> QED  BY ONLY <3>1, <4>1, <4>2
    <3> QED  BY ONLY <3>2, <3>3
  <2>3. \A g \in GameOnBoard : \/ onGame'[priced][g] = onGame[priced][g]
                               \/ /\ \E q \in S : LegGame[q] = g
                                  /\ onGame'[priced][g] = onGame[priced][g] + paid
    BY <1>3, <1>12, <2>1, EnterKeepsBooks
  <2> QED  BY <2>2, <2>3, <1>11
<1>14. PerGame \in Nat /\ PerDay \in Nat
  BY DEF EntriesAssumption
<1>15. today'["priced"] <= PerDay
  BY <1>2, <1>7, <1>9, <1>10, <1>13, <1>14
<1>16. ASSUME NEW g \in GameOnBoard
       PROVE  onGame'["priced"][g] <= PerGame
  <2>1. CASE onGame'["priced"][g] = onGame["priced"][g]
    BY <2>1 DEF PolicyInv, PricedEntriesStayWithinThePolicy
  <2>2. CASE (\E q \in S : LegGame[q] = g) /\ onGame'["priced"][g] = onGame["priced"][g] + paid
    <3>1. StakedOn(g) <= staked
      BY <2>2, <1>6
    <3> QED  BY <3>1, <2>2, <1>2, <1>4, <1>6, <1>9, <1>10, <1>14
  <2> QED  BY <2>1, <2>2, <1>13
<1> QED  BY <1>13, <1>15, <1>16 DEF PolicyInv, PricedEntriesStayWithinThePolicy

\* A suggested entry adds nothing to what was priced.
LEMMA SuggestedEntryKeepsPolicy ==
    ASSUME EntriesAssumption, PolicyInv, SuggestAndEnter
    PROVE  PolicyInv'
<1>1. PICK S \in Tickets, worst \in Edges, kelly \in 1..(PerPosition + 1) :
         Enter("suggested", S, Stake(kelly, worst, 0, 0))
  BY DEF SuggestAndEnter
<1>2. worst \in Int /\ kelly \in Nat /\ S \in SUBSET qualified
  <2>1. worst \in Int
    BY DEF EntriesAssumption
  <2>2. PerPosition \in Nat
    BY DEF EntriesAssumption
  <2>3. kelly \in Nat
    BY <2>2
  <2>4. S \in SUBSET qualified
    BY DEF Tickets
  <2> QED  BY <2>1, <2>3, <2>4
<1>3. Stake(kelly, worst, 0, 0) \in 0..PerPosition
  BY <1>2, StakeIsHeadroom
<1>4. "suggested" \in Advice /\ "priced" \in Advice /\ entries < MaxEntries /\ UNCHANGED qualified
  BY DEF Advice, SuggestAndEnter
<1>5. BooksInv
  BY DEF PolicyInv
<1>6. /\ BooksInv'
      /\ \A b \in Advice : b # "suggested" => onGame'[b] = onGame[b] /\ today'[b] = today[b]
  BY <1>1, <1>2, <1>3, <1>4, <1>5, EnterKeepsBooks
<1> QED  BY <1>4, <1>6 DEF PolicyInv, PricedEntriesStayWithinThePolicy

\* Every step of the desk, and what it starts from.
LEMMA PolicyKept ==
    ASSUME EntriesAssumption, PolicyInv, [EntriesNext]_entriesVars
    PROVE  PolicyInv'
<1>1. CASE UNCHANGED deskVars
  BY <1>1 DEF deskVars, PolicyInv, BooksInv, PricedEntriesStayWithinThePolicy
<1>2. CASE ShowBoard
  BY <1>2 DEF ShowBoard, PolicyInv, BooksInv, PricedEntriesStayWithinThePolicy
<1>3. CASE PriceAndEnter
  BY <1>3, PricedEntryKeepsPolicy
<1>4. CASE SuggestAndEnter
  BY <1>4, SuggestedEntryKeepsPolicy
<1> QED  BY <1>1, <1>2, <1>3, <1>4 DEF EntriesNext, entriesVars

LEMMA PolicyInit == EntriesAssumption /\ EntriesInit => PolicyInv
<1> SUFFICES ASSUME EntriesAssumption, EntriesInit PROVE PolicyInv
  OBVIOUS
<1>1. PerPosition \in Nat /\ PerGame \in Nat /\ PerDay \in Nat /\ MaxEntries \in Nat
  BY DEF EntriesAssumption
<1>2. 0 * PerPosition = 0
  BY <1>1
<1> QED  BY <1>1, <1>2 DEF EntriesInit, PolicyInv, BooksInv, PricedEntriesStayWithinThePolicy, Advice

\* The desk leaves the run alone.
LEMMA TurnsAreApart == [EntriesNext]_entriesVars => [PricingNext]_pricingVars
BY DEF EntriesNext, ShowBoard, PriceAndEnter, SuggestAndEnter, entriesVars

\* Entries priced one by one, each told truly what is staked already, never
\* leave more on a game or on a day than the policy allows, for every policy.
THEOREM PricedWithinThePolicy == EntriesSpec => []PricedEntriesStayWithinThePolicy
<1>1. EntriesInit => PolicyInv
  BY EntriesAssumption, PolicyInit
<1>2. PolicyInv /\ [EntriesNext]_entriesVars => PolicyInv'
  BY EntriesAssumption, PolicyKept
<1>3. PolicyInv => PricedEntriesStayWithinThePolicy
  BY DEF PolicyInv
<1> QED  BY <1>1, <1>2, <1>3, PTL DEF EntriesSpec

\* Every turn has made of its quote what the stage it is at says, whatever
\* the scorer answers and whatever rules and incidents there are.
THEOREM TurnsAreInOrder == EntriesSpec => []TurnInv
<1>1. EntriesInit => TurnInv
  BY PricingAssumption, TurnInit DEF EntriesInit
<1>2. TurnInv /\ [EntriesNext]_entriesVars => TurnInv'
  BY PricingAssumption, TurnsAreApart, TurnKept
<1> QED  BY <1>1, <1>2, PTL DEF EntriesSpec

\* The rules, the drift guard and the gate only restrict: no set of approved
\* rules, in whatever order, makes a forecast claim more, change its side or
\* become a candidate it was not.
THEOREM OnlyRestricts == EntriesSpec => []RestrictionsOnlyRestrict
<1>1. TurnInv => RestrictionsOnlyRestrict
  BY PricingAssumption, TurnRestricts
<1> QED  BY <1>1, TurnsAreInOrder, PTL

\* A projection is the mean of the two regimes it is spread over, shifted or
\* scaled; short of it, never beyond, where one of them plays the whole game.
THEOREM MinutesStayAsProjected == EntriesSpec => []ProjectedMinutesAreKept
<1>1. TurnInv => ProjectedMinutesAreKept
  BY PricingAssumption, TurnKeepsMinutes
<1> QED  BY <1>1, TurnsAreInOrder, PTL

\* Typing follows from the two invariants.
LEMMA EntriesAreTyped ==
    ASSUME PricingAssumption, EntriesAssumption, TurnInv, PolicyInv
    PROVE  EntriesTypeOK
<1>1. PricingTypeOK
  BY DEF PricingTypeOK, TurnInv, Numbers, Decisions, Sides
<1>2. PerPosition \in Nat /\ MaxEntries \in Nat /\ entries \in 0..MaxEntries
  BY DEF EntriesAssumption, PolicyInv, BooksInv
<1> DEFINE e == entries * PerPosition
           m == MaxEntries * PerPosition
<1>3. e \in Nat /\ m \in Nat /\ e <= m
  <2>1. \A x, y, z \in Nat : x <= y => x * z <= y * z
    OBVIOUS
  <2>2. entries \in Nat /\ entries <= MaxEntries
    BY <1>2
  <2> QED  BY <1>2, <2>1, <2>2
<1>4. /\ onGame \in [Advice -> [GameOnBoard -> Nat]] /\ today \in [Advice -> Nat]
      /\ \A a \in Advice : /\ today[a] <= e
                           /\ \A g \in GameOnBoard : onGame[a][g] <= e
  BY DEF PolicyInv, BooksInv
<1> HIDE DEF e, m
<1>5. \A a \in Advice : /\ today[a] \in 0..m
                        /\ onGame[a] \in [GameOnBoard -> 0..m]
  BY <1>3, <1>4
<1>6. today \in [Advice -> 0..m] /\ onGame \in [Advice -> [GameOnBoard -> 0..m]]
  BY <1>4, <1>5
<1> QED  BY <1>1, <1>2, <1>6 DEF EntriesTypeOK, m, PolicyInv, BooksInv

\* The board, the numbers of a turn and the books of a day stay well typed.
THEOREM EntriesTyped == EntriesSpec => []EntriesTypeOK
<1>1. EntriesInit => PolicyInv
  BY EntriesAssumption, PolicyInit
<1>2. PolicyInv /\ [EntriesNext]_entriesVars => PolicyInv'
  BY EntriesAssumption, PolicyKept
<1>3. TurnInv /\ PolicyInv => EntriesTypeOK
  BY PricingAssumption, EntriesAssumption, EntriesAreTyped
<1> QED  BY <1>1, <1>2, <1>3, TurnsAreInOrder, PTL DEF EntriesSpec

(***************************************************************************)
(* The order of the rules.                                                 *)
(***************************************************************************)

\* A set of naturals that 0 is in and that goes on is all of them.
LEMMA AllOfNat ==
    ASSUME NEW S \in SUBSET Nat, 0 \in S, \A k \in S : k + 1 \in S
    PROVE  S = Nat
<1> SUFFICES ASSUME S # Nat PROVE FALSE
  OBVIOUS
<1> DEFINE T == Nat \ S
<1>1. T \in SUBSET Nat /\ T # {}
  OBVIOUS
<1>2. PICK t \in T : \A y \in T : t <= y
  <2> HIDE DEF T
  <2> QED  BY <1>1, LeastOfNat
<1>3. t \in Nat /\ t # 0 /\ t \notin S
  OBVIOUS
<1>4. t - 1 \in Nat /\ t - 1 \notin T
  <2>1. t - 1 \in Nat /\ ~(t <= t - 1)
    BY <1>3
  <2> HIDE DEF T
  <2> QED  BY <1>2, <2>1
<1>5. (t - 1) + 1 \in S
  BY <1>4
<1>6. (t - 1) + 1 = t
  BY <1>3
<1> QED  BY <1>3, <1>5, <1>6

\* d can be divided by 4 so many times and be whole.
Quarters(g, d, times) ==
    /\ g \in [0..times -> Int] /\ g[0] = d
    /\ \A i \in 0..times - 1 : g[i] = 4 * g[i + 1]
IsQuartered(d, times) == \E g : Quarters(g, d, times)

LEMMA QuarterOnce ==
    ASSUME NEW times \in Nat \ {0}, NEW d, IsQuartered(d, times)
    PROVE  \E e \in Int : d = 4 * e /\ IsQuartered(e, times - 1)
<1>1. PICK g : Quarters(g, d, times)
  BY DEF IsQuartered
<1> DEFINE h == [i \in 0..times - 1 |-> g[i + 1]]
<1>2. Quarters(h, g[1], times - 1)
  <2>1. \A i \in 0..times - 1 : g[i + 1] \in Int
    BY <1>1 DEF Quarters
  <2>2. h \in [0..times - 1 -> Int] /\ h[0] = g[1]
    BY <2>1
  <2>3. ASSUME NEW i \in 0..(times - 1) - 1
        PROVE  h[i] = 4 * h[i + 1]
    <3>1. i + 1 \in 0..times - 1 /\ i \in 0..times - 1
      OBVIOUS
    <3>2. g[i + 1] = 4 * g[(i + 1) + 1]
      BY <1>1, <3>1 DEF Quarters
    <3> QED  BY <3>1, <3>2
  <2> HIDE DEF h
  <2> QED  BY <2>2, <2>3 DEF Quarters
<1>3. d = 4 * g[1] /\ g[1] \in Int
  <2>1. 0 \in 0..times - 1 /\ 1 \in 0..times
    OBVIOUS
  <2>2. g[0] = 4 * g[0 + 1]
    BY <1>1, <2>1 DEF Quarters
  <2> QED  BY <1>1, <2>1, <2>2 DEF Quarters
<1> HIDE DEF h
<1> QED  BY <1>2, <1>3 DEF IsQuartered

LEMMA QuarterLess ==
    ASSUME NEW times \in Nat, NEW d, IsQuartered(d, times), NEW fewer \in 0..times
    PROVE  IsQuartered(d, fewer)
<1>1. PICK g : Quarters(g, d, times)
  BY DEF IsQuartered
<1> DEFINE h == [i \in 0..fewer |-> g[i]]
<1>2. \A i \in 0..fewer : i \in 0..times
  OBVIOUS
<1>3. h \in [0..fewer -> Int] /\ h[0] = d
  BY <1>1, <1>2 DEF Quarters
<1>4. ASSUME NEW i \in 0..fewer - 1
      PROVE  h[i] = 4 * h[i + 1]
  <2>1. i \in 0..times - 1 /\ i \in 0..fewer /\ i + 1 \in 0..fewer
    OBVIOUS
  <2>2. g[i] = 4 * g[i + 1]
    BY <1>1, <2>1 DEF Quarters
  <2> QED  BY <2>1, <2>2
<1> HIDE DEF h
<1> QED  BY <1>3, <1>4 DEF IsQuartered, Quarters

LEMMA QuarterMultiple ==
    ASSUME NEW times \in Nat, NEW d \in Int, IsQuartered(d, times), NEW c \in 0..4
    PROVE  IsQuartered(d * c, times)
<1>1. PICK g : Quarters(g, d, times)
  BY DEF IsQuartered
<1> DEFINE h == [i \in 0..times |-> g[i] * c]
<1>2. \A i \in 0..times : g[i] \in Int
  BY <1>1 DEF Quarters
<1>3. h \in [0..times -> Int] /\ h[0] = d * c
  <2>1. c \in Int /\ \A x \in Int : x * c \in Int
    OBVIOUS
  <2>2. h \in [0..times -> Int]
    BY <1>2, <2>1
  <2>3. 0 \in 0..times /\ g[0] = d
    BY <1>1 DEF Quarters
  <2> QED  BY <2>2, <2>3
<1>4. ASSUME NEW i \in 0..times - 1
      PROVE  h[i] = 4 * h[i + 1]
  <2>1. i \in 0..times /\ i + 1 \in 0..times
    OBVIOUS
  <2>2. g[i] = 4 * g[i + 1] /\ g[i + 1] \in Int
    BY <1>1, <2>1 DEF Quarters
  <2>3. g[i] * c = 4 * (g[i + 1] * c)
    <3> DEFINE x == g[i + 1]
    <3>1. x \in Int /\ g[i] = 4 * x
      BY <2>2
    <3> HIDE DEF x
    <3>2. c = 0 \/ c = 1 \/ c = 2 \/ c = 3 \/ c = 4
      OBVIOUS
    <3>3. (4 * x) * c = 4 * (x * c)
      BY <3>1, <3>2
    <3> QED  BY <3>1, <3>3 DEF x
  <2> QED  BY <2>1, <2>3
<1> HIDE DEF h
<1> QED  BY <1>3, <1>4 DEF IsQuartered, Quarters

\* A shrink of a number whose distance from 1/2 divides by 4 is exact.
LEMMA TowardExactly ==
    ASSUME NEW p \in Int, NEW e \in Int, Half \in Int, p - Half = 4 * e, NEW q \in 0..4
    PROVE  Toward(p, q) \in Int /\ Toward(p, q) - Half = e * (4 - q)
<1>1. q = 0 \/ q = 1 \/ q = 2 \/ q = 3 \/ q = 4
  OBVIOUS
<1>2. Toward(p, q) = Half + ((4 * e) * (4 - q)) \div 4
  BY DEF Toward
<1>3. ((4 * e) * (4 - q)) \div 4 = e * (4 - q)
  <2>1. CASE q = 0  BY <2>1
  <2>2. CASE q = 1  BY <2>2
  <2>3. CASE q = 2  BY <2>3
  <2>4. CASE q = 3  BY <2>4
  <2>5. CASE q = 4  BY <2>5
  <2> QED  BY <1>1, <2>1, <2>2, <2>3, <2>4, <2>5
<1>4. e * (4 - q) \in Int
  OBVIOUS
<1> QED  BY <1>2, <1>3, <1>4

LEMMA TowardLeavesQuarters ==
    ASSUME NEW times \in Nat \ {0}, NEW p \in Int, Half \in Int, IsQuartered(p - Half, times),
           NEW q \in 0..4
    PROVE  Toward(p, q) \in Int /\ IsQuartered(Toward(p, q) - Half, times - 1)
<1>1. PICK e \in Int : p - Half = 4 * e /\ IsQuartered(e, times - 1)
  BY QuarterOnce
<1>2. Toward(p, q) \in Int /\ Toward(p, q) - Half = e * (4 - q)
  BY <1>1, TowardExactly
<1>3. 4 - q \in 0..4 /\ times - 1 \in Nat
  OBVIOUS
<1>4. IsQuartered(e * (4 - q), times - 1)
  BY <1>1, <1>3, QuarterMultiple
<1> QED  BY <1>2, <1>4

LEMMA TowardsCommute ==
    ASSUME NEW p \in Int, Half \in Int, IsQuartered(p - Half, 2), NEW a \in 0..4, NEW b \in 0..4
    PROVE  Toward(Toward(p, a), b) = Toward(Toward(p, b), a)
<1>1. PICK e \in Int : p - Half = 4 * e /\ IsQuartered(e, 1)
  <2>1. 2 \in Nat \ {0} /\ 2 - 1 = 1
    OBVIOUS
  <2> QED  BY <2>1, QuarterOnce
<1>2. PICK f \in Int : e = 4 * f
  <2>1. 1 \in Nat \ {0}
    OBVIOUS
  <2> QED  BY <1>1, <2>1, QuarterOnce
<1> DEFINE x == f * (4 - a)
           y == f * (4 - b)
<1>3. x \in Int /\ y \in Int /\ e * (4 - a) = 4 * x /\ e * (4 - b) = 4 * y
  <2>1. a = 0 \/ a = 1 \/ a = 2 \/ a = 3 \/ a = 4
    OBVIOUS
  <2>2. b = 0 \/ b = 1 \/ b = 2 \/ b = 3 \/ b = 4
    OBVIOUS
  <2> QED  BY <1>2, <2>1, <2>2
<1>4. x * (4 - b) = y * (4 - a)
  <2>1. a = 0 \/ a = 1 \/ a = 2 \/ a = 3 \/ a = 4
    OBVIOUS
  <2>2. b = 0 \/ b = 1 \/ b = 2 \/ b = 3 \/ b = 4
    OBVIOUS
  <2> QED  BY <2>1, <2>2
<1> HIDE DEF x, y
<1>5. Toward(p, a) \in Int /\ Toward(p, a) - Half = 4 * x
  <2>1. Toward(p, a) \in Int /\ Toward(p, a) - Half = e * (4 - a)
    BY <1>1, TowardExactly
  <2> QED  BY <1>3, <2>1
<1>6. Toward(p, b) \in Int /\ Toward(p, b) - Half = 4 * y
  <2>1. Toward(p, b) \in Int /\ Toward(p, b) - Half = e * (4 - b)
    BY <1>1, TowardExactly
  <2> QED  BY <1>3, <2>1
<1>7. Toward(Toward(p, a), b) \in Int /\ Toward(Toward(p, a), b) - Half = x * (4 - b)
  <2> DEFINE t == Toward(p, a)
  <2>1. t \in Int /\ t - Half = 4 * x
    BY <1>5
  <2> HIDE DEF t
  <2>2. Toward(t, b) \in Int /\ Toward(t, b) - Half = x * (4 - b)
    BY <1>3, <2>1, TowardExactly
  <2> QED  BY <2>2 DEF t
<1>8. Toward(Toward(p, b), a) \in Int /\ Toward(Toward(p, b), a) - Half = y * (4 - a)
  <2> DEFINE t == Toward(p, b)
  <2>1. t \in Int /\ t - Half = 4 * y
    BY <1>6
  <2> HIDE DEF t
  <2>2. Toward(t, a) \in Int /\ Toward(t, a) - Half = y * (4 - a)
    BY <1>3, <2>1, TowardExactly
  <2> QED  BY <2>2 DEF t
<1> DEFINE u == Toward(Toward(p, a), b)
           v == Toward(Toward(p, b), a)
<1>9. u \in Int /\ v \in Int /\ u - Half = v - Half
  BY <1>4, <1>7, <1>8
<1> HIDE DEF u, v
<1>10. u = v
  BY <1>9
<1> QED  BY <1>10 DEF u, v

-----------------------------------------------------------------------------
ShrinkRules == {r \in Rule : r.status = "active" /\ r.kind = "shrink_toward_even"}

Outcome == [p : Int, blocked : BOOLEAN]

Fires(r, facts) == r.status = "active" /\ Matches(r, facts)
Shrunk(p, r, facts) == IF Fires(r, facts) /\ r.kind = "shrink_toward_even" THEN Toward(p, r.magnitude) ELSE p
Blocking(r, facts) == Fires(r, facts) /\ r.kind = "block"

LEMMA HalfIsWhole ==
    ASSUME PricingAssumption
    PROVE  Half \in Int /\ \A r \in Rule : r.magnitude \in 0..4
<1>1. Half \in Int
  BY DEF PricingAssumption, Half
<1>2. \A r \in Rule : r.magnitude \in 0..4
  BY DEF PricingAssumption
<1> QED  BY <1>1, <1>2

LEMMA SameOutcome ==
    ASSUME NEW a \in Outcome, NEW b \in Outcome, a.p = b.p, a.blocked = b.blocked
    PROVE  a = b
BY DEF Outcome

LEMMA ShrunkIsWhole ==
    ASSUME PricingAssumption, NEW r \in Rule, NEW facts, NEW p \in Int
    PROVE  Shrunk(p, r, facts) \in Int
<1>1. Half \in Int /\ r.magnitude \in 0..4
  BY HalfIsWhole
<1>2. Toward(p, r.magnitude) \in Int
  <2> DEFINE x == (p - Half) * (4 - r.magnitude)
  <2>1. x \in Int
    BY <1>1
  <2> HIDE DEF x
  <2>2. Half + x \div 4 \in Int
    BY <1>1, <2>1
  <2> QED  BY <2>2 DEF Toward, x
<1> QED  BY <1>2 DEF Shrunk

\* A rule acts on the number and on the block apart.
LEMMA FireIs ==
    ASSUME PricingAssumption, NEW r \in Rule, NEW facts, NEW o \in Outcome
    PROVE  /\ Fire(o, r, facts) \in Outcome
           /\ Fire(o, r, facts).p = Shrunk(o.p, r, facts)
           /\ Fire(o, r, facts).blocked = (o.blocked \/ Blocking(r, facts))
<1>1. o.p \in Int /\ o.blocked \in BOOLEAN
  BY DEF Outcome
<1>2. CASE ~Fires(r, facts)
  <2>1. Fire(o, r, facts) = o
    BY <1>2 DEF Fire, Fires
  <2>2. Shrunk(o.p, r, facts) = o.p /\ ~Blocking(r, facts)
    BY <1>2 DEF Shrunk, Blocking
  <2>3. (o.blocked \/ Blocking(r, facts)) = o.blocked
    BY <1>1, <2>2
  <2> QED  BY <2>1, <2>2, <2>3
<1>3. CASE Fires(r, facts)
  <2> DEFINE to == IF r.kind = "shrink_toward_even" THEN Toward(o.p, r.magnitude) ELSE o.p
             b  == o.blocked \/ r.kind = "block"
  <2>1. Fire(o, r, facts) = [o EXCEPT !.p = to, !.blocked = b]
    BY <1>3 DEF Fire, Fires
  <2>2. Shrunk(o.p, r, facts) = to /\ (Blocking(r, facts) <=> r.kind = "block")
    BY <1>3 DEF Shrunk, Blocking
  <2>3. (o.blocked \/ Blocking(r, facts)) = b
    BY <1>1, <2>2
  <2>4. to \in Int /\ b \in BOOLEAN
    <3>1. Shrunk(o.p, r, facts) \in Int
      BY <1>1, ShrunkIsWhole
    <3>2. b \in BOOLEAN
      OBVIOUS
    <3> HIDE DEF to
    <3> QED  BY <2>2, <3>1, <3>2
  <2> HIDE DEF to, b
  <2>5. /\ [o EXCEPT !.p = to, !.blocked = b] \in Outcome
        /\ [o EXCEPT !.p = to, !.blocked = b].p = to
        /\ [o EXCEPT !.p = to, !.blocked = b].blocked = b
    BY <2>4 DEF Outcome
  <2> QED  BY <2>1, <2>2, <2>3, <2>5
<1> QED  BY <1>2, <1>3

\* An outcome whose number can be shrunk exactly so many times more.
IsExact(o, times) == o \in Outcome /\ IsQuartered(o.p - Half, times)

\* The shrinks that are left when some rules are done.
Left(done) == Cardinality(ShrinkRules \ done)

LEMMA LeftCounts ==
    ASSUME PricingAssumption, NEW done, NEW r \in Rule, r \notin done
    PROVE  /\ Left(done) \in Nat /\ Left(done \cup {r}) \in Nat
           /\ r \in ShrinkRules => Left(done) # 0 /\ Left(done \cup {r}) = Left(done) - 1
           /\ r \notin ShrinkRules => Left(done \cup {r}) = Left(done)
<1> DEFINE S == ShrinkRules \ done
<1>1. IsFiniteSet(Rule) /\ S \in SUBSET Rule
  BY DEF PricingAssumption, ShrinkRules
<1>2. IsFiniteSet(S)
  <2> HIDE DEF S
  <2> QED  BY <1>1, FS_Subset
<1>3. ShrinkRules \ (done \cup {r}) = S \ {r}
  OBVIOUS
<1>4. r \in ShrinkRules <=> r \in S
  OBVIOUS
<1>5. Left(done) = Cardinality(S) /\ Left(done \cup {r}) = Cardinality(S \ {r})
  BY <1>3 DEF Left
<1> HIDE DEF S
<1>6. IsFiniteSet(S \ {r}) /\ Cardinality(S \ {r}) = IF r \in S THEN Cardinality(S) - 1 ELSE Cardinality(S)
  BY <1>2, FS_RemoveElement
<1>7. Cardinality(S) \in Nat /\ Cardinality(S \ {r}) \in Nat
  BY <1>2, <1>6, FS_CardinalityType
<1> QED  BY <1>4, <1>5, <1>6, <1>7

\* A rule that fires uses up one shrink at most.
LEMMA FireStaysExact ==
    ASSUME PricingAssumption, NEW done, NEW r \in Rule, r \notin done, NEW facts,
           NEW o, IsExact(o, Left(done))
    PROVE  IsExact(Fire(o, r, facts), Left(done \cup {r}))
<1>1. o \in Outcome /\ o.p \in Int /\ o.blocked \in BOOLEAN /\ IsQuartered(o.p - Half, Left(done))
  BY DEF IsExact, Outcome
<1> DEFINE to == Shrunk(o.p, r, facts)
<1>2. Fire(o, r, facts) \in Outcome /\ Fire(o, r, facts).p = to
  BY <1>1, FireIs
<1>3. to \in Int /\ IsQuartered(to - Half, Left(done \cup {r}))
  <2>1. CASE r \in ShrinkRules /\ to = Toward(o.p, r.magnitude)
    <3>1. Left(done) \in Nat \ {0} /\ Left(done \cup {r}) = Left(done) - 1
      BY <2>1, LeftCounts
    <3>2. r.magnitude \in 0..4 /\ Half \in Int
      BY HalfIsWhole
    <3> DEFINE n == o.p
               left == Left(done)
    <3>3. n \in Int /\ left \in Nat \ {0} /\ IsQuartered(n - Half, left)
      BY <1>1, <3>1
    <3> HIDE DEF n, left
    <3>4. Toward(n, r.magnitude) \in Int /\ IsQuartered(Toward(n, r.magnitude) - Half, left - 1)
      BY <3>2, <3>3, TowardLeavesQuarters
    <3> HIDE DEF to
    <3> QED  BY <2>1, <3>1, <3>4 DEF n, left
  <2>2. CASE to = o.p
    <3>1. Left(done) \in Nat /\ Left(done \cup {r}) \in 0..Left(done)
      BY LeftCounts
    <3> HIDE DEF to
    <3> QED  BY <1>1, <2>2, <3>1, QuarterLess
  <2> QED  BY <2>1, <2>2 DEF Shrunk, Fires, ShrinkRules
<1> HIDE DEF to
<1> QED  BY <1>2, <1>3 DEF IsExact

\* Two rules that are still to come may come in either order.
LEMMA FiresCommute ==
    ASSUME PricingAssumption, NEW done, NEW r \in Rule, NEW s \in Rule, r # s, r \notin done, s \notin done,
           NEW facts, NEW o, IsExact(o, Left(done))
    PROVE  Fire(Fire(o, r, facts), s, facts) = Fire(Fire(o, s, facts), r, facts)
<1>1. o \in Outcome /\ o.p \in Int /\ o.blocked \in BOOLEAN /\ IsQuartered(o.p - Half, Left(done))
  BY DEF IsExact, Outcome
<1>2. Fire(o, r, facts) \in Outcome /\ Fire(o, s, facts) \in Outcome
  BY FireStaysExact DEF IsExact
<1> DEFINE x == Shrunk(o.p, r, facts)
           y == Shrunk(o.p, s, facts)
           b == o.blocked \/ Blocking(r, facts)
           c == o.blocked \/ Blocking(s, facts)
<1>3. /\ Fire(o, r, facts).p = x /\ Fire(o, r, facts).blocked = b
      /\ Fire(o, s, facts).p = y /\ Fire(o, s, facts).blocked = c
  BY <1>1, FireIs
<1>4. /\ Fire(Fire(o, r, facts), s, facts) \in Outcome
      /\ Fire(Fire(o, r, facts), s, facts).p = Shrunk(x, s, facts)
      /\ Fire(Fire(o, r, facts), s, facts).blocked = (b \/ Blocking(s, facts))
      /\ Fire(Fire(o, s, facts), r, facts) \in Outcome
      /\ Fire(Fire(o, s, facts), r, facts).p = Shrunk(y, r, facts)
      /\ Fire(Fire(o, s, facts), r, facts).blocked = (c \/ Blocking(r, facts))
  <2> DEFINE or == Fire(o, r, facts)
             os == Fire(o, s, facts)
  <2>1. or \in Outcome /\ os \in Outcome /\ or.p = x /\ or.blocked = b /\ os.p = y /\ os.blocked = c
    BY <1>2, <1>3
  <2> HIDE DEF or, os, x, y, b, c
  <2>2. /\ Fire(or, s, facts) \in Outcome /\ Fire(or, s, facts).p = Shrunk(or.p, s, facts)
        /\ Fire(or, s, facts).blocked = (or.blocked \/ Blocking(s, facts))
    BY <2>1, FireIs
  <2>3. /\ Fire(os, r, facts) \in Outcome /\ Fire(os, r, facts).p = Shrunk(os.p, r, facts)
        /\ Fire(os, r, facts).blocked = (os.blocked \/ Blocking(r, facts))
    BY <2>1, FireIs
  <2>4. /\ Fire(or, s, facts) \in Outcome /\ Fire(or, s, facts).p = Shrunk(x, s, facts)
        /\ Fire(or, s, facts).blocked = (b \/ Blocking(s, facts))
    BY <2>1, <2>2
  <2>5. /\ Fire(os, r, facts) \in Outcome /\ Fire(os, r, facts).p = Shrunk(y, r, facts)
        /\ Fire(os, r, facts).blocked = (c \/ Blocking(r, facts))
    BY <2>1, <2>3
  <2> QED  BY <2>4, <2>5 DEF or, os
<1>5. (b \/ Blocking(s, facts)) = (c \/ Blocking(r, facts))
  BY <1>1
<1>6. Shrunk(x, s, facts) = Shrunk(y, r, facts)
  <2>1. CASE ~(Fires(r, facts) /\ r.kind = "shrink_toward_even")
    BY <2>1 DEF Shrunk
  <2>2. CASE ~(Fires(s, facts) /\ s.kind = "shrink_toward_even")
    BY <2>2 DEF Shrunk
  <2>3. CASE /\ Fires(r, facts) /\ r.kind = "shrink_toward_even"
             /\ Fires(s, facts) /\ s.kind = "shrink_toward_even"
    <3>1. r \in ShrinkRules /\ s \in ShrinkRules
      BY <2>3 DEF Fires, ShrinkRules
    <3>2. /\ Left(done) \in Nat /\ Left(done) # 0 /\ Left(done \cup {r}) = Left(done) - 1
          /\ Left(done \cup {r}) # 0 /\ Left(done \cup {r}) \in Nat
      <4>1. s \notin done \cup {r}
        OBVIOUS
      <4> QED  BY <3>1, <4>1, LeftCounts
    <3>3. 2 \in 0..Left(done)
      BY <3>2
    <3>4. IsQuartered(o.p - Half, 2)
      BY <1>1, <3>2, <3>3, QuarterLess
    <3>5. r.magnitude \in 0..4 /\ s.magnitude \in 0..4 /\ Half \in Int
      BY HalfIsWhole
    <3>6. /\ Shrunk(x, s, facts) = Toward(Toward(o.p, r.magnitude), s.magnitude)
          /\ Shrunk(y, r, facts) = Toward(Toward(o.p, s.magnitude), r.magnitude)
      BY <2>3 DEF Shrunk
    <3> QED  BY <1>1, <3>4, <3>5, <3>6, TowardsCommute
  <2> QED  BY <2>1, <2>2, <2>3
<1> HIDE DEF x, y, b, c
<1> QED  BY <1>4, <1>5, <1>6, SameOutcome

-----------------------------------------------------------------------------
\* Some rules, each once.
Arranges(order, n) ==
    /\ order \in [1..n -> Rule]
    /\ \A i, j \in 1..n : i # j => order[i] # order[j]

Done(order, k) == {order[j] : j \in 1..k}

\* after is what AfterRules recurses over.
Path(after, n, order, start, facts) ==
    /\ after[0] = start
    /\ \A k \in 1..n : after[k] = Fire(after[k - 1], order[k], facts)

LEMMA DoneGrows ==
    ASSUME NEW n \in Nat, NEW order, Arranges(order, n), NEW k \in Nat, k + 1 \in 1..n
    PROVE  /\ Done(order, k + 1) = Done(order, k) \cup {order[k + 1]}
           /\ order[k + 1] \in Rule /\ order[k + 1] \notin Done(order, k)
<1>1. 1..(k + 1) = 1..k \cup {k + 1} /\ \A j \in 1..k : j \in 1..n /\ j # k + 1
  OBVIOUS
<1>2. Done(order, k + 1) = Done(order, k) \cup {order[k + 1]}
  BY <1>1 DEF Done
<1>3. order[k + 1] \in Rule
  BY DEF Arranges
<1>4. \A j \in 1..k : order[j] # order[k + 1]
  BY <1>1 DEF Arranges
<1> QED  BY <1>2, <1>3, <1>4 DEF Done

LEMMA PathIsExact ==
    ASSUME PricingAssumption, NEW n \in Nat, NEW order, Arranges(order, n), NEW start, NEW facts,
           IsExact(start, Left({})), NEW after, Path(after, n, order, start, facts)
    PROVE  \A k \in 0..n : IsExact(after[k], Left(Done(order, k)))
<1> DEFINE Ok(k) == k <= n => IsExact(after[k], Left(Done(order, k)))
           S == {k \in Nat : Ok(k)}
<1>1. Ok(0)
  <2>1. Done(order, 0) = {}
    BY DEF Done
  <2> QED  BY <2>1 DEF Path
<1>2. ASSUME NEW k \in Nat, Ok(k)
      PROVE  Ok(k + 1)
  <2> SUFFICES ASSUME k + 1 <= n
               PROVE  IsExact(after[k + 1], Left(Done(order, k + 1)))
    OBVIOUS
  <2>1. k + 1 \in 1..n /\ (k + 1) - 1 = k /\ k <= n
    OBVIOUS
  <2>2. IsExact(after[k], Left(Done(order, k)))
    BY <1>2, <2>1
  <2>3. after[k + 1] = Fire(after[k], order[k + 1], facts)
    BY <2>1 DEF Path
  <2>4. /\ Done(order, k + 1) = Done(order, k) \cup {order[k + 1]}
        /\ order[k + 1] \in Rule /\ order[k + 1] \notin Done(order, k)
    BY <2>1, DoneGrows
  <2> QED  BY <2>2, <2>3, <2>4, FireStaysExact
<1> HIDE DEF Ok
<1>3. S \in SUBSET Nat /\ 0 \in S /\ \A k \in S : k + 1 \in S
  BY <1>1, <1>2
<1>4. S = Nat
  <2> HIDE DEF S
  <2> QED  BY <1>3, AllOfNat
<1>5. \A k \in Nat : Ok(k)
  BY <1>4
<1> QED  BY <1>5 DEF Ok

\* order with its i-th rule moved to the end.
IsMoved(moved, order, n, i) == \A k \in 1..n + 1 :
    moved[k] = IF k < i THEN order[k] ELSE IF k <= n THEN order[k + 1] ELSE order[i]

\* A rule may as well come last.
LEMMA MovedLast ==
    ASSUME PricingAssumption, NEW n \in Nat, NEW order, NEW moved, Arranges(order, n + 1), Arranges(moved, n + 1),
           NEW i \in 1..n + 1, IsMoved(moved, order, n, i), NEW start, NEW facts, IsExact(start, Left({})),
           NEW f, Path(f, n + 1, order, start, facts), NEW h, Path(h, n + 1, moved, start, facts)
    PROVE  f[n + 1] = h[n + 1]
<1> DEFINE r == order[i]
           Same(k) == k < i => h[k] = f[k]
           S == {k \in Nat : Same(k)}
           Later(k) == (i - 1) + k <= n => Fire(h[(i - 1) + k], r, facts) = f[i + k]
           T == {k \in Nat : Later(k)}
<1>0. n + 1 \in Nat /\ i \in Nat /\ i - 1 \in Nat /\ i <= n + 1
  OBVIOUS
<1>1. Same(0)
  BY DEF Path
<1>2. ASSUME NEW k \in Nat, Same(k)
      PROVE  Same(k + 1)
  <2> SUFFICES ASSUME k + 1 < i
               PROVE  h[k + 1] = f[k + 1]
    OBVIOUS
  <2>1. k + 1 \in 1..n + 1 /\ (k + 1) - 1 = k /\ k < i
    BY <1>0
  <2>2. moved[k + 1] = order[k + 1]
    BY <2>1 DEF IsMoved
  <2>3. h[k] = f[k]
    BY <1>2, <2>1
  <2>4. h[k + 1] = Fire(h[k], moved[k + 1], facts) /\ f[k + 1] = Fire(f[k], order[k + 1], facts)
    BY <2>1 DEF Path
  <2> QED  BY <2>2, <2>3, <2>4
<1>3. \A k \in Nat : Same(k)
  <2> HIDE DEF Same
  <2>0. Same(0) /\ \A k \in Nat : Same(k) => Same(k + 1)
    BY <1>1, <1>2
  <2>1. S \in SUBSET Nat /\ 0 \in S /\ \A k \in S : k + 1 \in S
    BY ONLY <2>0 DEF S
  <2>2. S = Nat
    <3> HIDE DEF S
    <3> QED  BY <2>1, AllOfNat
  <2> QED  BY <2>2
<1>4. Later(0)
  <2>1. h[i - 1] = f[i - 1]
    BY <1>0, <1>3
  <2>2. f[i] = Fire(f[i - 1], r, facts)
    BY DEF Path
  <2>3. (i - 1) + 0 = i - 1 /\ i + 0 = i
    BY <1>0
  <2> QED  BY <2>1, <2>2, <2>3
<1>5. ASSUME NEW k \in Nat, Later(k)
      PROVE  Later(k + 1)
  <2> DEFINE c == (i - 1) + k
  <2> SUFFICES ASSUME (i - 1) + (k + 1) <= n
               PROVE  Fire(h[(i - 1) + (k + 1)], r, facts) = f[i + (k + 1)]
    OBVIOUS
  <2>1. /\ c \in Nat /\ c + 1 \in 1..n /\ c + 1 \in 1..n + 1 /\ c + 2 \in 1..n + 1 /\ c \in 0..n + 1
        /\ (i - 1) + (k + 1) = c + 1 /\ i + (k + 1) = c + 2 /\ i + k = c + 1 /\ c <= n
        /\ (c + 1) - 1 = c /\ (c + 2) - 1 = c + 1 /\ (c + 1) + 1 = c + 2 /\ ~(c + 1 < i) /\ c + 1 <= n
        /\ n + 1 \in 1..n + 1 /\ ~(n + 1 < i) /\ ~(n + 1 <= n) /\ c + 1 # n + 1
    BY <1>0
  <2>2. Fire(h[c], r, facts) = f[c + 1]
    BY <1>5, <2>1
  <2> HIDE DEF c
  <2> DEFINE s == order[c + 2]
  <2>3. moved[c + 1] = s /\ moved[n + 1] = r
    BY <2>1 DEF IsMoved
  <2>4. h[c + 1] = Fire(h[c], s, facts) /\ f[c + 2] = Fire(f[c + 1], s, facts)
    BY <2>1, <2>3 DEF Path
  <2>5. IsExact(h[c], Left(Done(moved, c)))
    BY <1>0, <2>1, PathIsExact
  <2>6. s \in Rule /\ r \in Rule /\ s # r /\ s \notin Done(moved, c) /\ r \notin Done(moved, c)
    <3>1. \A j \in 1..c : j \in 1..n + 1 /\ j # c + 1 /\ j # n + 1
      BY <2>1
    <3>2. \A j \in 1..c : moved[j] # s /\ moved[j] # r
      BY <2>1, <2>3, <3>1 DEF Arranges
    <3>3. s \in Rule /\ r \in Rule /\ s # r
      BY <2>1, <2>3 DEF Arranges
    <3> QED  BY <3>2, <3>3 DEF Done
  <2> HIDE DEF r, s
  <2>7. Fire(Fire(h[c], r, facts), s, facts) = Fire(Fire(h[c], s, facts), r, facts)
    BY <2>5, <2>6, FiresCommute
  <2> QED  BY <2>1, <2>2, <2>4, <2>7
<1>6. \A k \in Nat : Later(k)
  <2> HIDE DEF Later
  <2>0. Later(0) /\ \A k \in Nat : Later(k) => Later(k + 1)
    BY <1>4, <1>5
  <2>1. T \in SUBSET Nat /\ 0 \in T /\ \A k \in T : k + 1 \in T
    BY ONLY <2>0 DEF T
  <2>2. T = Nat
    <3> HIDE DEF T
    <3> QED  BY <2>1, AllOfNat
  <2> QED  BY <2>2
<1>7. Fire(h[n], r, facts) = f[n + 1]
  <2>1. n + 1 - i \in Nat /\ (i - 1) + (n + 1 - i) = n /\ i + (n + 1 - i) = n + 1
    BY <1>0
  <2>2. Later(n + 1 - i)
    BY <1>6, <2>1
  <2>3. Fire(h[(i - 1) + (n + 1 - i)], r, facts) = f[i + (n + 1 - i)]
    BY <2>1, <2>2
  <2> HIDE DEF r
  <2> QED  BY <2>1, <2>3
<1>8. h[n + 1] = Fire(h[n], r, facts)
  <2>1. n + 1 \in 1..n + 1 /\ (n + 1) - 1 = n /\ ~(n + 1 < i) /\ ~(n + 1 <= n)
    BY <1>0
  <2>2. moved[n + 1] = r
    BY <2>1 DEF IsMoved
  <2> QED  BY <2>1, <2>2 DEF Path
<1> QED  BY <1>7, <1>8

\* What is before the last of an order.
AllButLast(order, n) == [k \in 1..n |-> order[k]]

LEMMA FrontIs ==
    ASSUME NEW n \in Nat, NEW order, Arranges(order, n + 1)
    PROVE  /\ Arranges(AllButLast(order, n), n)
           /\ Done(AllButLast(order, n), n) = Done(order, n + 1) \ {order[n + 1]}
           /\ \A k \in 1..n : AllButLast(order, n)[k] = order[k]
<1>1. 1..(n + 1) = 1..n \cup {n + 1} /\ \A j \in 1..n : j \in 1..n + 1 /\ j # n + 1
  OBVIOUS
<1>2. Arranges(AllButLast(order, n), n)
  BY <1>1 DEF Arranges, AllButLast
<1>3. Done(AllButLast(order, n), n) = {order[j] : j \in 1..n}
  BY DEF Done, AllButLast
<1>4. n + 1 \in 1..n + 1 /\ \A j \in 1..n : order[j] # order[n + 1]
  BY <1>1 DEF Arranges
<1>5. \A j \in 1..n + 1 : j \in 1..n \/ j = n + 1
  BY <1>1
<1>6. {order[j] : j \in 1..n} = Done(order, n + 1) \ {order[n + 1]}
  BY <1>1, <1>4, <1>5 DEF Done
<1> QED  BY <1>2, <1>3, <1>6 DEF AllButLast

LEMMA PathFront ==
    ASSUME NEW n \in Nat, NEW order, NEW after, NEW start, NEW facts,
           Path(after, n + 1, order, start, facts)
    PROVE  Path(after, n, AllButLast(order, n), start, facts)
<1>1. \A k \in 1..n : k \in 1..n + 1
  OBVIOUS
<1> QED  BY <1>1 DEF Path, AllButLast

\* The i-th rule of an order can be moved to its end.
LEMMA CanBeMoved ==
    ASSUME NEW n \in Nat, NEW order, Arranges(order, n + 1), NEW i \in 1..n + 1
    PROVE  \E moved : /\ Arranges(moved, n + 1) /\ IsMoved(moved, order, n, i)
                      /\ Done(moved, n + 1) = Done(order, n + 1) /\ moved[n + 1] = order[i]
<1> DEFINE from(k) == IF k < i THEN k ELSE IF k <= n THEN k + 1 ELSE i
           moved   == [k \in 1..n + 1 |-> order[from(k)]]
<1>0. i \in Nat /\ n + 1 \in 1..n + 1 /\ i <= n + 1
  OBVIOUS
<1>1. \A k \in 1..n + 1 : from(k) \in 1..n + 1
  BY <1>0
<1>2. \A j, k \in 1..n + 1 : j # k => from(j) # from(k)
  BY <1>0
<1>3. \A j \in 1..n + 1 : \E k \in 1..n + 1 : from(k) = j
  <2> SUFFICES ASSUME NEW j \in 1..n + 1
               PROVE  \E k \in 1..n + 1 : from(k) = j
    OBVIOUS
  <2>1. CASE j < i
    BY <2>1
  <2>2. CASE j = i
    <3>1. from(n + 1) = j
      BY <1>0, <2>2
    <3> QED  BY <1>0, <3>1
  <2>3. CASE i < j
    <3>1. j - 1 \in 1..n + 1 /\ from(j - 1) = j
      BY <1>0, <2>3
    <3> QED  BY <3>1
  <2> QED  BY <1>0, <2>1, <2>2, <2>3
<1>4. from(n + 1) = i
  BY <1>0
<1>5. \A k \in 1..n + 1 :
        order[from(k)] = IF k < i THEN order[k] ELSE IF k <= n THEN order[k + 1] ELSE order[i]
  OBVIOUS
<1> HIDE DEF from
<1>6. Arranges(moved, n + 1)
  BY <1>1, <1>2 DEF Arranges
<1>7. IsMoved(moved, order, n, i)
  BY <1>5 DEF IsMoved
<1>8. Done(moved, n + 1) = Done(order, n + 1)
  <2>1. \A k \in 1..n + 1 : moved[k] = order[from(k)]
    OBVIOUS
  <2> HIDE DEF moved
  <2>2. \A k \in 1..n + 1 : \E j \in 1..n + 1 : moved[k] = order[j]
    BY <1>1, <2>1
  <2>3. \A j \in 1..n + 1 : \E k \in 1..n + 1 : order[j] = moved[k]
    BY <1>3, <2>1
  <2> QED  BY <2>2, <2>3 DEF Done
<1>9. moved[n + 1] = order[i]
  BY <1>0, <1>4
<1> HIDE DEF moved
<1> QED  BY <1>6, <1>7, <1>8, <1>9

LEMMA PathExists ==
    ASSUME NEW n \in Nat, NEW order, NEW start, NEW facts
    PROVE  \E after : Path(after, n, order, start, facts)
<1>1. PICK after : Turns(after, n, order, start, facts)
  BY TurnsExist
<1>2. \A k \in 0..n : after[k] = IF k = 0 THEN start ELSE Fire(after[k - 1], order[k], facts)
  BY <1>1 DEF Turns
<1>3. Path(after, n, order, start, facts)
  BY <1>2 DEF Path
<1> QED  BY <1>3

\* However the same rules are arranged, they come to the same.
Agree(n, start, facts) == \A u, v, f, h :
    /\ Arranges(u, n) /\ Arranges(v, n) /\ Done(u, n) = Done(v, n)
    /\ Path(f, n, u, start, facts) /\ Path(h, n, v, start, facts)
    => f[n] = h[n]

LEMMA OneMoreAgrees ==
    ASSUME PricingAssumption, NEW n \in Nat, NEW start, NEW facts, IsExact(start, Left({})),
           Agree(n, start, facts)
    PROVE  Agree(n + 1, start, facts)
<1> SUFFICES ASSUME NEW u, NEW v, NEW f, NEW h, Arranges(u, n + 1), Arranges(v, n + 1),
                    Done(u, n + 1) = Done(v, n + 1),
                    Path(f, n + 1, u, start, facts), Path(h, n + 1, v, start, facts)
             PROVE  f[n + 1] = h[n + 1]
  BY DEF Agree
<1>1. n + 1 \in 1..n + 1 /\ n + 1 \in Nat /\ (n + 1) - 1 = n
  OBVIOUS
<1>2. PICK i \in 1..n + 1 : u[i] = v[n + 1]
  BY <1>1 DEF Done
<1>3. PICK w : /\ Arranges(w, n + 1) /\ IsMoved(w, u, n, i)
               /\ Done(w, n + 1) = Done(u, n + 1) /\ w[n + 1] = u[i]
  BY CanBeMoved
<1>4. PICK g : Path(g, n + 1, w, start, facts)
  BY <1>1, PathExists
<1>5. f[n + 1] = g[n + 1]
  BY <1>3, <1>4, MovedLast
<1>6. g[n] = h[n]
  <2>1. /\ Arranges(AllButLast(w, n), n) /\ Arranges(AllButLast(v, n), n)
        /\ Done(AllButLast(w, n), n) = Done(AllButLast(v, n), n)
    <3>1. /\ Arranges(AllButLast(w, n), n)
          /\ Done(AllButLast(w, n), n) = Done(w, n + 1) \ {w[n + 1]}
      BY <1>3, FrontIs
    <3>2. /\ Arranges(AllButLast(v, n), n)
          /\ Done(AllButLast(v, n), n) = Done(v, n + 1) \ {v[n + 1]}
      BY FrontIs
    <3> QED  BY <1>2, <1>3, <3>1, <3>2
  <2>2. Path(g, n, AllButLast(w, n), start, facts) /\ Path(h, n, AllButLast(v, n), start, facts)
    BY <1>4, PathFront
  <2> QED  BY <2>1, <2>2 DEF Agree
<1>7. g[n + 1] = Fire(g[n], w[n + 1], facts) /\ h[n + 1] = Fire(h[n], v[n + 1], facts)
  BY <1>1, <1>4 DEF Path
<1> QED  BY <1>2, <1>3, <1>5, <1>6, <1>7

LEMMA AllAgree ==
    ASSUME PricingAssumption, NEW start, NEW facts, IsExact(start, Left({}))
    PROVE  \A n \in Nat : Agree(n, start, facts)
<1> DEFINE S == {n \in Nat : Agree(n, start, facts)}
<1>1. Agree(0, start, facts)
  BY DEF Agree, Path
<1>2. S \in SUBSET Nat /\ 0 \in S /\ \A n \in S : n + 1 \in S
  BY <1>1, OneMoreAgrees
<1>3. S = Nat
  <2> HIDE DEF S
  <2> QED  BY <1>2, AllOfNat
<1> QED  BY <1>3

\* An order of the engine's, or of anybody's, arranges all the rules.
LEMMA OrdersArrangeAll ==
    ASSUME PricingAssumption, NEW order \in Orders
    PROVE  /\ Cardinality(Rule) \in Nat /\ Len(order) = Cardinality(Rule)
           /\ Arranges(order, Cardinality(Rule)) /\ Done(order, Cardinality(Rule)) = Rule
<1> DEFINE n == Cardinality(Rule)
<1>1. n \in Nat /\ IsFiniteSet(Rule)
  BY FS_CardinalityType DEF PricingAssumption
<1>2. order \in [1..n -> Rule] /\ \A i, j \in 1..n : i # j => order[i] # order[j]
  BY DEF Orders, SetToSeqs
<1> HIDE DEF n
<1>3. Len(order) = n
  BY <1>1, <1>2
<1>4. order \in Injection(1..n, Rule)
  BY <1>2 DEF Injection, IsInjective
<1>5. Cardinality(1..n) = n
  <2>1. 1 \in Int /\ n \in Int
    BY <1>1
  <2>2. Cardinality(1..n) = IF 1 > n THEN 0 ELSE n - 1 + 1
    BY <2>1, FS_Interval
  <2> QED  BY <1>1, <2>2
<1>6. order \in Surjection(1..n, Rule)
  BY <1>1, <1>4, <1>5, FS_Injection DEF n
<1>7. \A r \in Rule : \E j \in 1..n : order[j] = r
  BY <1>6 DEF Surjection
<1>8. Done(order, n) = Rule
  BY <1>2, <1>7 DEF Done
<1> QED  BY <1>1, <1>2, <1>3, <1>8 DEF Arranges, n

\* AfterRules is where such a path ends.
LEMMA AfterRulesIs ==
    ASSUME NEW n \in Nat, NEW order, Len(order) = n, NEW p, NEW facts
    PROVE  \E after : /\ Path(after, n, order, [p |-> p, blocked |-> FALSE], facts)
                      /\ AfterRules(order, p, facts) = after[n]
<1> DEFINE start == [p |-> p, blocked |-> FALSE]
           after == CHOOSE f : f = [k \in 0..n |-> IF k = 0 THEN start
                                                   ELSE Fire(f[k - 1], order[k], facts)]
<1>1. AfterRules(order, p, facts) = after[n]
  BY DEF AfterRules
<1>2. Turns(after, n, order, start, facts)
  <2> HIDE DEF start
  <2>1. \E f : Turns(f, n, order, start, facts)
    BY TurnsExist
  <2>2. Turns(CHOOSE f : Turns(f, n, order, start, facts), n, order, start, facts)
    BY <2>1, Zenon
  <2>3. after = CHOOSE f : Turns(f, n, order, start, facts)
    BY DEF Turns
  <2> QED  BY <2>2, <2>3
<1> HIDE DEF start, after
<1>3. \A k \in 0..n : after[k] = IF k = 0 THEN start ELSE Fire(after[k - 1], order[k], facts)
  BY <1>2 DEF Turns
<1>4. Path(after, n, order, start, facts)
  BY <1>3 DEF Path
<1> QED  BY <1>1, <1>4 DEF start

\* Every number the scorer may answer can be shrunk exactly by all the approved
\* shrinks: the unit is fine enough. In the code the number is a float.
UnitIsFine == \A q \in Quote : \A s \in Scores[q] :
    IsQuartered(Selected(s) - Half, Cardinality(ShrinkRules))

LEMMA OrdersComeToTheSame ==
    ASSUME PricingAssumption, NEW p \in 0..One, IsQuartered(p - Half, Cardinality(ShrinkRules)),
           NEW order \in Orders, NEW other \in Orders, NEW facts
    PROVE  AfterRules(order, p, facts) = AfterRules(other, p, facts)
<1> DEFINE start == [p |-> p, blocked |-> FALSE]
           n == Cardinality(Rule)
<1>1. IsExact(start, Left({}))
  <2>1. ShrinkRules \ {} = ShrinkRules
    OBVIOUS
  <2>2. Left({}) = Cardinality(ShrinkRules)
    BY <2>1 DEF Left
  <2>3. start \in Outcome /\ start.p = p
    BY DEF Outcome, PricingAssumption
  <2> QED  BY <2>2, <2>3 DEF IsExact
<1>2. /\ n \in Nat /\ Len(order) = n /\ Len(other) = n /\ Arranges(order, n) /\ Arranges(other, n)
      /\ Done(order, n) = Done(other, n)
  BY OrdersArrangeAll
<1> HIDE DEF n
<1>3. PICK f : Path(f, n, order, start, facts) /\ AfterRules(order, p, facts) = f[n]
  BY <1>2, AfterRulesIs
<1>4. PICK h : Path(h, n, other, start, facts) /\ AfterRules(other, p, facts) = h[n]
  BY <1>2, AfterRulesIs
<1> HIDE DEF start
<1>5. Agree(n, start, facts)
  BY <1>1, <1>2, AllAgree
<1> QED  BY <1>2, <1>3, <1>4, <1>5 DEF Agree

\* "Composition converges instead of oscillating": any order of the rules leaves
\* the same number and the same block as the engine's, for every set of rules,
\* as long as the arithmetic of the shrinks is exact.
THEOREM RuleOrderDoesNotMatter ==
    ASSUME UnitIsFine PROVE EntriesSpec => []RuleOrderIsImmaterial
<1>1. TurnInv => RuleOrderIsImmaterial
  <2> SUFFICES ASSUME TurnInv, stage = "scored", NEW order \in Orders
               PROVE  LET facts == Facts(work.p, work.given)
                      IN  AfterRules(order, work.p, facts) = AfterRules(InOrder, work.p, facts)
    BY DEF RuleOrderIsImmaterial
  <2>1. next \in 0..Len(Queue) /\ next < Len(Queue) /\ work.score \in Scores[Current]
        /\ work.p = Selected(work.score) /\ work \in Numbers
    BY DEF TurnInv
  <2>2. Current \in Quote
    BY <2>1, PricingAssumption, CurrentIsAQuote
  <2>3. work.p \in 0..One
    BY <2>1 DEF Numbers
  <2>4. IsQuartered(work.p - Half, Cardinality(ShrinkRules))
    BY <2>1, <2>2 DEF UnitIsFine
  <2>5. InOrder \in Orders
    <3>1. \E o \in Orders : \A i, j \in DOMAIN o : i < j => Before(o[i], o[j])
      BY PricingAssumption, RulesCanBeSorted DEF Orders
    <3> QED  BY <3>1 DEF InOrder
  <2> QED  BY <2>3, <2>4, <2>5, PricingAssumption, OrdersComeToTheSame
<1> QED  BY <1>1, TurnsAreInOrder, PTL

(***************************************************************************)
(* What tickets of qualified legs are worth.                               *)
(*                                                                         *)
(* A fold over a finite set has a value because a smallest set without one *)
(* would have one.  A sum may take its elements in any order; the pmf of a *)
(* ticket is built in the one order FoldSet chooses.  A ticket is compared *)
(* leg by leg with one of legs that just reach the gate: folding the last  *)
(* leg into the pmf is folding it into what the counts pay, and of what    *)
(* rises with the count a better leg makes more.                           *)
(***************************************************************************)
(* Folds over finite sets, and sums.                                       *)

\* What holds of nothing and of a set whenever it holds of it less any element
\* holds of every part of a finite set: the smallest on which it would fail.
LEMMA PartsInduction ==
    ASSUME NEW S, IsFiniteSet(S), NEW Good, {} \in Good,
           \A s \in SUBSET S : s # {} /\ (\A x \in s : s \ {x} \in Good) => s \in Good
    PROVE  \A s \in SUBSET S : s \in Good
<1> DEFINE Bad == {s \in SUBSET S : s \notin Good}
           Sizes == {Cardinality(s) : s \in Bad}
<1>1. \A s \in SUBSET S : IsFiniteSet(s) /\ Cardinality(s) \in Nat
  BY FS_Subset, FS_CardinalityType
<1>2. ASSUME Bad # {}
      PROVE  FALSE
  <2>1. Sizes \in SUBSET Nat /\ Sizes # {}
    BY <1>1, <1>2
  <2>2. PICK t \in Sizes : \A y \in Sizes : t <= y
    <3> HIDE DEF Sizes
    <3> QED  BY <2>1, LeastOfNat
  <2>3. PICK s \in Bad : t = Cardinality(s)
    BY <2>2
  <2>4. s \in SUBSET S /\ s \notin Good /\ IsFiniteSet(s) /\ Cardinality(s) \in Nat /\ s # {}
    BY <1>1, <2>3
  <2>5. ASSUME NEW x \in s
        PROVE  s \ {x} \in Good
    <3>1. Cardinality(s \ {x}) = Cardinality(s) - 1
      BY <2>4, FS_RemoveElement
    <3>2. ASSUME s \ {x} \in Bad
          PROVE  FALSE
      <4>1. Cardinality(s \ {x}) \in Sizes
        BY <3>2
      <4>2. Cardinality(s) <= Cardinality(s \ {x})
        <5> HIDE DEF Sizes
        <5> QED  BY <2>2, <2>3, <4>1
      <4> QED  BY ONLY <2>4, <3>1, <4>2
    <3>3. s \ {x} \in SUBSET S
      BY <2>4
    <3> QED  BY <3>2, <3>3
  <2> QED  BY <2>4, <2>5
<1> QED  BY <1>2

\* What a fold is that takes the elements of S as pick says.
IsFold(iter, S, base, pick, st) ==
    \A s \in SUBSET S : iter[s] = IF s = {} THEN base ELSE st[pick[s]][iter[s \ {pick[s]}]]

\* It exists: on the parts of up to n elements, for every n.
LEMMA FoldExists ==
    ASSUME NEW S, IsFiniteSet(S), NEW V, NEW base \in V, NEW pick, NEW st,
           \A s \in SUBSET S : s # {} => pick[s] \in s,
           \A x \in S : \A v \in V : st[x][v] \in V
    PROVE  \E iter \in [SUBSET S -> V] : IsFold(iter, S, base, pick, st)
<1> DEFINE Level(n) == {s \in SUBSET S : Cardinality(s) <= n}
           StepOf(g, s) == IF s = {} THEN base ELSE st[pick[s]][g[s \ {pick[s]}]]
           Reached == {n \in Nat : \E g \in [Level(n) -> V] : \A s \in Level(n) : g[s] = StepOf(g, s)}
<1>1. \A s \in SUBSET S : IsFiniteSet(s) /\ Cardinality(s) \in Nat /\ (Cardinality(s) = 0 <=> s = {})
  BY FS_Subset, FS_CardinalityType, FS_EmptySet
<1>2. \A s \in SUBSET S : s # {} => /\ pick[s] \in s /\ s \ {pick[s]} \in SUBSET S
                                    /\ Cardinality(s \ {pick[s]}) = Cardinality(s) - 1
  BY <1>1, FS_RemoveElement
<1>3. 0 \in Reached
  <2> DEFINE g == [s \in Level(0) |-> base]
  <2>1. \A s \in Level(0) : s = {}
    BY <1>1
  <2>2. g \in [Level(0) -> V]
    OBVIOUS
  <2>3. \A s \in Level(0) : g[s] = StepOf(g, s)
    BY <2>1
  <2> HIDE DEF g, StepOf, Level
  <2> QED  BY <2>2, <2>3
<1>4. ASSUME NEW n \in Nat, n \in Reached
      PROVE  n + 1 \in Reached
  <2>1. PICK g \in [Level(n) -> V] : \A s \in Level(n) : g[s] = StepOf(g, s)
    BY <1>4
  <2> DEFINE h == [s \in Level(n + 1) |-> IF s \in Level(n) THEN g[s] ELSE StepOf(g, s)]
  <2>2. ASSUME NEW s \in Level(n + 1), s # {}
        PROVE  /\ s \ {pick[s]} \in Level(n) /\ s \ {pick[s]} \in Level(n + 1) /\ pick[s] \in S
    <3>1. Cardinality(s) <= n + 1 /\ s \in SUBSET S /\ Cardinality(s) \in Nat
      BY <1>1
    <3>2. Cardinality(s \ {pick[s]}) = Cardinality(s) - 1 /\ s \ {pick[s]} \in SUBSET S /\ pick[s] \in s
      BY <1>2, <2>2, <3>1
    <3>3. Cardinality(s \ {pick[s]}) <= n /\ Cardinality(s \ {pick[s]}) <= n + 1
      BY ONLY <3>1, <3>2, n \in Nat
    <3> QED  BY <3>1, <3>2, <3>3
  <2>3. ASSUME NEW s \in Level(n + 1)
        PROVE  StepOf(g, s) \in V
    <3> HIDE DEF Level
    <3> QED  BY <2>2
  <2>4. h \in [Level(n + 1) -> V]
    <3> HIDE DEF Level, StepOf
    <3> QED  BY <2>3
  <2>5. ASSUME NEW s \in Level(n + 1)
        PROVE  h[s] = StepOf(g, s)
    <3> HIDE DEF Level, StepOf
    <3> QED  BY <2>1
  <2>6. \A s \in Level(n) : s \in Level(n + 1) /\ h[s] = g[s]
    <3>1. \A s \in Level(n) : s \in Level(n + 1)
      BY <1>1
    <3> HIDE DEF Level, StepOf
    <3> QED  BY <3>1
  <2>7. ASSUME NEW s \in Level(n + 1)
        PROVE  StepOf(g, s) = StepOf(h, s)
    <3> HIDE DEF Level, h
    <3> QED  BY <2>2, <2>6
  <2>8. \A s \in Level(n + 1) : h[s] = StepOf(h, s)
    <3> HIDE DEF Level, StepOf, h
    <3> QED  BY <2>5, <2>7
  <2> HIDE DEF Level, StepOf, h
  <2> QED  BY <2>4, <2>8
<1>5. Nat \subseteq Reached
  <2> DEFINE Bad == Nat \ Reached
  <2>1. ASSUME Bad # {}
        PROVE  FALSE
    <3>1. PICK t \in Bad : \A y \in Bad : t <= y
      <4>1. Bad \in SUBSET Nat
        OBVIOUS
      <4> HIDE DEF Bad
      <4> QED  BY <2>1, <4>1, LeastOfNat
    <3> HIDE DEF Reached
    <3>2. t \in Nat /\ t \notin Reached /\ t # 0
      BY <1>3
    <3>3. t - 1 \in Nat /\ ~(t <= t - 1) /\ (t - 1) + 1 = t
      BY <3>2
    <3>4. t - 1 \in Reached
      BY <3>1, <3>3
    <3> QED  BY <1>4, <3>2, <3>3, <3>4
  <2> QED  BY <2>1
<1>6. Cardinality(S) \in Nat /\ Level(Cardinality(S)) = SUBSET S
  BY FS_CardinalityType, FS_Subset
<1>7. \E g \in [Level(Cardinality(S)) -> V] : \A s \in Level(Cardinality(S)) : g[s] = StepOf(g, s)
  <2> HIDE DEF Level, StepOf
  <2> QED  BY <1>5, <1>6
<1>8. \E g \in [SUBSET S -> V] : \A s \in SUBSET S : g[s] = StepOf(g, s)
  <2> HIDE DEF Level, StepOf
  <2> QED  BY <1>6, <1>7
<1> QED  BY <1>8 DEF IsFold

Weight(w, S) == FoldSet(LAMBDA x, sum : sum + w[x], 0, S)

\* What it recurses over.
Adds(iter, S, w) ==
    iter = [s \in SUBSET S |-> IF s = {} THEN 0
                               ELSE LET x == CHOOSE x \in s : TRUE IN iter[s \ {x}] + w[x]]

Weighs(w, S) == IsFiniteSet(S) /\ \A x \in S : w[x] \in Int

LEMMA AddsExists ==
    ASSUME NEW S, NEW w, Weighs(w, S)
    PROVE  \E iter \in [SUBSET S -> Int] : Adds(iter, S, w)
<1> DEFINE pick == [s \in SUBSET S |-> CHOOSE x \in s : TRUE]
           st == [x \in S |-> [v \in Int |-> v + w[x]]]
<1>1. \A s \in SUBSET S : s # {} => pick[s] \in s
  OBVIOUS
<1>2. \A x \in S : \A v \in Int : st[x][v] \in Int
  BY DEF Weighs
<1>3. PICK iter \in [SUBSET S -> Int] : IsFold(iter, S, 0, pick, st)
  <2>1. IsFiniteSet(S) /\ 0 \in Int
    BY DEF Weighs
  <2> HIDE DEF pick, st
  <2>2. \E iter \in [SUBSET S -> Int] : IsFold(iter, S, 0, pick, st)
    BY ONLY <1>1, <1>2, <2>1, FoldExists
  <2> QED  BY <2>2
<1>4. ASSUME NEW s \in SUBSET S, s # {}
      PROVE  iter[s] = LET x == CHOOSE x \in s : TRUE IN iter[s \ {x}] + w[x]
  <2> DEFINE x == CHOOSE x \in s : TRUE
  <2>1. x \in s /\ s \ {x} \in SUBSET S /\ pick[s] = x
    BY <1>4
  <2>2. iter[s] = st[pick[s]][iter[s \ {pick[s]}]]
    <3> HIDE DEF pick, st
    <3> QED  BY <1>3, <1>4 DEF IsFold
  <2>3. iter[s \ {x}] \in Int
    BY <1>3, <2>1
  <2> HIDE DEF x, pick
  <2> QED  BY <2>1, <2>2, <2>3 DEF x
<1>5. iter[{}] = 0
  <2> HIDE DEF pick, st
  <2> QED  BY <1>3 DEF IsFold
<1>6. Adds(iter, S, w)
  <2> HIDE DEF pick, st
  <2>1. iter = [s \in SUBSET S |-> iter[s]]
    BY <1>3
  <2> QED  BY <1>4, <1>5, <2>1 DEF Adds
<1> QED  BY <1>6

\* It is unique.
LEMMA AddsUnique ==
    ASSUME NEW S, IsFiniteSet(S), NEW w, NEW f, Adds(f, S, w), NEW g, Adds(g, S, w)
    PROVE  \A s \in SUBSET S : f[s] = g[s]
<1> DEFINE Good == {s \in SUBSET S : f[s] = g[s]}
<1>1. {} \in Good
  BY DEF Adds
<1>2. ASSUME NEW s \in SUBSET S, s # {}, \A x \in s : s \ {x} \in Good
      PROVE  s \in Good
  <2> DEFINE x == CHOOSE x \in s : TRUE
  <2>1. x \in s
    BY <1>2
  <2>2. f[s] = f[s \ {x}] + w[x] /\ g[s] = g[s \ {x}] + w[x]
    BY <1>2 DEF Adds
  <2>3. f[s \ {x}] = g[s \ {x}]
    BY <1>2, <2>1
  <2> HIDE DEF x
  <2> QED  BY <2>2, <2>3
<1>3. \A s \in SUBSET S : s \in Good
  <2> HIDE DEF Good
  <2> QED  BY <1>1, <1>2, PartsInduction
<1> QED  BY <1>3

LEMMA WeightIsIter ==
    ASSUME NEW S, NEW w, Weighs(w, S), NEW f, Adds(f, S, w)
    PROVE  Weight(w, S) = f[S]
<1> DEFINE g == CHOOSE g : Adds(g, S, w)
<1>1. Weight(w, S) = g[S]
  BY DEF Weight, FoldSet, MapThenFoldSet, Adds
<1>2. Adds(g, S, w)
  BY Zenon
<1> HIDE DEF g
<1> QED  BY <1>1, <1>2, AddsUnique DEF Weighs

\* One recursion gives the sums over all the parts of S.
LEMMA WeightsOfParts ==
    ASSUME NEW S, NEW w, Weighs(w, S), NEW f \in [SUBSET S -> Int], Adds(f, S, w)
    PROVE  \A s \in SUBSET S : Weight(w, s) = f[s]
<1> SUFFICES ASSUME NEW s \in SUBSET S
             PROVE  Weight(w, s) = f[s]
  OBVIOUS
<1> DEFINE g == [t \in SUBSET s |-> f[t]]
<1>1. Weighs(w, s)
  BY FS_Subset DEF Weighs
<1>2. ASSUME NEW t \in SUBSET s
      PROVE  g[t] = IF t = {} THEN 0 ELSE LET x == CHOOSE x \in t : TRUE IN g[t \ {x}] + w[x]
  <2> DEFINE x == CHOOSE x \in t : TRUE
  <2>1. f[t] = IF t = {} THEN 0 ELSE f[t \ {x}] + w[x]
    BY DEF Adds
  <2>2. g[t] = f[t] /\ g[t \ {x}] = f[t \ {x}]
    OBVIOUS
  <2> HIDE DEF g
  <2> QED  BY <2>1, <2>2
<1>3. Adds(g, s, w)
  <2>1. g = [t \in SUBSET s |-> g[t]]
    OBVIOUS
  <2> HIDE DEF g
  <2> QED  BY <1>2, <2>1 DEF Adds
<1>4. Weight(w, s) = g[s]
  <2> HIDE DEF g
  <2> QED  BY <1>1, <1>3, WeightIsIter
<1> QED  BY <1>4

LEMMA WeightIsInt ==
    ASSUME NEW S, NEW w, Weighs(w, S)
    PROVE  \A s \in SUBSET S : Weight(w, s) \in Int
<1>1. PICK f \in [SUBSET S -> Int] : Adds(f, S, w)
  BY AddsExists
<1>2. \A s \in SUBSET S : Weight(w, s) = f[s]
  BY <1>1, WeightsOfParts
<1> QED  BY <1>2

LEMMA WeightOfNone == \A w : Weight(w, {}) = 0
<1> TAKE w
<1>1. Weighs(w, {})
  BY FS_EmptySet DEF Weighs
<1>2. PICK f \in [SUBSET {} -> Int] : Adds(f, {}, w)
  BY <1>1, AddsExists
<1>3. Weight(w, {}) = f[{}]
  BY <1>1, <1>2, WeightIsIter
<1> QED  BY <1>2, <1>3 DEF Adds

\* Any element may be taken first.
LEMMA WeightTakes ==
    ASSUME NEW S, NEW w, Weighs(w, S)
    PROVE  \A s \in SUBSET S : \A x \in s : Weight(w, s) = w[x] + Weight(w, s \ {x})
<1> DEFINE Good == {s \in SUBSET S : \A x \in s : Weight(w, s) = w[x] + Weight(w, s \ {x})}
<1>1. {} \in Good
  OBVIOUS
<1>2. PICK f \in [SUBSET S -> Int] : Adds(f, S, w)
  BY AddsExists
<1>3. \A s \in SUBSET S : Weight(w, s) = f[s] /\ Weight(w, s) \in Int
  BY <1>2, WeightsOfParts
<1>4. ASSUME NEW s \in SUBSET S, s # {}, \A x \in s : s \ {x} \in Good
      PROVE  s \in Good
  <2> DEFINE c == CHOOSE c \in s : TRUE
  <2>1. c \in s
    BY <1>4
  <2>2. f[s] = f[s \ {c}] + w[c]
    BY <1>2, <1>4 DEF Adds
  <2> HIDE DEF c
  <2>3. Weight(w, s) = w[c] + Weight(w, s \ {c})
    <3>1. s \ {c} \in SUBSET S /\ w[c] \in Int
      BY <2>1 DEF Weighs
    <3>2. /\ Weight(w, s) = f[s] /\ Weight(w, s \ {c}) = f[s \ {c}] /\ Weight(w, s \ {c}) \in Int
      BY <1>3, <3>1
    <3> QED  BY ONLY <2>2, <3>1, <3>2
  <2>4. ASSUME NEW x \in s, x # c
        PROVE  Weight(w, s) = w[x] + Weight(w, s \ {x})
    <3> DEFINE r == s \ {c, x}
    <3>1. /\ (s \ {c}) \ {x} = r /\ (s \ {x}) \ {c} = r
          /\ x \in s \ {c} /\ c \in s \ {x} /\ r \in SUBSET S
      BY <2>1, <2>4
    <3>2. Weight(w, s \ {c}) = w[x] + Weight(w, r)
      BY <1>4, <2>1, <3>1
    <3>3. Weight(w, s \ {x}) = w[c] + Weight(w, r)
      BY <1>4, <2>1, <3>1
    <3>4. w[c] \in Int /\ w[x] \in Int /\ Weight(w, r) \in Int
      BY <1>3, <2>1, <3>1 DEF Weighs
    <3> HIDE DEF r
    <3> QED  BY ONLY <2>3, <3>2, <3>3, <3>4
  <2> QED  BY <2>3, <2>4
<1>5. \A s \in SUBSET S : s \in Good
  <2> HIDE DEF Good
  <2> QED  BY <1>1, <1>4, PartsInduction DEF Weighs
<1> QED  BY <1>5

\* Pointwise less is less in sum.
LEMMA WeightLess ==
    ASSUME NEW S, NEW v, Weighs(v, S), NEW w, Weighs(w, S), \A x \in S : v[x] <= w[x]
    PROVE  Weight(v, S) <= Weight(w, S)
<1> DEFINE Good == {s \in SUBSET S : Weight(v, s) <= Weight(w, s)}
<1>1. {} \in Good
  BY WeightOfNone
<1>2. \A s \in SUBSET S : Weight(v, s) \in Int /\ Weight(w, s) \in Int
  BY WeightIsInt
<1>3. ASSUME NEW s \in SUBSET S, s # {}, \A x \in s : s \ {x} \in Good
      PROVE  s \in Good
  <2>1. PICK x \in s : TRUE
    BY <1>3
  <2>2. /\ Weight(v, s) = v[x] + Weight(v, s \ {x}) /\ Weight(w, s) = w[x] + Weight(w, s \ {x})
        /\ Weight(v, s \ {x}) <= Weight(w, s \ {x})
    BY <1>3, <2>1, WeightTakes
  <2>3. /\ v[x] \in Int /\ w[x] \in Int /\ v[x] <= w[x]
        /\ Weight(v, s \ {x}) \in Int /\ Weight(w, s \ {x}) \in Int
    BY <1>2, <2>1 DEF Weighs
  <2>4. Weight(v, s) <= Weight(w, s)
    BY ONLY <2>2, <2>3
  <2> QED  BY <2>4
<1>4. \A s \in SUBSET S : s \in Good
  <2> HIDE DEF Good
  <2> QED  BY <1>1, <1>3, PartsInduction DEF Weighs
<1>5. S \in Good
  <2> HIDE DEF Good
  <2> QED  BY <1>4
<1> QED  BY <1>5

\* What weighs nothing may be left out.
LEMMA WeightOfPart ==
    ASSUME NEW S, NEW w, Weighs(w, S), NEW P \in SUBSET S, \A x \in S \ P : w[x] = 0
    PROVE  Weight(w, S) = Weight(w, P)
<1> DEFINE Good == {s \in SUBSET (S \ P) : Weight(w, P \cup s) = Weight(w, P)}
<1>1. {} \in Good
  <2>1. P \cup {} = P
    OBVIOUS
  <2> QED  BY <2>1
<1>2. IsFiniteSet(S \ P)
  BY FS_Subset DEF Weighs
<1>3. ASSUME NEW s \in SUBSET (S \ P), s # {}, \A x \in s : s \ {x} \in Good
      PROVE  s \in Good
  <2>1. PICK x \in s : TRUE
    BY <1>3
  <2>2. /\ P \cup s \in SUBSET S /\ x \in P \cup s /\ (P \cup s) \ {x} = P \cup (s \ {x})
        /\ P \cup (s \ {x}) \in SUBSET S
    BY <2>1
  <2>3. Weight(w, P \cup s) = w[x] + Weight(w, (P \cup s) \ {x})
    BY <2>2, WeightTakes
  <2>4. Weight(w, P \cup (s \ {x})) = Weight(w, P)
    BY <1>3, <2>1
  <2>5. w[x] = 0 /\ Weight(w, P) \in Int
    BY <2>1, WeightIsInt
  <2>6. Weight(w, P \cup s) = w[x] + Weight(w, P)
    BY <2>2, <2>3, <2>4
  <2>7. Weight(w, P \cup s) = Weight(w, P)
    BY ONLY <2>5, <2>6
  <2> QED  BY <2>7
<1>4. \A s \in SUBSET (S \ P) : s \in Good
  <2> HIDE DEF Good
  <2> QED  BY <1>1, <1>2, <1>3, PartsInduction
<1>5. S \ P \in Good
  <2> HIDE DEF Good
  <2> QED  BY <1>4
<1>6. P \cup (S \ P) = S
  OBVIOUS
<1> QED  BY <1>5, <1>6

\* A sum over an interval, taken from its end.
LEMMA WeightToNext ==
    ASSUME NEW n \in Nat, NEW m \in 0..n, NEW w, \A k \in 0..n : w[k] \in Int
    PROVE  /\ Weighs(w, 0..n) /\ Weight(w, 0..m) \in Int
           /\ Weight(w, 0..0) = w[0]
           /\ m > 0 => Weight(w, 0..m) = w[m] + Weight(w, 0..(m - 1))
<1>1. Weighs(w, 0..n)
  BY FS_Interval DEF Weighs
<1>2. 0..m \in SUBSET (0..n) /\ 0..0 \in SUBSET (0..n) /\ 0 \in 0..0 /\ (0..0) \ {0} = {} /\ m \in 0..m
  OBVIOUS
<1>3. Weight(w, 0..m) \in Int
  BY <1>1, <1>2, WeightIsInt
<1>4. Weight(w, 0..0) = w[0]
  <2>1. Weight(w, 0..0) = w[0] + Weight(w, (0..0) \ {0})
    BY <1>1, <1>2, WeightTakes
  <2>2. w[0] \in Int
    OBVIOUS
  <2> QED  BY <1>2, <2>1, <2>2, WeightOfNone
<1>5. m > 0 => (0..m) \ {m} = 0..(m - 1)
  OBVIOUS
<1>6. Weight(w, 0..m) = w[m] + Weight(w, (0..m) \ {m})
  BY <1>1, <1>2, WeightTakes
<1> QED  BY <1>1, <1>3, <1>4, <1>5, <1>6

-----------------------------------------------------------------------------
(* One leg more.                                                           *)

LEMMA GridIsNat == Grid \in Nat
  BY EntriesAssumption DEF EntriesAssumption

USE GridIsNat

Pmfs(n) == [0..n -> Nat]
Expected(f, w, n) == Weight([k \in 0..n |-> f[k] * w[k]], 0..n)

\* What a leg of p ticks makes of what is paid for the others.
Ahead(w, p, n) == [k \in 0..n |-> (Grid - p) * w[k] + p * w[k + 1]]

LEMMA AddLegType ==
    ASSUME NEW n \in Nat, NEW f \in Pmfs(n), NEW p \in 0..Grid
    PROVE  /\ AddLeg(f, p) \in Pmfs(n + 1)
           /\ AddLeg(f, p)[0] = f[0] * (Grid - p)
           /\ AddLeg(f, p)[n + 1] = f[n] * p
           /\ \A k \in 1..n : AddLeg(f, p)[k] = f[k] * (Grid - p) + f[k - 1] * p
<1>1. Cardinality(DOMAIN f) = n + 1 /\ DOMAIN f = 0..n
  <2>1. DOMAIN f = 0..n
    BY DEF Pmfs
  <2>2. Cardinality(0..n) = IF 0 > n THEN 0 ELSE n - 0 + 1
    BY FS_Interval
  <2> QED  BY <2>1, <2>2
<1>2. AddLeg(f, p) = [k \in 0..(n + 1) |-> (IF k \in 0..n THEN f[k] * (Grid - p) ELSE 0)
                                           + (IF k > 0 THEN f[k - 1] * p ELSE 0)]
  BY <1>1 DEF AddLeg
<1>3. \A k \in 0..n : f[k] \in Nat
  BY DEF Pmfs
<1>4. \A k \in 0..(n + 1) : /\ AddLeg(f, p)[k] = (IF k \in 0..n THEN f[k] * (Grid - p) ELSE 0)
                                                 + (IF k > 0 THEN f[k - 1] * p ELSE 0)
                            /\ k > 0 => k - 1 \in 0..n
  BY <1>2
<1>5. ASSUME NEW k \in 0..(n + 1)
      PROVE  AddLeg(f, p)[k] \in Nat
  <2>1. k \in 0..n => f[k] * (Grid - p) \in Nat
    <3>1. \A x \in Nat, y \in 0..Grid : x * (Grid - y) \in Nat
      OBVIOUS
    <3> QED  BY <1>3, <3>1
  <2>2. k > 0 => f[k - 1] * p \in Nat
    <3>1. \A x \in Nat, y \in 0..Grid : x * y \in Nat
      OBVIOUS
    <3> QED  BY <1>3, <1>4, <3>1
  <2> QED  BY <1>4, <2>1, <2>2
<1>6. \A k \in 0..n : f[k] * (Grid - p) \in Nat /\ f[k] * p \in Nat
  <2>1. \A x \in Nat, y \in 0..Grid : x * (Grid - y) \in Nat /\ x * y \in Nat
    OBVIOUS
  <2> QED  BY <1>3, <2>1
<1>7. AddLeg(f, p) \in Pmfs(n + 1)
  BY <1>2, <1>5 DEF Pmfs
<1>8. AddLeg(f, p)[0] = f[0] * (Grid - p)
  BY <1>4, <1>6
<1>9. AddLeg(f, p)[n + 1] = f[n] * p
  BY <1>4, <1>6
<1>10. \A k \in 1..n : AddLeg(f, p)[k] = f[k] * (Grid - p) + f[k - 1] * p
  BY <1>4
<1> QED  BY <1>7, <1>8, <1>9, <1>10

LEMMA Distributes ==
    /\ \A x, y, z \in Int : (x + y) * z = x * z + y * z /\ x * (y + z) = x * y + x * z
    /\ \A x, y, z \in Int : (x * y) * z = x * (y * z)
    /\ \A x, y \in Int : x * y = y * x
OBVIOUS

\* The legs are worth what the others are once this one is folded in.
LEMMA LegIsFoldedIn ==
    ASSUME NEW n \in Nat, NEW f \in Pmfs(n), NEW p \in 0..Grid, NEW w \in Pmfs(n + 1)
    PROVE  Expected(AddLeg(f, p), w, n + 1) = Expected(f, Ahead(w, p, n), n)
<1> DEFINE h == AddLeg(f, p)
           u == Ahead(w, p, n)
           a == [k \in 0..(n + 1) |-> h[k] * w[k]]
           b == [k \in 0..n |-> f[k] * u[k]]
<1>1. /\ h \in Pmfs(n + 1) /\ h[0] = f[0] * (Grid - p) /\ h[n + 1] = f[n] * p
      /\ \A k \in 1..n : h[k] = f[k] * (Grid - p) + f[k - 1] * p
  BY AddLegType
<1> HIDE DEF h
<1>2. \A k \in 0..n : /\ f[k] \in Int /\ w[k] \in Int /\ w[k + 1] \in Int
                      /\ u[k] = (Grid - p) * w[k] + p * w[k + 1] /\ u[k] \in Int
  <2>1. \A k \in 0..n : f[k] \in Int /\ w[k] \in Int /\ w[k + 1] \in Int
    BY DEF Pmfs
  <2>2. \A k \in 0..n : u[k] = (Grid - p) * w[k] + p * w[k + 1]
    BY DEF Ahead
  <2>3. \A x, y \in Int : (Grid - p) * x + p * y \in Int
    OBVIOUS
  <2> QED  BY <2>1, <2>2, <2>3
<1> HIDE DEF u
<1>3. \A k \in 0..(n + 1) : a[k] = h[k] * w[k] /\ a[k] \in Int
  <2>1. \A k \in 0..(n + 1) : h[k] \in Int /\ w[k] \in Int
    BY <1>1 DEF Pmfs
  <2> QED  BY <2>1
<1>4. \A k \in 0..n : b[k] = f[k] * u[k] /\ b[k] \in Int
  BY <1>2
<1> HIDE DEF a, b
<1>5. \A k \in 0..n : b[k] = f[k] * (Grid - p) * w[k] + f[k] * p * w[k + 1]
  <2> TAKE k \in 0..n
  <2>1. \A x, y, z \in Int : x * ((Grid - p) * y + p * z) = x * (Grid - p) * y + x * p * z
    <3> TAKE x, y, z \in Int
    <3>1. (Grid - p) * y \in Int /\ p * z \in Int /\ Grid - p \in Int /\ p \in Int
      OBVIOUS
    <3> QED  BY <3>1, Distributes
  <2> QED  BY <1>2, <1>4, <2>1
<1>6. \A k \in 1..n : a[k] = f[k] * (Grid - p) * w[k] + f[k - 1] * p * w[k]
  <2> TAKE k \in 1..n
  <2>1. f[k] * (Grid - p) \in Int /\ f[k - 1] * p \in Int /\ w[k] \in Int
    BY <1>2
  <2> QED  BY <1>1, <1>3, <2>1, Distributes
<1>7. a[0] = f[0] * (Grid - p) * w[0] /\ a[n + 1] = f[n] * p * w[n + 1]
  BY <1>1, <1>3
<1> DEFINE Lhs(m) == Weight(a, 0..m)
           Rhs(m) == Weight(b, 0..m)
           Good == {m \in Nat : m <= n => Lhs(m) + f[m] * p * w[m + 1] = Rhs(m)}
<1>8. \A m \in 0..n : /\ Lhs(m) \in Int /\ Rhs(m) \in Int
                      /\ f[m] * p * w[m + 1] \in Int /\ f[m] * (Grid - p) * w[m] \in Int
  <2> TAKE m \in 0..n
  <2>1. Lhs(m) \in Int
    BY <1>3, WeightToNext
  <2>2. Rhs(m) \in Int
    BY <1>4, WeightToNext
  <2>3. \A x, y \in Int : x * p * y \in Int /\ x * (Grid - p) * y \in Int
    OBVIOUS
  <2> QED  BY <1>2, <2>1, <2>2, <2>3
<1>9. Lhs(0) = a[0] /\ Rhs(0) = b[0]
  BY <1>3, <1>4, WeightToNext
<1>10. \A m \in 1..n : Lhs(m) = a[m] + Lhs(m - 1) /\ Rhs(m) = b[m] + Rhs(m - 1)
  <2> TAKE m \in 1..n
  <2>1. m \in 0..(n + 1) /\ m \in 0..n /\ m > 0 /\ n + 1 \in Nat
    OBVIOUS
  <2>2. Lhs(m) = a[m] + Lhs(m - 1)
    BY <1>3, <2>1, WeightToNext
  <2>3. Rhs(m) = b[m] + Rhs(m - 1)
    BY <1>4, <2>1, WeightToNext
  <2> QED  BY <2>2, <2>3
<1>11. Lhs(n + 1) = a[n + 1] + Lhs(n)
  <2>1. n + 1 \in 0..(n + 1) /\ n + 1 > 0 /\ n + 1 \in Nat /\ (n + 1) - 1 = n
    OBVIOUS
  <2> QED  BY <1>3, <2>1, WeightToNext
<1> HIDE DEF Lhs, Rhs
<1>12. 0 \in Good
  <2>1. 0 \in 0..n /\ 0 + 1 = 1
    OBVIOUS
  <2>2. b[0] = f[0] * (Grid - p) * w[0] + f[0] * p * w[1]
    BY <1>5, <2>1
  <2>3. Lhs(0) + f[0] * p * w[0 + 1] = Rhs(0)
    BY <1>7, <1>9, <2>1, <2>2
  <2> QED  BY <2>3
<1>13. ASSUME NEW m \in Nat, m \in Good
       PROVE  m + 1 \in Good
  <2> SUFFICES ASSUME m + 1 <= n
               PROVE  Lhs(m + 1) + f[m + 1] * p * w[m + 2] = Rhs(m + 1)
    OBVIOUS
  <2>1. m + 1 \in 1..n /\ m + 1 \in 0..n /\ m \in 0..n /\ (m + 1) - 1 = m /\ (m + 1) + 1 = m + 2
    OBVIOUS
  <2>2. Lhs(m) + f[m] * p * w[m + 1] = Rhs(m)
    BY <1>13, <2>1
  <2>3. Lhs(m + 1) = a[m + 1] + Lhs(m) /\ Rhs(m + 1) = b[m + 1] + Rhs(m)
    BY <1>10, <2>1
  <2>4. a[m + 1] = f[m + 1] * (Grid - p) * w[m + 1] + f[m] * p * w[m + 1]
    BY <1>6, <2>1
  <2>5. b[m + 1] = f[m + 1] * (Grid - p) * w[m + 1] + f[m + 1] * p * w[m + 2]
    BY <1>5, <2>1
  <2>6. /\ Lhs(m) \in Int /\ Rhs(m) \in Int /\ f[m] * p * w[m + 1] \in Int
        /\ f[m + 1] * (Grid - p) * w[m + 1] \in Int /\ f[m + 1] * p * w[m + 2] \in Int
    BY <1>8, <2>1
  <2> QED  BY ONLY <2>2, <2>3, <2>4, <2>5, <2>6
<1>14. \A m \in Nat : m \in Good
  <2>1. Good \in SUBSET Nat
    OBVIOUS
  <2> HIDE DEF Good
  <2>2. \A m \in Good : m + 1 \in Good
    BY <1>13, <2>1
  <2>3. Good = Nat
    BY <1>12, <2>1, <2>2, AllOfNat
  <2> QED  BY <2>3
<1>15. Lhs(n) + f[n] * p * w[n + 1] = Rhs(n)
  BY <1>14
<1>16. Lhs(n + 1) = Rhs(n)
  <2>1. n \in 0..n
    OBVIOUS
  <2> QED  BY <1>7, <1>8, <1>11, <1>15, <2>1
<1>17. Expected(AddLeg(f, p), w, n + 1) = Lhs(n + 1) /\ Expected(f, Ahead(w, p, n), n) = Rhs(n)
  BY DEF Expected, Lhs, Rhs, a, b, h, u
<1> QED  BY <1>16, <1>17

LEMMA ExpectedIsInt ==
    ASSUME NEW n \in Nat, NEW f \in Pmfs(n), NEW w \in Pmfs(n)
    PROVE  Expected(f, w, n) \in Int
<1> DEFINE a == [k \in 0..n |-> f[k] * w[k]]
<1>1. \A k \in 0..n : f[k] \in Int /\ w[k] \in Int
  BY DEF Pmfs
<1>2. \A k \in 0..n : a[k] \in Int
  BY <1>1
<1> HIDE DEF a
<1>3. n \in 0..n
  OBVIOUS
<1>4. Weight(a, 0..n) \in Int
  BY <1>2, <1>3, WeightToNext
<1> QED  BY <1>4 DEF Expected, a

\* More paid for every count of the others is worth no less.
LEMMA ExpectedLess ==
    ASSUME NEW n \in Nat, NEW f \in Pmfs(n), NEW v \in Pmfs(n), NEW w \in Pmfs(n),
           \A k \in 0..n : v[k] <= w[k]
    PROVE  Expected(f, v, n) <= Expected(f, w, n)
<1> DEFINE a == [k \in 0..n |-> f[k] * v[k]]
           b == [k \in 0..n |-> f[k] * w[k]]
<1>1. \A k \in 0..n : f[k] \in Nat /\ v[k] \in Nat /\ w[k] \in Nat
  BY DEF Pmfs
<1>2. \A k \in 0..n : a[k] \in Int /\ b[k] \in Int /\ a[k] <= b[k]
  <2>1. \A x, y, z \in Nat : y <= z => x * y \in Int /\ x * z \in Int /\ x * y <= x * z
    OBVIOUS
  <2> QED  BY <1>1, <2>1
<1> HIDE DEF a, b
<1>3. Weighs(a, 0..n) /\ Weighs(b, 0..n)
  BY <1>2, FS_Interval DEF Weighs
<1>4. Weight(a, 0..n) <= Weight(b, 0..n)
  BY <1>2, <1>3, WeightLess
<1> QED  BY <1>4 DEF Expected, a, b

\* One more correct leg never pays less.
Rising(w, n) == \A k \in 0..(n - 1) : w[k] <= w[k + 1]

LEMMA AheadRises ==
    ASSUME NEW n \in Nat, NEW w \in Pmfs(n + 1), Rising(w, n + 1), NEW p \in 0..Grid
    PROVE  Ahead(w, p, n) \in Pmfs(n) /\ Rising(Ahead(w, p, n), n)
<1>1. \A k \in 0..(n + 1) : w[k] \in Nat
  BY DEF Pmfs
<1>2. \A x \in Nat, y \in Nat : (Grid - p) * x \in Nat /\ p * y \in Nat /\ (Grid - p) * x + p * y \in Nat
  OBVIOUS
<1>3. \A k \in 0..n : Ahead(w, p, n)[k] = (Grid - p) * w[k] + p * w[k + 1]
  BY DEF Ahead
<1>4. \A k \in 0..n : k \in 0..(n + 1) /\ k + 1 \in 0..(n + 1)
  OBVIOUS
<1>5. Ahead(w, p, n) \in Pmfs(n)
  BY <1>1, <1>2, <1>4 DEF Ahead, Pmfs
<1>6. ASSUME NEW k \in 0..(n - 1)
      PROVE  Ahead(w, p, n)[k] <= Ahead(w, p, n)[k + 1]
  <2>1. w[k] <= w[k + 1] /\ w[k + 1] <= w[(k + 1) + 1]
    BY DEF Rising
  <2>2. w[k] \in Nat /\ w[k + 1] \in Nat /\ w[(k + 1) + 1] \in Nat
    BY <1>1
  <2>3. \A x, y, z \in Nat : x <= y /\ y <= z => (Grid - p) * x + p * y <= (Grid - p) * y + p * z
    <3> TAKE x, y, z \in Nat
    <3>1. \A c, s, t \in Nat : s <= t => c * s <= c * t
      OBVIOUS
    <3>2. Grid - p \in Nat /\ p \in Nat
      OBVIOUS
    <3>3. x <= y /\ y <= z => (Grid - p) * x <= (Grid - p) * y /\ p * y <= p * z
      BY <3>1, <3>2
    <3> QED  BY <3>3
  <2>4. Ahead(w, p, n)[k] = (Grid - p) * w[k] + p * w[k + 1]
    BY <1>3
  <2>5. Ahead(w, p, n)[k + 1] = (Grid - p) * w[k + 1] + p * w[(k + 1) + 1]
    BY <1>3
  <2> QED  BY <2>1, <2>2, <2>3, <2>4, <2>5
<1> QED  BY <1>5, <1>6 DEF Rising

\* A better leg is worth no less whatever the others come to.
LEMMA BetterLegAhead ==
    ASSUME NEW n \in Nat, NEW w \in Pmfs(n + 1), Rising(w, n + 1),
           NEW p \in 0..Grid, NEW g \in 0..Grid, g <= p
    PROVE  \A k \in 0..n : Ahead(w, g, n)[k] <= Ahead(w, p, n)[k]
<1> TAKE k \in 0..n
<1>1. w[k] \in Nat /\ w[k + 1] \in Nat /\ w[k] <= w[k + 1]
  BY DEF Pmfs, Rising
<1>2. Ahead(w, g, n)[k] = (Grid - g) * w[k] + g * w[k + 1] /\ Ahead(w, p, n)[k] = (Grid - p) * w[k] + p * w[k + 1]
  BY DEF Ahead
<1>3. \A x, y \in Nat : x <= y => (Grid - g) * x + g * y <= (Grid - p) * x + p * y
  <2> TAKE x, y \in Nat
  <2> HAVE x <= y
  <2>1. y - x \in Nat /\ p - g \in Nat
    OBVIOUS
  <2>2. (p - g) * (y - x) \in Nat
    BY <2>1
  <2>3. (p - g) * (y - x) = (p - g) * y - (p - g) * x
    BY <2>1
  <2>4. (p - g) * y = p * y - g * y /\ (p - g) * x = p * x - g * x
    OBVIOUS
  <2>5. (Grid - g) * x = Grid * x - g * x /\ (Grid - p) * x = Grid * x - p * x
    OBVIOUS
  <2>6. p * x \in Int /\ g * x \in Int /\ p * y \in Int /\ g * y \in Int
    OBVIOUS
  <2> QED  BY <2>2, <2>3, <2>4, <2>5, <2>6
<1> QED  BY <1>1, <1>2, <1>3

-----------------------------------------------------------------------------
(* Legs that have just what the gate asks.                                 *)

One0 == [k \in {0} |-> 1]

LEMMA NoLeg == One0 \in Pmfs(0)
BY DEF One0, Pmfs

LEMMA AtGateSteps ==
    /\ AtGate[0] = One0
    /\ \A n \in 1..8 : AtGate[n] = AddLeg(AtGate[n - 1], GateTicks)
<1> DEFINE a1 == AddLeg(One0, GateTicks)
           a2 == AddLeg(a1, GateTicks)
           a3 == AddLeg(a2, GateTicks)
           a4 == AddLeg(a3, GateTicks)
           a5 == AddLeg(a4, GateTicks)
           a6 == AddLeg(a5, GateTicks)
           a7 == AddLeg(a6, GateTicks)
           a8 == AddLeg(a7, GateTicks)
           f == [n \in 0..8 |-> IF n = 0 THEN One0 ELSE IF n = 1 THEN a1 ELSE IF n = 2 THEN a2
                                ELSE IF n = 3 THEN a3 ELSE IF n = 4 THEN a4 ELSE IF n = 5 THEN a5
                                ELSE IF n = 6 THEN a6 ELSE IF n = 7 THEN a7 ELSE a8]
           Is(h) == h = [n \in 0..8 |-> IF n = 0 THEN [k \in {0} |-> 1] ELSE AddLeg(h[n - 1], GateTicks)]
<1>1. /\ f[0] = One0 /\ f[1] = a1 /\ f[2] = a2 /\ f[3] = a3 /\ f[4] = a4
      /\ f[5] = a5 /\ f[6] = a6 /\ f[7] = a7 /\ f[8] = a8 /\ f = [n \in 0..8 |-> f[n]]
  <2> HIDE DEF a1, a2, a3, a4, a5, a6, a7, a8
  <2> QED  OBVIOUS
<1> HIDE DEF f
<1>2. /\ f[1] = AddLeg(f[0], GateTicks) /\ f[2] = AddLeg(f[1], GateTicks) /\ f[3] = AddLeg(f[2], GateTicks)
      /\ f[4] = AddLeg(f[3], GateTicks) /\ f[5] = AddLeg(f[4], GateTicks) /\ f[6] = AddLeg(f[5], GateTicks)
      /\ f[7] = AddLeg(f[6], GateTicks) /\ f[8] = AddLeg(f[7], GateTicks)
  BY <1>1, Zenon
<1> HIDE DEF a1, a2, a3, a4, a5, a6, a7, a8
<1>3. \A n \in 0..8 : n = 0 \/ f[n] = AddLeg(f[n - 1], GateTicks)
  <2> TAKE n \in 0..8
  <2>1. n = 0 \/ n = 1 \/ n = 2 \/ n = 3 \/ n = 4 \/ n = 5 \/ n = 6 \/ n = 7 \/ n = 8
    OBVIOUS
  <2>2. 1 - 1 = 0 /\ 2 - 1 = 1 /\ 3 - 1 = 2 /\ 4 - 1 = 3 /\ 5 - 1 = 4 /\ 6 - 1 = 5 /\ 7 - 1 = 6 /\ 8 - 1 = 7
    OBVIOUS
  <2> QED  BY <1>2, <2>1, <2>2
<1>4. Is(f)
  <2>1. \A n \in 0..8 : f[n] = IF n = 0 THEN [k \in {0} |-> 1] ELSE AddLeg(f[n - 1], GateTicks)
    BY <1>1, <1>3 DEF One0
  <2> QED  BY <1>1, <2>1
<1>5. AtGate = CHOOSE h : Is(h)
  BY DEF AtGate
<1> HIDE DEF Is
<1>6. Is(AtGate)
  BY <1>4, <1>5, Zenon
<1> QED  BY <1>6 DEF Is, One0

LEMMA AtGateType ==
    ASSUME GateTicks \in 0..Grid
    PROVE  \A n \in 0..8 : AtGate[n] \in Pmfs(n)
<1> DEFINE S == {n \in Nat : n <= 8 => AtGate[n] \in Pmfs(n)}
<1>1. 0 \in S
  BY NoLeg, AtGateSteps
<1>2. ASSUME NEW n \in S
      PROVE  n + 1 \in S
  <2>1. n \in Nat
    OBVIOUS
  <2> SUFFICES ASSUME n + 1 <= 8
               PROVE  AtGate[n + 1] \in Pmfs(n + 1)
    BY <2>1
  <2>2. AtGate[n] \in Pmfs(n) /\ n + 1 \in 1..8 /\ (n + 1) - 1 = n
    BY <2>1
  <2>3. AtGate[n + 1] = AddLeg(AtGate[n], GateTicks)
    BY <2>2, AtGateSteps
  <2> QED  BY <2>1, <2>2, <2>3, AddLegType
<1>3. S \in SUBSET Nat
  OBVIOUS
<1>4. S = Nat
  <2> HIDE DEF S
  <2> QED  BY <1>1, <1>2, <1>3, AllOfNat
<1> QED  BY <1>4

-----------------------------------------------------------------------------
(* The legs of a ticket, one after the other.                              *)

AllPmfs == UNION {Pmfs(n) : n \in Nat}

LEMMA LegKeepsPmf ==
    ASSUME NEW g \in AllPmfs, NEW p \in 0..Grid
    PROVE  AddLeg(g, p) \in AllPmfs
<1>1. PICK n \in Nat : g \in Pmfs(n)
  BY DEF AllPmfs
<1>2. AddLeg(g, p) \in Pmfs(n + 1)
  BY <1>1, AddLegType
<1>3. n + 1 \in Nat
  BY <1>1
<1> QED  BY <1>2, <1>3 DEF AllPmfs

\* What Pmf recurses over.
Adding(iter, S) ==
    iter = [s \in SUBSET S |-> IF s = {} THEN [k \in {0} |-> 1]
                               ELSE LET q == CHOOSE q \in s : TRUE IN AddLeg(iter[s \ {q}], LegTicks(q))]

LEMMA AddingExists ==
    ASSUME NEW S, IsFiniteSet(S), \A q \in S : LegTicks(q) \in 0..Grid
    PROVE  \E iter \in [SUBSET S -> AllPmfs] : Adding(iter, S)
<1> DEFINE pick == [s \in SUBSET S |-> CHOOSE q \in s : TRUE]
           st == [q \in S |-> [f \in AllPmfs |-> AddLeg(f, LegTicks(q))]]
<1>1. \A s \in SUBSET S : s # {} => pick[s] \in s
  OBVIOUS
<1>2. \A q \in S : \A f \in AllPmfs : st[q][f] \in AllPmfs
  <2> TAKE q \in S
  <2> TAKE f \in AllPmfs
  <2> QED  BY LegKeepsPmf
<1>3. One0 \in AllPmfs
  BY NoLeg DEF AllPmfs
<1>4. PICK iter \in [SUBSET S -> AllPmfs] : IsFold(iter, S, One0, pick, st)
  <2> HIDE DEF pick, st
  <2>1. \E iter \in [SUBSET S -> AllPmfs] : IsFold(iter, S, One0, pick, st)
    BY ONLY IsFiniteSet(S), <1>1, <1>2, <1>3, FoldExists
  <2> QED  BY <2>1
<1>5. ASSUME NEW s \in SUBSET S, s # {}
      PROVE  iter[s] = LET q == CHOOSE q \in s : TRUE IN AddLeg(iter[s \ {q}], LegTicks(q))
  <2> DEFINE q == CHOOSE q \in s : TRUE
  <2>1. q \in s /\ s \ {q} \in SUBSET S /\ pick[s] = q
    BY <1>5
  <2>2. iter[s] = st[pick[s]][iter[s \ {pick[s]}]]
    <3> HIDE DEF pick, st
    <3> QED  BY <1>4, <1>5 DEF IsFold
  <2>3. iter[s \ {q}] \in AllPmfs
    BY <1>4, <2>1
  <2> HIDE DEF q, pick
  <2> QED  BY <2>1, <2>2, <2>3 DEF q
<1>6. iter[{}] = One0
  <2> HIDE DEF pick, st
  <2> QED  BY <1>4 DEF IsFold
<1>7. Adding(iter, S)
  <2> HIDE DEF pick, st
  <2>1. iter = [s \in SUBSET S |-> iter[s]]
    BY <1>4
  <2> QED  BY <1>5, <1>6, <2>1 DEF Adding, One0
<1> QED  BY <1>7

LEMMA AddingUnique ==
    ASSUME NEW S, IsFiniteSet(S), NEW f, Adding(f, S), NEW g, Adding(g, S)
    PROVE  \A s \in SUBSET S : f[s] = g[s]
<1> DEFINE Good == {s \in SUBSET S : f[s] = g[s]}
<1>1. {} \in Good
  BY DEF Adding
<1>2. ASSUME NEW s \in SUBSET S, s # {}, \A x \in s : s \ {x} \in Good
      PROVE  s \in Good
  <2> DEFINE x == CHOOSE x \in s : TRUE
  <2>1. x \in s
    BY <1>2
  <2>2. f[s] = AddLeg(f[s \ {x}], LegTicks(x)) /\ g[s] = AddLeg(g[s \ {x}], LegTicks(x))
    BY <1>2 DEF Adding
  <2>3. f[s \ {x}] = g[s \ {x}]
    BY <1>2, <2>1
  <2> HIDE DEF x
  <2> QED  BY <2>2, <2>3
<1>3. \A s \in SUBSET S : s \in Good
  <2> HIDE DEF Good
  <2> QED  BY <1>1, <1>2, PartsInduction
<1> QED  BY <1>3

LEMMA PmfIsIter ==
    ASSUME NEW S, IsFiniteSet(S), NEW f, Adding(f, S)
    PROVE  Pmf(S) = f[S]
<1> DEFINE g == CHOOSE g : Adding(g, S)
<1>1. Pmf(S) = g[S]
  BY DEF Pmf, FoldSet, MapThenFoldSet, Adding
<1>2. Adding(g, S)
  BY Zenon
<1> HIDE DEF g
<1> QED  BY <1>1, <1>2, AddingUnique

\* Tickets are built leg by leg from smaller ones.
LEMMA PmfsOfParts ==
    ASSUME NEW S, IsFiniteSet(S), NEW f, Adding(f, S)
    PROVE  \A s \in SUBSET S : Pmf(s) = f[s]
<1> SUFFICES ASSUME NEW s \in SUBSET S
             PROVE  Pmf(s) = f[s]
  OBVIOUS
<1> DEFINE g == [t \in SUBSET s |-> f[t]]
<1>1. IsFiniteSet(s)
  BY FS_Subset
<1>2. ASSUME NEW t \in SUBSET s
      PROVE  g[t] = IF t = {} THEN [k \in {0} |-> 1]
                    ELSE LET q == CHOOSE q \in t : TRUE IN AddLeg(g[t \ {q}], LegTicks(q))
  <2> DEFINE q == CHOOSE q \in t : TRUE
  <2>1. f[t] = IF t = {} THEN [k \in {0} |-> 1] ELSE AddLeg(f[t \ {q}], LegTicks(q))
    BY DEF Adding
  <2>2. g[t] = f[t] /\ g[t \ {q}] = f[t \ {q}]
    OBVIOUS
  <2> HIDE DEF g
  <2> QED  BY <2>1, <2>2
<1>3. Adding(g, s)
  <2>1. g = [t \in SUBSET s |-> g[t]]
    OBVIOUS
  <2> HIDE DEF g
  <2> QED  BY <1>2, <2>1 DEF Adding
<1>4. Pmf(s) = g[s]
  <2> HIDE DEF g
  <2> QED  BY <1>1, <1>3, PmfIsIter
<1> QED  BY <1>4

LEMMA PmfTakes ==
    ASSUME NEW S, IsFiniteSet(S), \A q \in S : LegTicks(q) \in 0..Grid
    PROVE  /\ Pmf({}) = One0
           /\ \A s \in SUBSET S : s # {} => \E q \in s : Pmf(s) = AddLeg(Pmf(s \ {q}), LegTicks(q))
<1>1. PICK f : Adding(f, S)
  BY AddingExists
<1>2. \A s \in SUBSET S : Pmf(s) = f[s]
  BY <1>1, PmfsOfParts
<1>3. Pmf({}) = One0
  BY <1>1, <1>2 DEF Adding, One0
<1>4. ASSUME NEW s \in SUBSET S, s # {}
      PROVE  \E q \in s : Pmf(s) = AddLeg(Pmf(s \ {q}), LegTicks(q))
  <2> DEFINE q == CHOOSE q \in s : TRUE
  <2>1. q \in s
    BY <1>4
  <2>2. f[s] = AddLeg(f[s \ {q}], LegTicks(q))
    BY <1>1, <1>4 DEF Adding
  <2> HIDE DEF q
  <2>3. Pmf(s) = AddLeg(Pmf(s \ {q}), LegTicks(q))
    BY <1>2, <2>1, <2>2
  <2> QED  BY <2>1, <2>3
<1> QED  BY <1>3, <1>4

\* A ticket of legs that all clear the gate is worth no less, under anything that
\* pays no less for one more correct leg, than one of legs that just reach it.
LEMMA TicketsDominate ==
    ASSUME NEW S, IsFiniteSet(S), Cardinality(S) <= 8, GateTicks \in 0..Grid,
           \A q \in S : LegTicks(q) \in 0..Grid /\ GateTicks <= LegTicks(q)
    PROVE  LET n == Cardinality(S)
           IN  /\ Pmf(S) \in Pmfs(n)
               /\ \A w \in Pmfs(n) : Rising(w, n) => Expected(AtGate[n], w, n) <= Expected(Pmf(S), w, n)
<1> DEFINE Beats(s) == LET n == Cardinality(s)
                       IN  /\ Pmf(s) \in Pmfs(n)
                           /\ \A w \in Pmfs(n) : Rising(w, n) =>
                                Expected(AtGate[n], w, n) <= Expected(Pmf(s), w, n)
           Good == {s \in SUBSET S : Beats(s)}
<1>1. \A s \in SUBSET S : IsFiniteSet(s) /\ Cardinality(s) \in 0..8
  <2> TAKE s \in SUBSET S
  <2>1. IsFiniteSet(s) /\ Cardinality(s) \in Nat /\ Cardinality(S) \in Nat /\ Cardinality(s) <= Cardinality(S)
    BY FS_Subset, FS_CardinalityType
  <2> QED  BY <2>1
<1>2. \A n \in 0..8 : AtGate[n] \in Pmfs(n)
  BY AtGateType
<1>3. \A n \in Nat : \A f \in Pmfs(n), w \in Pmfs(n) : Expected(f, w, n) \in Int
  BY ExpectedIsInt
<1>4. {} \in Good
  <2>1. Cardinality({}) = 0
    BY FS_EmptySet
  <2>2. Pmf({}) = AtGate[0] /\ Pmf({}) \in Pmfs(0)
    BY PmfTakes, AtGateSteps, NoLeg
  <2>3. \A w \in Pmfs(0) : Expected(AtGate[0], w, 0) <= Expected(Pmf({}), w, 0)
    BY <1>3, <2>2
  <2>4. Beats({})
    BY <2>1, <2>2, <2>3
  <2> QED  BY <2>4
<1>5. ASSUME NEW s \in SUBSET S, s # {}, \A x \in s : s \ {x} \in Good
      PROVE  s \in Good
  <2>1. PICK q \in s : Pmf(s) = AddLeg(Pmf(s \ {q}), LegTicks(q))
    BY <1>5, PmfTakes
  <2> DEFINE r == s \ {q}
             n == Cardinality(r)
             f == Pmf(r)
             p == LegTicks(q)
             g == GateTicks
  <2>2. Cardinality(s) = n + 1 /\ n \in 0..8 /\ n + 1 \in 1..8 /\ r \in SUBSET S
    <3>1. IsFiniteSet(s) /\ Cardinality(s) \in 0..8 /\ r \in SUBSET S
      BY <1>1
    <3>2. Cardinality(r) = Cardinality(s) - 1 /\ Cardinality(r) \in 0..8
      BY <1>1, <2>1, <3>1, FS_RemoveElement
    <3> QED  BY <3>1, <3>2
  <2>3. f \in Pmfs(n) /\ \A w \in Pmfs(n) : Rising(w, n) => Expected(AtGate[n], w, n) <= Expected(f, w, n)
    BY <1>5, <2>1
  <2>4. p \in 0..Grid /\ g \in 0..Grid /\ g <= p /\ Pmf(s) = AddLeg(f, p) /\ n \in Nat
    BY <2>1, <2>2
  <2>5. AtGate[n] \in Pmfs(n) /\ AtGate[n + 1] = AddLeg(AtGate[n], g)
    <3>1. (n + 1) - 1 = n
      BY <2>2
    <3> HIDE DEF n, g
    <3> QED  BY <1>2, <2>2, <3>1, AtGateSteps DEF g
  <2> HIDE DEF f, p, g, n, Good
  <2>6. Pmf(s) \in Pmfs(n + 1) /\ AtGate[n + 1] \in Pmfs(n + 1)
    BY <2>3, <2>4, <2>5, AddLegType
  <2>7. ASSUME NEW w \in Pmfs(n + 1), Rising(w, n + 1)
        PROVE  Expected(AtGate[n + 1], w, n + 1) <= Expected(Pmf(s), w, n + 1)
    <3>1. /\ Ahead(w, p, n) \in Pmfs(n) /\ Rising(Ahead(w, p, n), n)
          /\ Ahead(w, g, n) \in Pmfs(n) /\ Rising(Ahead(w, g, n), n)
      BY <2>4, <2>7, AheadRises
    <3>2. \A k \in 0..n : Ahead(w, g, n)[k] <= Ahead(w, p, n)[k]
      BY <2>4, <2>7, BetterLegAhead
    <3>3. Expected(f, Ahead(w, g, n), n) <= Expected(f, Ahead(w, p, n), n)
      BY <2>3, <2>4, <3>1, <3>2, ExpectedLess
    <3>4. Expected(AtGate[n], Ahead(w, g, n), n) <= Expected(f, Ahead(w, g, n), n)
      BY <2>3, <3>1
    <3>5. Expected(Pmf(s), w, n + 1) = Expected(f, Ahead(w, p, n), n)
      BY <2>3, <2>4, <2>7, LegIsFoldedIn
    <3>6. Expected(AtGate[n + 1], w, n + 1) = Expected(AtGate[n], Ahead(w, g, n), n)
      BY <2>4, <2>5, <2>7, LegIsFoldedIn
    <3>7. /\ Expected(AtGate[n], Ahead(w, g, n), n) \in Int /\ Expected(f, Ahead(w, g, n), n) \in Int
          /\ Expected(f, Ahead(w, p, n), n) \in Int
      BY <1>3, <2>3, <2>4, <2>5, <3>1
    <3> QED  BY ONLY <3>3, <3>4, <3>5, <3>6, <3>7
  <2>8. Beats(s)
    BY <2>2, <2>6, <2>7
  <2> QED  BY <2>8 DEF Good
<1>6. S \in Good
  <2>1. \A s \in SUBSET S : s \in Good
    <3> HIDE DEF Good
    <3> QED  BY <1>4, <1>5, PartsInduction
  <2> QED  BY <2>1
<1> QED  BY <1>6

-----------------------------------------------------------------------------
(* What a rule of the table pays for them.                                 *)

\* What Worth recurses over.
Paying(iter, pays, f) ==
    iter = [s \in SUBSET DOMAIN pays |-> IF s = {} THEN 0
                 ELSE LET k == CHOOSE k \in s : TRUE IN iter[s \ {k}] + pays[k] * f[k]]

\* Counts the rule does not name pay nothing.
LEMMA WorthIsExpected ==
    ASSUME NEW n \in Nat, NEW f \in Pmfs(n), NEW pays, DOMAIN pays \subseteq 0..n,
           \A k \in DOMAIN pays : pays[k] \in Nat,
           NEW w, w = [k \in 0..n |-> IF k \in DOMAIN pays THEN pays[k] ELSE 0]
    PROVE  w \in Pmfs(n) /\ Worth(pays, f) = Expected(f, w, n)
<1> DEFINE D == DOMAIN pays
           a == [k \in 0..n |-> f[k] * w[k]]
           g == CHOOSE g : Paying(g, pays, f)
<1>1. w \in Pmfs(n)
  BY DEF Pmfs
<1>2. \A k \in 0..n : f[k] \in Nat /\ w[k] \in Nat /\ a[k] = f[k] * w[k]
  BY <1>1 DEF Pmfs
<1>3. \A k \in 0..n : a[k] \in Int
  <2> HIDE DEF a
  <2> QED  BY <1>2
<1>4. \A k \in D : a[k] = pays[k] * f[k]
  <2> TAKE k \in D
  <2>1. k \in 0..n /\ w[k] = pays[k] /\ pays[k] \in Nat /\ f[k] \in Nat
    BY <1>2
  <2> HIDE DEF a
  <2>2. a[k] = f[k] * pays[k]
    BY <1>2, <2>1
  <2> QED  BY <2>1, <2>2
<1>5. \A k \in (0..n) \ D : a[k] = 0
  <2> TAKE k \in (0..n) \ D
  <2>1. k \in 0..n /\ w[k] = 0
    OBVIOUS
  <2> HIDE DEF a
  <2>2. f[k] \in Nat /\ a[k] = f[k] * 0
    BY <1>2, <2>1
  <2> QED  BY <2>2
<1>6. Expected(f, w, n) = Weight(a, 0..n)
  BY DEF Expected
<1> HIDE DEF a
<1>7. Weighs(a, 0..n) /\ Weighs(a, D) /\ D \in SUBSET (0..n)
  <2>1. n \in 0..n /\ D \subseteq 0..n
    OBVIOUS
  <2>2. Weighs(a, 0..n)
    BY <1>3, <2>1, WeightToNext
  <2> HIDE DEF D
  <2> QED  BY <2>1, <2>2, FS_Subset DEF Weighs
<1>8. Weight(a, 0..n) = Weight(a, D)
  <2> HIDE DEF D
  <2> QED  BY <1>5, <1>7, WeightOfPart
<1>9. ASSUME NEW h
      PROVE  Adds(h, D, a) <=> Paying(h, pays, f)
  <2>1. ASSUME NEW s \in SUBSET D, s # {}
        PROVE  LET k == CHOOSE k \in s : TRUE IN h[s \ {k}] + a[k] = h[s \ {k}] + pays[k] * f[k]
    <3> DEFINE k == CHOOSE k \in s : TRUE
    <3>1. k \in D
      BY <2>1
    <3> HIDE DEF k
    <3>2. a[k] = pays[k] * f[k]
      BY <1>4, <3>1
    <3> QED  BY <3>2 DEF k
  <2> QED  BY <2>1 DEF Adds, Paying
<1>10. Worth(pays, f) = g[D]
  BY DEF Worth, FoldSet, MapThenFoldSet, Paying
<1>11. Adds(g, D, a)
  <2>1. PICK h : Adds(h, D, a)
    BY <1>7, AddsExists
  <2>2. Paying(h, pays, f)
    BY <1>9, <2>1
  <2>3. Paying(g, pays, f)
    BY <2>2, Zenon
  <2> HIDE DEF g
  <2> QED  BY <1>9, <2>3
<1>12. Weight(a, D) = g[D]
  <2> HIDE DEF g, D
  <2> QED  BY <1>7, <1>11, WeightIsIter
<1> QED  BY <1>1, <1>6, <1>8, <1>10, <1>12

-----------------------------------------------------------------------------
(* The legs the console shows.                                             *)

\* A candidate has cleared the gate, on whatever side; the console shows
\* candidates of a board that is done.
LegsInv ==
    /\ \A q \in Quote : board[q].status = "candidate" => ~(board[q].lower < Breakeven + Margin)
    /\ qualified \subseteq Quote
    /\ qualified # {} => next = Len(Queue)
    /\ \A q \in qualified : board[q].status = "candidate"

\* The gate answers "candidate" only of a bound that reaches it.
LEMMA CandidateClears ==
    ASSUME NEW side, NEW p, NEW w, NEW blocked \in BOOLEAN, NEW c,
           Decision(side, p, w, blocked, c).status = "candidate"
    PROVE  ~(Decision(side, p, w, blocked, c).lower < Breakeven + Margin)
<1> DEFINE over  == IF side = "over" THEN p ELSE One - p
           under == IF side = "under" THEN p ELSE One - p
           raw == Max({over, under})
           low == Max({0, Toward(raw, 4 - Factor) - w})
           why == Blocks(blocked, c)
           st  == IF why # {} THEN CHOOSE x \in why : TRUE
                  ELSE IF low < Breakeven + Margin THEN "declined_no_edge" ELSE "candidate"
<1>1. Decision(side, p, w, blocked, c) =
        [side |-> Side(over, under), raw |-> raw, lower |-> low, status |-> st]
  BY DEF Decision, Decide
<1>2. why = {} \/ \E x \in Reasons : why = {x}
  BY GatesNameOne
<1> HIDE DEF raw, low, why
<1>3. Decision(side, p, w, blocked, c).lower = low /\ st = "candidate"
  BY <1>1
<1>4. why = {}
  <2> SUFFICES ASSUME NEW x \in Reasons, why = {x}
               PROVE  FALSE
    BY <1>2
  <2>1. st = x
    OBVIOUS
  <2>2. x # "candidate"
    BY DEF Reasons
  <2> HIDE DEF st
  <2> QED  BY <1>3, <2>1, <2>2
<1> QED  BY <1>3, <1>4

LEMMA LegsKept ==
    ASSUME PricingAssumption, TurnInv, LegsInv, [EntriesNext]_entriesVars
    PROVE  LegsInv'
<1>1. CASE UNCHANGED board /\ UNCHANGED qualified /\ next' = next
  BY <1>1 DEF LegsInv
<1>2. CASE ShowBoard
  BY <1>2 DEF ShowBoard, LegsInv, Qualifies, pricingVars
<1>3. CASE Conclude /\ UNCHANGED deskVars
  <2>1. stage = "ruled" /\ next < Len(Queue) /\ next' = next /\ qualified' = qualified
    BY <1>3 DEF Conclude, TurnInv, deskVars
  <2>2. qualified = {}
    <3>1. next \in Nat
      BY DEF TurnInv
    <3> QED  BY <2>1, <3>1 DEF LegsInv
  <2> DEFINE d == Decision(work.side, Guarded(work.p), work.score.width, work.blocked, work.given)
  <2>3. board' = [board EXCEPT ![Current] = d]
    BY <1>3 DEF Conclude
  <2>4. work.blocked \in BOOLEAN
    BY DEF TurnInv, Numbers
  <2>5. d.status = "candidate" => ~(d.lower < Breakeven + Margin)
    BY <2>4, CandidateClears
  <2> HIDE DEF d
  <2>6. \A q \in Quote : board'[q] = d \/ board'[q] = board[q]
    BY <2>3 DEF TurnInv
  <2> QED  BY <2>1, <2>2, <2>5, <2>6 DEF LegsInv
<1>4. CASE Advance /\ UNCHANGED deskVars
  <2>1. stage = "decided" /\ next < Len(Queue) /\ board' = board /\ qualified' = qualified
    BY <1>4 DEF Advance, TurnInv, deskVars
  <2>2. qualified = {}
    <3>1. next \in Nat
      BY DEF TurnInv
    <3> QED  BY <2>1, <3>1 DEF LegsInv
  <2> QED  BY <2>1, <2>2 DEF LegsInv
<1>5. CASE (Score \/ ApplyRules) /\ UNCHANGED deskVars
  BY <1>1, <1>5 DEF Score, ApplyRules, deskVars
<1>6. CASE PriceAndEnter \/ SuggestAndEnter \/ UNCHANGED entriesVars
  BY <1>1, <1>6 DEF PriceAndEnter, SuggestAndEnter, entriesVars, pricingVars, deskVars
<1> QED  BY <1>2, <1>3, <1>4, <1>5, <1>6 DEF EntriesNext, PricingNext

\* Ticks are rounded down, so they keep the order.
LEMMA TicksOf ==
    ASSUME NEW d \in Nat, d > 0, NEW x \in 0..(Grid * d), NEW y \in 0..(Grid * d), x <= y
    PROVE  x \div d \in 0..Grid /\ y \div d \in 0..Grid /\ x \div d <= y \div d
<1>1. \A z \in 0..(Grid * d) : /\ z \div d \in Int
                             /\ d * (z \div d) <= z /\ z < d * (z \div d) + d
  OBVIOUS
<1>2. PICK i \in Int, j \in Int : i = x \div d /\ j = y \div d
  BY <1>1
<1>3. d * i <= x /\ x < d * i + d /\ d * j <= y /\ y < d * j + d
  BY <1>1, <1>2
<1>4. \A u, v \in Int : u < v => d * u + d <= d * v
  <2> TAKE u, v \in Int
  <2>1. u < v => d * (v - u - 1) >= 0
    OBVIOUS
  <2> QED  BY <2>1
<1>5. i >= 0 /\ j >= 0
  <2>1. i < 0 => d * i + d <= d * 0
    BY <1>4
  <2>2. j < 0 => d * j + d <= d * 0
    BY <1>4
  <2> QED  BY <1>3, <2>1, <2>2
<1>6. i <= Grid /\ j <= Grid
  <2>1. Grid < i => d * Grid + d <= d * i
    BY <1>4
  <2>2. Grid < j => d * Grid + d <= d * j
    BY <1>4
  <2> QED  BY <1>3, <2>1, <2>2
<1>7. i <= j
  <2>1. j < i => d * j + d <= d * i
    BY <1>4
  <2> QED  BY <1>3, <2>1
<1> QED  BY <1>2, <1>5, <1>6, <1>7

LEMMA LegsBreakEven ==
    ASSUME PricingAssumption, EntriesAssumption, PayoutAssumption, TurnInv, LegsInv
    PROVE  QualifiedLegsBreakEven
<1> SUFFICES ASSUME NEW S \in SUBSET qualified, NEW type \in {"power", "flex"},
                    <<type, Cardinality(S)>> \in DOMAIN Payouts
             PROVE  GrossReturn(S, type) >= 100 * Grid^Cardinality(S)
  BY DEF QualifiedLegsBreakEven
<1> DEFINE n == Cardinality(S)
           rule == <<type, n>>
           pays == Payouts[rule]
           w == [k \in 0..n |-> IF k \in DOMAIN pays THEN pays[k] ELSE 0]
<1>1. n \in 2..8 /\ n \in Nat /\ rule[2] = n
  BY DEF EntriesAssumption
<1>2. IsFiniteSet(S) /\ S \subseteq Quote /\ S # {}
  <2>1. S \subseteq Quote /\ IsFiniteSet(Quote)
    BY DEF LegsInv, PricingAssumption
  <2>2. Cardinality({}) = 0
    BY FS_EmptySet
  <2>3. S # {}
    <3>1. S = {} => n = 0
      BY <2>2
    <3> HIDE DEF n
    <3> QED  BY <1>1, <3>1
  <2> QED  BY <2>1, <2>3, FS_Subset
<1>3. \A q \in S : GateTicks \in 0..Grid /\ LegTicks(q) \in 0..Grid /\ GateTicks <= LegTicks(q)
  <2> TAKE q \in S
  <2>1. Tick \in Nat /\ Tick * Grid = One /\ Tick > 0 /\ One = Grid * Tick
    BY DEF EntriesAssumption, PricingAssumption
  <2>2. q \in Quote /\ board[q].lower \in 0..One /\ ~(board[q].lower < Breakeven + Margin)
    BY <1>2 DEF LegsInv, TurnInv, Decisions
  <2>3. Breakeven \in Nat /\ Margin \in Nat
    BY DEF PricingAssumption
  <2>4. PICK x \in Nat, y \in Nat : x = Breakeven + Margin /\ y = board[q].lower
    BY <2>2, <2>3
  <2>5. x \in 0..(Grid * Tick) /\ y \in 0..(Grid * Tick) /\ x <= y
    <3>1. y \in 0..One /\ ~(y < x) /\ One \in Nat
      BY <2>2, <2>4, Zenon DEF PricingAssumption
    <3>2. x \in 0..One /\ x <= y
      BY ONLY <2>4, <3>1
    <3> QED  BY <2>1, <3>1, <3>2, Zenon
  <2>6. x \div Tick \in 0..Grid /\ y \div Tick \in 0..Grid /\ x \div Tick <= y \div Tick
    BY <2>1, <2>5, TicksOf
  <2> QED  BY <2>4, <2>6 DEF GateTicks, LegTicks
<1>4. /\ DOMAIN pays \subseteq 0..n /\ \A k \in DOMAIN pays : pays[k] \in Nat
      /\ \A k \in 1..n : Paid(rule, k - 1) <= Paid(rule, k)
      /\ Worth(pays, AtGate[n]) >= 100 * Grid^n
  BY <1>1 DEF PayoutAssumption
<1>5. /\ Pmf(S) \in Pmfs(n)
      /\ \A v \in Pmfs(n) : Rising(v, n) => Expected(AtGate[n], v, n) <= Expected(Pmf(S), v, n)
  <2>1. GateTicks \in 0..Grid /\ Cardinality(S) <= 8
    BY <1>1, <1>2, <1>3
  <2> HIDE DEF n
  <2> QED  BY <1>2, <1>3, <2>1, TicketsDominate DEF n
<1>6. AtGate[n] \in Pmfs(n)
  <2>1. GateTicks \in 0..Grid /\ n \in 0..8
    BY <1>1, <1>2, <1>3
  <2> QED  BY <2>1, AtGateType
<1>7. \A k \in 0..n : Paid(rule, k) = w[k]
  BY DEF Paid
<1> HIDE DEF n, rule, pays
<1>8. \E v : v = w
  OBVIOUS
<1>9. /\ w \in Pmfs(n) /\ Worth(pays, Pmf(S)) = Expected(Pmf(S), w, n)
      /\ Worth(pays, AtGate[n]) = Expected(AtGate[n], w, n)
  BY <1>1, <1>4, <1>5, <1>6, WorthIsExpected
<1>10. Rising(w, n)
  <2> SUFFICES ASSUME NEW k \in 0..(n - 1)
               PROVE  w[k] <= w[k + 1]
    BY DEF Rising
  <2>1. k \in 0..n /\ k + 1 \in 1..n /\ k + 1 \in 0..n /\ (k + 1) - 1 = k
    BY <1>1
  <2>2. w[k] = Paid(rule, k) /\ w[k + 1] = Paid(rule, k + 1)
    BY <1>7, <2>1
  <2>3. Paid(rule, (k + 1) - 1) <= Paid(rule, k + 1)
    BY <1>4, <2>1
  <2> HIDE DEF w
  <2> QED  BY <2>1, <2>2, <2>3
<1>11. Expected(AtGate[n], w, n) <= Expected(Pmf(S), w, n)
  BY <1>5, <1>9, <1>10
<1>12. GrossReturn(S, type) = Worth(pays, Pmf(S))
  BY DEF GrossReturn, pays, rule, n
<1> HIDE DEF w
<1>13. Expected(AtGate[n], w, n) \in Int /\ Expected(Pmf(S), w, n) \in Int
  BY <1>1, <1>5, <1>6, <1>9, ExpectedIsInt
<1>14. 100 * Grid^n \in Int
  BY <1>1
<1> QED  BY <1>4, <1>9, <1>11, <1>12, <1>13, <1>14 DEF n

\* "Every leg must clear the two-leg power play's break-even" is enough for
\* every ticket: whatever quotes, scores and rules, a ticket of qualified legs
\* of any size the table names is worth its stake if its legs are independent,
\* provided one more correct leg never pays less and legs at the gate break even.
THEOREM QualifiedLegsAreWorthIt == EntriesSpec => []QualifiedLegsBreakEven
<1>1. EntriesInit => LegsInv
  BY DEF EntriesInit, PricingInit, LegsInv, NoDecision
<1>2. TurnInv /\ LegsInv /\ [EntriesNext]_entriesVars => LegsInv'
  BY PricingAssumption, LegsKept
<1>3. TurnInv /\ LegsInv => QualifiedLegsBreakEven
  BY PricingAssumption, EntriesAssumption, PayoutAssumption, LegsBreakEven
<1> QED  BY <1>1, <1>2, <1>3, TurnsAreInOrder, PTL DEF EntriesSpec
=============================================================================
