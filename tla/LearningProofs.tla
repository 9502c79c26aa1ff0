--------------------------- MODULE LearningProofs ---------------------------
(***************************************************************************)
(* Theorems about Learning, for every number of forecasts, markets and     *)
(* components.                                                             *)
(*                                                                         *)
(* The fits are ordered by a lock nobody sees: the first UPDATE of one     *)
(* takes the live rows, so at most one fit has its rows superseded and     *)
(* uncommitted, it is no older than what it supersedes, and nobody else    *)
(* changes them until it ends.  Tables only grow otherwise, which is why   *)
(* what a forecast was made with can be found again.                       *)
(*                                                                         *)
(* The second half is about what the fits compute.  The weights are capped *)
(* by scaling a family down and giving what it loses to the others, the    *)
(* calibration map is what pooling adjacent violators leaves, and the      *)
(* chain goes: pooled blocks are the record's points in order, each        *)
(* block's head is worth no more than the block and its tail no less, so a *)
(* block stands at the level the max-min formula gives, and the map read   *)
(* between them never falls.  A fit whose episodes are over keeps that     *)
(* promise for ever, since no box score changes.                           *)
(***************************************************************************)
EXTENDS Learning, FiniteSetTheorems, SequenceTheorems, WellFoundedInduction, TLAPS

-----------------------------------------------------------------------------
(* The invariant.                                                          *)

\* A row of fitted_parameters; what its value is does not matter.
IsRow(r) ==
    /\ r = [value |-> r.value, at |-> r.at, of |-> r.of, live |-> r.live]
    /\ r.at \in Nat /\ r.live \in BOOLEAN

\* A history is closed but for its last row, and runs forward.
IsHistory(h) ==
    /\ h \in Seq({h[i] : i \in DOMAIN h})
    /\ \A i \in DOMAIN h : IsRow(h[i]) /\ (h[i].live <=> i = Len(h))
    /\ \A i, j \in DOMAIN h : i < j => h[i].at <= h[j].at

RowsInv == \A k \in Key : IsHistory(rows[k])

IsJob(j) ==
    /\ j = [cmd |-> j.cmd, stage |-> j.stage, seen |-> j.seen, at |-> j.at,
            map |-> j.map, guard |-> j.guard]
    /\ j.seen \subseteq Episode /\ j.at \in Nat

JobsInv == job = [p \in Process |-> job[p]] /\ fits \in Nat /\ \A p \in Process : IsJob(job[p])

\* One fit holds the live rows, and it is no older than they are.
LockInv ==
    \A p \in Process : job[p].stage = "stored" =>
        /\ p \in {Nightly, Cli}
        /\ \A q \in Process : job[q].stage = "stored" => p = q
        /\ \A k \in Kind \X Markets(job[p].seen) : \A i \in Live(k) : rows[k][i].at <= job[p].at

FitInv == RowsInv /\ JobsInv /\ LockInv

IncidentRow == [series : Series, severity : {"warning", "blocking"}, open : BOOLEAN]

\* A series has one open incident at most; the newest status says whether it has.
GuardInv ==
    /\ incidents \in Seq(IncidentRow)
    /\ \A c \in Series : /\ \A i, j \in Open(c) : i = j
                         /\ verdict[c] = "degraded" => Open(c) # {}
                         /\ verdict[c] = "healthy" => Open(c) = {}

\* What a forecast may have been made with.
MapOnRecord(prop, map) ==
    \/ map = Identity(0)
    \/ \E q \in {prop, All} : \E i \in DOMAIN rows[<<"calibration_map", q>>] :
          map = rows[<<"calibration_map", q>>][i].value
GuardOnRecord(guard) ==
    guard = 0 \/ \E i \in DOMAIN incidents :
                    guard = IF incidents[i].severity = "blocking" THEN 50 ELSE 25

\* The episode a forecast run is at.
Ahead == Cardinality(Made) + 1

\* A run at work holds a map and a guard of the record, and so does every forecast.
LoadedInv ==
    job[Timer].cmd = "forecast" =>
        /\ Ahead \in Episode
        /\ MapOnRecord(PropOf[MarketOf[Ahead]], job[Timer].map)
        /\ GuardOnRecord(job[Timer].guard)

ExplainedInv == DOMAIN made = Episode /\ LoadedInv /\ ForecastsStayExplicable

IInv == FitInv /\ GuardInv /\ ExplainedInv

-----------------------------------------------------------------------------
(* Superseding a row.                                                      *)

\* A history stays one when a row no older than the live one supersedes it, and
\* the values it held stay where they were.
LEMMA SupersedeHistory ==
    ASSUME NEW h, IsHistory(h), NEW row, IsRow(row), row.live,
           \A i \in DOMAIN h : h[i].live => h[i].at <= row.at
    PROVE  /\ IsHistory(Supersede(h, row))
           /\ \A i \in DOMAIN h : /\ i \in DOMAIN Supersede(h, row)
                                  /\ Supersede(h, row)[i].value = h[i].value
<1> DEFINE n == Len(h)
           closed == [i \in DOMAIN h |-> [h[i] EXCEPT !.live = FALSE]]
           R == {closed[i] : i \in DOMAIN h} \cup {row}
           s == Append(closed, row)
<1>1. n \in Nat /\ DOMAIN h = 1..n
  BY LenProperties DEF IsHistory
<1>2. closed \in Seq(R) /\ Len(closed) = n /\ DOMAIN closed = 1..n
  <2>1. closed \in [1..n -> R]
    BY <1>1
  <2> HIDE DEF closed, n, R
  <2> QED  BY <1>1, <2>1
<1>3. /\ s \in Seq(R) /\ Len(s) = n + 1 /\ DOMAIN s = 1..(n + 1)
      /\ \A i \in 1..n : s[i] = closed[i]
      /\ s[n + 1] = row
  <2> HIDE DEF closed, n
  <2>1. row \in R
    OBVIOUS
  <2> HIDE DEF R
  <2> QED  BY <1>1, <1>2, <2>1
<1>4. \A i \in 1..n : /\ IsRow(s[i]) /\ ~s[i].live
                      /\ s[i].at = h[i].at /\ s[i].value = h[i].value
  <2> TAKE i \in 1..n
  <2>1. s[i] = [h[i] EXCEPT !.live = FALSE]
    BY <1>1, <1>3
  <2>2. /\ h[i] = [value |-> h[i].value, at |-> h[i].at, of |-> h[i].of, live |-> h[i].live]
        /\ h[i].at \in Nat
    BY <1>1 DEF IsHistory, IsRow
  <2>3. s[i] = [value |-> h[i].value, at |-> h[i].at, of |-> h[i].of, live |-> FALSE]
    <3> HIDE DEF s, n
    <3> QED  BY <2>1, <2>2
  <2> HIDE DEF s, n
  <2> QED  BY <2>2, <2>3 DEF IsRow
<1>5. s = Supersede(h, row)
  BY DEF Supersede
<1> HIDE DEF s, closed, R
<1>6. s \in Seq({s[i] : i \in DOMAIN s})
  <2>1. s \in [1..(n + 1) -> {s[i] : i \in DOMAIN s}]
    BY <1>1, <1>3
  <2>2. n + 1 \in Nat
    BY <1>1
  <2> HIDE DEF n
  <2> QED  BY <1>3, <2>1, <2>2
<1>7. \A i \in DOMAIN s : IsRow(s[i]) /\ (s[i].live <=> i = Len(s))
  <2> TAKE i \in DOMAIN s
  <2>1. CASE i \in 1..n
    <3>1. i # Len(s)
      BY <1>1, <1>3, <2>1
    <3> QED  BY <1>4, <2>1, <3>1
  <2>2. CASE i = n + 1
    BY <1>3, <2>2
  <2> QED  BY <1>1, <1>3, <2>1, <2>2
<1>8. \A i \in 1..n : h[i].at <= row.at
  <2> TAKE i \in 1..n
  <2>1. n \in DOMAIN h /\ h[n].live
    BY <1>1 DEF IsHistory
  <2>2. h[n].at <= row.at /\ h[n].at \in Nat /\ h[i].at \in Nat /\ row.at \in Nat
    BY <1>1, <2>1 DEF IsHistory, IsRow
  <2>3. i = n \/ h[i].at <= h[n].at
    BY <1>1, <2>1 DEF IsHistory
  <2> QED  BY <2>2, <2>3
<1>9. \A i, j \in DOMAIN s : i < j => s[i].at <= s[j].at
  <2> TAKE i, j \in DOMAIN s
  <2> HAVE i < j
  <2>1. i \in 1..n
    BY <1>1, <1>3
  <2>2. CASE j \in 1..n
    BY <1>1, <1>4, <2>1, <2>2 DEF IsHistory
  <2>3. CASE j = n + 1
    BY <1>3, <1>4, <1>8, <2>1, <2>3
  <2> QED  BY <1>1, <1>3, <2>2, <2>3
<1>10. IsHistory(s)
  BY <1>6, <1>7, <1>9 DEF IsHistory
<1> QED  BY <1>1, <1>3, <1>4, <1>5, <1>10

-----------------------------------------------------------------------------
(* Opening and resolving incidents.                                        *)

\* The sequence made of a finite set names each of its members once.
LEMMA SetToSeqProperties ==
    ASSUME NEW S, IsFiniteSet(S)
    PROVE  /\ SetToSeq(S) \in Seq(S)
           /\ \A i, j \in DOMAIN SetToSeq(S) : SetToSeq(S)[i] = SetToSeq(S)[j] => i = j
           /\ \A x \in S : \E i \in DOMAIN SetToSeq(S) : SetToSeq(S)[i] = x
<1> DEFINE n == Cardinality(S)
           s == SetToSeq(S)
<1>1. n \in Nat /\ ExistsBijection(1..n, S)
  BY FS_CardinalityType
<1>2. \E f \in [1..n -> S] : IsInjective(f)
  BY <1>1 DEF ExistsBijection, Bijection, Injection
<1>3. s \in [1..n -> S] /\ IsInjective(s)
  BY <1>2 DEF SetToSeq
<1>4. s \in Injection(1..n, S) /\ IsFiniteSet(1..n) /\ Cardinality(1..n) = n
  BY <1>1, <1>3, FS_Interval DEF Injection
<1>5. s \in Surjection(1..n, S)
  <2> HIDE DEF s, n
  <2> QED  BY <1>4, FS_Injection DEF n
<1> HIDE DEF s, n
<1>6. s \in Seq(S)
  BY <1>1, <1>3
<1>7. DOMAIN s = 1..n
  BY <1>3
<1> QED  BY <1>3, <1>5, <1>6, <1>7 DEF IsInjective, Surjection, s

\* What an evaluation adds to the incidents.
Opened(S) == SetToSeq({Incident(c, S) : c \in Opening(S)})

LEMMA OpeningIncidents ==
    ASSUME NEW S, NEW opened, opened = Opened(S)
    PROVE  /\ opened \in Seq(IncidentRow)
           /\ \A j \in DOMAIN opened : opened[j].series \in Opening(S) /\ opened[j].open
           /\ \A c \in Opening(S) : \E j \in DOMAIN opened : opened[j].series = c
           /\ \A i, j \in DOMAIN opened : opened[i].series = opened[j].series => i = j
<1> DEFINE N == {Incident(c, S) : c \in Opening(S)}
           new == SetToSeq(N)
           f == [c \in Opening(S) |-> Incident(c, S)]
<1>1. IsFiniteSet(Series)
  BY LearningAssumption, FS_Singleton, FS_Union DEF Series
<1>2. Opening(S) \in SUBSET Series
  BY DEF Opening
<1>3. IsFiniteSet(Opening(S))
  BY <1>1, <1>2, FS_Subset
<1>4. f \in Surjection(Opening(S), N)
  BY DEF Surjection
<1>5. IsFiniteSet(N)
  <2> HIDE DEF f, N
  <2> QED  BY <1>3, <1>4, FS_Surjection
<1>6. \A x \in N : x \in IncidentRow /\ x.series \in Opening(S) /\ x.open
  <2> TAKE x \in N
  <2>1. PICK c \in Opening(S) : x = Incident(c, S)
    OBVIOUS
  <2>2. Severity(c, S) \in {"warning", "blocking"}
    BY DEF Severity
  <2> QED  BY <1>2, <2>1, <2>2 DEF Incident, IncidentRow
<1>7. \A x, y \in N : x.series = y.series => x = y
  <2> TAKE x, y \in N
  <2>1. PICK c \in Opening(S) : x = Incident(c, S)
    OBVIOUS
  <2>2. PICK d \in Opening(S) : y = Incident(d, S)
    OBVIOUS
  <2> QED  BY <2>1, <2>2 DEF Incident
<1>8. \A c \in Opening(S) : \E x \in N : x.series = c
  <2> TAKE c \in Opening(S)
  <2>1. Incident(c, S) \in N /\ Incident(c, S).series = c
    BY DEF Incident
  <2> QED  BY <2>1
<1> HIDE DEF N
<1>9. /\ new \in Seq(N)
      /\ \A i, j \in DOMAIN new : new[i] = new[j] => i = j
      /\ \A x \in N : \E i \in DOMAIN new : new[i] = x
  BY <1>5, SetToSeqProperties
<1> HIDE DEF new
<1>10. \A j \in DOMAIN new : new[j] \in N
  BY <1>9
<1>11. new \in Seq(IncidentRow)
  BY <1>6, <1>9, SeqMonotonic
<1>12. \A j \in DOMAIN new : new[j].series \in Opening(S) /\ new[j].open
  BY <1>6, <1>10
<1>13. \A c \in Opening(S) : \E j \in DOMAIN new : new[j].series = c
  BY <1>8, <1>9
<1>14. \A i, j \in DOMAIN new : new[i].series = new[j].series => i = j
  BY <1>7, <1>9, <1>10
<1>15. opened = new
  BY DEF new, N, Opened
<1> QED  BY <1>11, <1>12, <1>13, <1>14, <1>15

\* What an evaluation leaves of an incident: its series and its severity, and it
\* is open as long as its series is not healthy.
Resolved(S) == [i \in DOMAIN incidents |->
                  [incidents[i] EXCEPT !.open = @ /\ incidents[i].series \notin Closing(S)]]

LEMMA ResolvedIncidents ==
    ASSUME incidents \in Seq(IncidentRow), NEW S
    PROVE  /\ Resolved(S) \in Seq(IncidentRow) /\ Len(Resolved(S)) = Len(incidents)
           /\ \A i \in DOMAIN incidents :
                /\ Resolved(S)[i].series = incidents[i].series
                /\ Resolved(S)[i].severity = incidents[i].severity
                /\ Resolved(S)[i].open <=> /\ incidents[i].open
                                           /\ incidents[i].series \notin Closing(S)
<1> DEFINE n == Len(incidents)
<1>1. n \in Nat /\ DOMAIN incidents = 1..n
  BY LenProperties
<1>2. ASSUME NEW i \in DOMAIN incidents
      PROVE  /\ Resolved(S)[i] \in IncidentRow
             /\ Resolved(S)[i].series = incidents[i].series
             /\ Resolved(S)[i].severity = incidents[i].severity
             /\ Resolved(S)[i].open <=> /\ incidents[i].open
                                        /\ incidents[i].series \notin Closing(S)
  <2> DEFINE open == incidents[i].open /\ incidents[i].series \notin Closing(S)
  <2>1. incidents[i] \in IncidentRow
    BY <1>1
  <2>2. open \in BOOLEAN
    OBVIOUS
  <2>3. Resolved(S)[i] = [incidents[i] EXCEPT !.open = open]
    BY DEF Resolved
  <2> HIDE DEF open
  <2>4. /\ Resolved(S)[i] \in IncidentRow
        /\ Resolved(S)[i].series = incidents[i].series
        /\ Resolved(S)[i].severity = incidents[i].severity
        /\ Resolved(S)[i].open = open
    BY <2>1, <2>2, <2>3 DEF IncidentRow
  <2> QED  BY <2>4 DEF open
<1>3. Resolved(S) \in [1..n -> IncidentRow]
  BY <1>1, <1>2 DEF Resolved
<1>4. Resolved(S) \in Seq(IncidentRow) /\ Len(Resolved(S)) = n
  <2> HIDE DEF n
  <2> QED  BY <1>1, <1>3
<1> QED  BY <1>2, <1>4

\* Indices of a sequence continued by another.
LEMMA ConcatIndices ==
    ASSUME NEW R, NEW s \in Seq(R), NEW t \in Seq(R)
    PROVE  /\ s \o t \in Seq(R)
           /\ \A i \in DOMAIN s : i \in DOMAIN (s \o t) /\ (s \o t)[i] = s[i]
           /\ \A j \in DOMAIN t : Len(s) + j \in DOMAIN (s \o t) /\ (s \o t)[Len(s) + j] = t[j]
           /\ \A i \in DOMAIN (s \o t) : i \in DOMAIN s \/ \E j \in DOMAIN t : i = Len(s) + j
           /\ \A i \in DOMAIN s, j \in DOMAIN t : i # Len(s) + j
<1>1. /\ Len(s) \in Nat /\ DOMAIN s = 1..Len(s)
      /\ Len(t) \in Nat /\ DOMAIN t = 1..Len(t)
  BY LenProperties
<1>2. /\ s \o t \in Seq(R) /\ Len(s \o t) = Len(s) + Len(t)
      /\ \A i \in 1..(Len(s) + Len(t)) :
            (s \o t)[i] = IF i <= Len(s) THEN s[i] ELSE t[i - Len(s)]
  BY ConcatProperties
<1>3. DOMAIN (s \o t) = 1..(Len(s) + Len(t))
  BY <1>1, <1>2, LenProperties
<1> DEFINE st == s \o t
<1>4. \A i \in DOMAIN s : i \in DOMAIN st /\ st[i] = s[i]
  <2> HIDE DEF st
  <2> QED  BY <1>1, <1>2, <1>3 DEF st
<1>5. \A j \in DOMAIN t : Len(s) + j \in DOMAIN st /\ st[Len(s) + j] = t[j]
  <2> TAKE j \in DOMAIN t
  <2>1. Len(s) + j \in 1..(Len(s) + Len(t)) /\ ~(Len(s) + j <= Len(s)) /\ Len(s) + j - Len(s) = j
    BY <1>1
  <2> QED  BY <1>2, <1>3, <2>1
<1>6. \A i \in DOMAIN st : i \in DOMAIN s \/ \E j \in DOMAIN t : i = Len(s) + j
  <2> TAKE i \in DOMAIN st
  <2>1. CASE i <= Len(s)
    BY <1>1, <1>3, <2>1
  <2>2. CASE ~(i <= Len(s))
    <3>1. i - Len(s) \in DOMAIN t /\ i = Len(s) + (i - Len(s))
      BY <1>1, <1>3, <2>2
    <3> QED  BY <3>1
  <2> QED  BY <2>1, <2>2
<1>7. \A i \in DOMAIN s, j \in DOMAIN t : i # Len(s) + j
  BY <1>1
<1> QED  BY <1>2, <1>4, <1>5, <1>6, <1>7

\* The tables of parameters and incidents only grow: what a forecast read of them
\* is there for ever.
Grows ==
    /\ \A k \in Key : \A i \in DOMAIN rows[k] :
          i \in DOMAIN rows'[k] /\ rows'[k][i].value = rows[k][i].value
    /\ \A i \in DOMAIN incidents :
          i \in DOMAIN incidents' /\ incidents'[i].severity = incidents[i].severity

LEMMA StatusOfNothing == \A c : Status(c, {}) = "insufficient_data"
<1>1. MarketsOf({}) = {}
  BY DEF MarketsOf
<1>2. ~Sufficient({})
  BY <1>1, FS_EmptySet DEF Sufficient, EffectiveReaches
<1> QED  BY <1>2 DEF Status

\* An evaluation leaves exactly one incident open for a series it found degraded,
\* none for one it found healthy, and of any other what there was.
LEMMA EvaluateGuards ==
    ASSUME GuardInv, Evaluate
    PROVE  GuardInv' /\ Grows
<1>0. PICK S, new : /\ S = job[Nightly].seen
                    /\ new = Opened(S)
  OBVIOUS
<1> DEFINE old == Resolved(S)
           n == Len(incidents)
<1>1. /\ incidents' = old \o new
      /\ verdict' = IF S = {} THEN verdict ELSE [c \in Series |-> Status(c, S)]
      /\ rows' = rows
  BY <1>0 DEF Evaluate, Resolved, Opened
<1>2. incidents \in Seq(IncidentRow)
  BY DEF GuardInv
<1>3. /\ new \in Seq(IncidentRow)
      /\ \A j \in DOMAIN new : new[j].series \in Opening(S) /\ new[j].open
      /\ \A c \in Opening(S) : \E j \in DOMAIN new : new[j].series = c
      /\ \A i, j \in DOMAIN new : new[i].series = new[j].series => i = j
  BY <1>0, OpeningIncidents
<1>4. /\ old \in Seq(IncidentRow) /\ Len(old) = n
      /\ \A i \in DOMAIN incidents :
           /\ old[i].series = incidents[i].series
           /\ old[i].severity = incidents[i].severity
           /\ old[i].open <=> incidents[i].open /\ incidents[i].series \notin Closing(S)
  BY <1>2, ResolvedIncidents
<1>5. DOMAIN old = DOMAIN incidents
  BY DEF Resolved
<1>6. \A c \in Series : /\ c \in Opening(S) => Status(c, S) = "degraded" /\ Open(c) = {}
                        /\ Status(c, S) = "degraded" /\ Open(c) = {} => c \in Opening(S)
                        /\ c \in Closing(S) <=> Status(c, S) = "healthy"
  BY DEF Opening, Closing
<1> HIDE DEF old
<1>7. /\ incidents' \in Seq(IncidentRow)
      /\ \A i \in DOMAIN incidents : i \in DOMAIN incidents' /\ incidents'[i] = old[i]
      /\ \A j \in DOMAIN new : n + j \in DOMAIN incidents' /\ incidents'[n + j] = new[j]
      /\ \A i \in DOMAIN incidents' : i \in DOMAIN incidents \/ \E j \in DOMAIN new : i = n + j
      /\ \A i \in DOMAIN incidents, j \in DOMAIN new : i # n + j
  <2> HIDE DEF n
  <2> QED  BY <1>1, <1>3, <1>4, <1>5, ConcatIndices
<1> HIDE DEF n
<1>8. Grows
  BY <1>1, <1>4, <1>7 DEF Grows
<1>9. ASSUME NEW c \in Series
      PROVE  /\ \A i, j \in Open(c)' : i = j
             /\ verdict'[c] = "degraded" => Open(c)' # {}
             /\ verdict'[c] = "healthy" => Open(c)' = {}
  <2>1. \A i \in DOMAIN incidents : i \in Open(c)' <=> i \in Open(c) /\ c \notin Closing(S)
    BY <1>4, <1>7 DEF Open
  <2>2. \A j \in DOMAIN new : n + j \in Open(c)' <=> new[j].series = c
    BY <1>3, <1>7 DEF Open
  <2>3. \A i \in Open(c)' : i \in DOMAIN incidents'
    BY DEF Open
  <2>4. /\ \A i, j \in Open(c) : i = j
        /\ verdict[c] = "degraded" => Open(c) # {}
        /\ verdict[c] = "healthy" => Open(c) = {}
        /\ Open(c) \subseteq DOMAIN incidents
    BY DEF GuardInv, Open
  <2>5. S # {} => verdict'[c] = Status(c, S)
    BY <1>1
  <2>6. S = {} => verdict'[c] = verdict[c] /\ Status(c, S) = "insufficient_data"
    BY <1>1, StatusOfNothing
  <2>7. CASE c \in Opening(S)
    <3>1. Status(c, S) = "degraded" /\ Open(c) = {}
      BY <1>6, <2>7
    <3>2. PICK j \in DOMAIN new : new[j].series = c
      BY <1>3, <2>7
    <3>3. n + j \in Open(c)'
      BY <2>2, <3>2
    <3>4. \A i \in Open(c)' : i = n + j
      <4> TAKE i \in Open(c)'
      <4>1. i \notin DOMAIN incidents
        BY <2>1, <3>1
      <4>2. PICK o \in DOMAIN new : i = n + o
        BY <1>7, <2>3, <4>1
      <4>3. new[o].series = c
        BY <2>2, <4>2
      <4> QED  BY <1>3, <3>2, <4>2, <4>3
    <3>5. verdict'[c] # "healthy"
      BY <2>5, <2>6, <3>1
    <3> QED  BY <3>3, <3>4, <3>5
  <2>8. CASE c \notin Opening(S)
    <3>1. \A i \in Open(c)' : i \in Open(c) /\ c \notin Closing(S)
      <4> TAKE i \in Open(c)'
      <4>1. i \in DOMAIN incidents
        BY <1>3, <1>7, <2>2, <2>3, <2>8
      <4> QED  BY <2>1, <4>1
    <3>2. c \notin Closing(S) => Open(c) \subseteq Open(c)'
      BY <2>1, <2>4
    <3>3. CASE S = {}
      <4>1. c \notin Closing(S)
        BY <1>6, <2>6, <3>3
      <4> QED  BY <2>4, <2>6, <3>1, <3>2, <3>3, <4>1
    <3>4. CASE S # {}
      <4>1. Status(c, S) = "degraded" => Open(c) # {} /\ c \notin Closing(S)
        BY <1>6, <2>8
      <4>2. Status(c, S) = "healthy" => c \in Closing(S)
        BY <1>6
      <4> QED  BY <2>4, <2>5, <3>1, <3>2, <3>4, <4>1, <4>2
    <3> QED  BY <3>3, <3>4
  <2> QED  BY <2>7, <2>8
<1> QED  BY <1>7, <1>8, <1>9 DEF GuardInv

-----------------------------------------------------------------------------
(* The typing of jobs is kept by every step.                               *)

\* Episodes are forecast, settled and read; their markets are known.
LEMMA KeysOfRecord ==
    ASSUME NEW S, S \subseteq Episode
    PROVE  Kind \X Markets(S) \subseteq Key
<1>1. \A e \in S : PropOf[MarketOf[e]] \in Prop
  BY LearningAssumption, SampleAssumption
<1>2. Markets(S) \subseteq Prop \cup {All}
  BY <1>1 DEF Markets
<1> QED  BY <1>2 DEF Key

\* What a step of a fit, a forecast or an evaluation makes of its job.
JobStep(p, j) == IsJob(j) /\ job' = [job EXCEPT ![p] = j]

LEMMA JobStepTyped ==
    ASSUME JobsInv, NEW p \in Process, NEW j, JobStep(p, j), fits' \in Nat
    PROVE  JobsInv' /\ job'[p] = j /\ \A q \in Process : q # p => job'[q] = job[q]
<1>1. DOMAIN job = Process
  BY DEF JobsInv
<1>2. \A q \in Process : job'[q] = IF q = p THEN j ELSE job[q]
  BY <1>1 DEF JobStep
<1>3. job' = [q \in Process |-> job'[q]]
  BY <1>1 DEF JobStep
<1>4. \A q \in Process : IsJob(job[q])
  BY DEF JobsInv
<1>5. \A q \in Process : IsJob(job'[q])
  BY <1>2, <1>4 DEF JobStep
<1>6. \A q \in Process : IsJob(job[q])'
  BY <1>5 DEF IsJob
<1> QED  BY <1>2, <1>3, <1>6 DEF JobsInv

LEMMA IdleIsJob == IsJob(Idle) /\ Idle.stage = "idle" /\ Idle.cmd = "none" /\ Idle.at = 0 /\ Idle.seen = {}
  BY DEF IsJob, Idle

LEMMA ProcessesKnown == Nightly \in Process /\ Timer \in Process /\ Cli \in Process
  BY DEF Process

LEMMA SettledAreEpisodes == Settled \subseteq Episode
  BY DEF Settled, Made

\* The jobs a step may start.
LEMMA ReadingJob ==
    ASSUME NEW c, NEW s, NEW S, NEW i, i = [Idle EXCEPT !.cmd = c, !.stage = s, !.seen = S]
    PROVE  i = [cmd |-> c, stage |-> s, seen |-> S, at |-> 0, map |-> Identity(0), guard |-> 0]
  BY DEF Idle

LEMMA BegunJob ==
    ASSUME NEW c, NEW s, NEW a, NEW i, i = [Idle EXCEPT !.cmd = c, !.stage = s, !.at = a]
    PROVE  i = [cmd |-> c, stage |-> s, seen |-> {}, at |-> a, map |-> Identity(0), guard |-> 0]
  BY DEF Idle

LEMMA ForecastJob ==
    ASSUME NEW c, NEW s, NEW m, NEW g,
           NEW i, i = [Idle EXCEPT !.cmd = c, !.stage = s, !.map = m, !.guard = g]
    PROVE  i = [cmd |-> c, stage |-> s, seen |-> {}, at |-> 0, map |-> m, guard |-> g]
  BY DEF Idle

LEMMA StageMoves ==
    ASSUME NEW j, IsJob(j), NEW s, NEW i, i = [j EXCEPT !.stage = s]
    PROVE  /\ IsJob(i) /\ i.cmd = j.cmd /\ i.stage = s /\ i.seen = j.seen /\ i.at = j.at
           /\ i.map = j.map /\ i.guard = j.guard
<1>1. i = [cmd |-> j.cmd, stage |-> s, seen |-> j.seen, at |-> j.at,
           map |-> j.map, guard |-> j.guard]
  BY DEF IsJob
<1> QED  BY <1>1 DEF IsJob

LEMMA ReadRecordJob ==
    ASSUME NEW k, IsJob(k), NEW S
    PROVE  [k EXCEPT !.stage = "read", !.seen = S]
             = [cmd |-> k.cmd, stage |-> "read", seen |-> S, at |-> k.at, map |-> k.map, guard |-> k.guard]
<1>1. ASSUME NEW i, i = [k EXCEPT !.stage = "read", !.seen = S]
      PROVE  i = [cmd |-> k.cmd, stage |-> "read", seen |-> S, at |-> k.at, map |-> k.map, guard |-> k.guard]
  BY <1>1 DEF IsJob
<1> QED  BY <1>1, Zenon

-----------------------------------------------------------------------------
(* The lock: every step but a commit and a kill moves one job on and       *)
(* leaves the rows alone.                                                  *)

\* Process p goes on with job j; it takes the lock only if nobody has it and no
\* row it would supersede is newer.
Moves(p, j) ==
    /\ JobStep(p, j) /\ fits' \in Nat /\ rows' = rows
    /\ j.stage = "stored" =>
         /\ p \in {Nightly, Cli} /\ \A q \in Process : job[q].stage # "stored"
         /\ \A k \in Kind \X Markets(j.seen) : \A i \in Live(k) : rows[k][i].at <= j.at

LEMMA UnchangedHistories ==
    ASSUME rows' = rows
    PROVE  /\ RowsInv => RowsInv'
           /\ \A k : Live(k)' = Live(k)
<1>1. \A k : Live(k)' = Live(k)
  BY DEF Live
<1>2. RowsInv => RowsInv'
  BY DEF RowsInv
<1> QED  BY <1>1, <1>2

LEMMA MovesKeepTheLock ==
    ASSUME FitInv, NEW p \in Process, NEW j, Moves(p, j)
    PROVE  FitInv' /\ job'[p] = j /\ \A q \in Process : q # p => job'[q] = job[q]
<1>1. JobsInv' /\ job'[p] = j /\ \A q \in Process : q # p => job'[q] = job[q]
  BY JobStepTyped DEF FitInv, Moves
<1>2. RowsInv' /\ rows' = rows
  BY UnchangedHistories DEF FitInv, Moves
<1>3. ASSUME NEW q \in Process, job'[q].stage = "stored"
      PROVE  /\ q \in {Nightly, Cli}
             /\ \A r \in Process : job'[r].stage = "stored" => q = r
             /\ \A k \in Kind \X Markets(job'[q].seen) : \A i \in Live(k)' : rows'[k][i].at <= job'[q].at
  <2>1. CASE q = p
    <3>1. j.stage = "stored" /\ job'[q] = j
      BY <1>1, <1>3, <2>1
    <3>2. \A r \in Process : r # p => job'[r].stage # "stored"
      BY <1>1, <3>1 DEF Moves
    <3>3. \A k \in Kind \X Markets(j.seen) : \A i \in Live(k)' : rows'[k][i].at <= j.at
      BY <1>2, <3>1 DEF Moves, Live
    <3> QED  BY <2>1, <3>1, <3>2, <3>3 DEF Moves
  <2>2. CASE q # p
    <3>1. job'[q] = job[q]
      BY <1>1, <2>2
    <3>2. j.stage # "stored"
      BY <1>3, <3>1 DEF Moves
    <3>3. \A r \in Process : job'[r].stage = "stored" => job[r].stage = "stored"
      BY <1>1, <3>2
    <3>4. \A k \in Kind \X Markets(job[q].seen) : \A i \in Live(k)' : rows'[k][i].at <= job[q].at
      BY <1>2, <1>3, <3>1 DEF FitInv, LockInv, Live
    <3> QED  BY <1>3, <3>1, <3>3, <3>4 DEF FitInv, LockInv
  <2> QED  BY <2>1, <2>2
<1>4. \A q \in Process : job'[q].stage = "stored" =>
        \A k \in (Kind \X Markets(job[q].seen))' : \A i \in Live(k)' : rows'[k][i].at <= job'[q].at
  BY <1>3 DEF Markets
<1>5. LockInv'
  BY <1>3, <1>4 DEF LockInv, Process
<1> QED  BY <1>1, <1>2, <1>5 DEF FitInv

LEMMA LoadMoves ==
    ASSUME FitInv, Load
    PROVE  \E j : /\ Moves(Timer, j) /\ j.map = CalibrationFor(PropOf[MarketOf[Ahead]])
                  /\ j.guard = DriftGuard /\ Ahead \in Episode
<1> DEFINE map == CalibrationFor(PropOf[MarketOf[Ahead]])
           j == [cmd |-> "forecast", stage |-> "read", seen |-> {}, at |-> 0,
                 map |-> map, guard |-> DriftGuard]
<1>1. /\ job' = [job EXCEPT ![Timer] = [Idle EXCEPT !.cmd = "forecast", !.stage = "read",
                    !.map = map, !.guard = DriftGuard]]
      /\ Ahead \in Episode /\ rows' = rows /\ fits' = fits
  BY DEF Load, Ahead, tables
<1> HIDE DEF map
<1>2. job' = [job EXCEPT ![Timer] = j]
  <2> DEFINE i == [Idle EXCEPT !.cmd = "forecast", !.stage = "read", !.map = map, !.guard = DriftGuard]
  <2>1. i = j
    BY ForecastJob
  <2> HIDE DEF i, j
  <2>2. job' = [job EXCEPT ![Timer] = i]
    BY <1>1 DEF i
  <2> QED  BY <2>1, <2>2
<1>3. IsJob(j)
  BY DEF IsJob
<1>4. Moves(Timer, j)
  BY <1>1, <1>2, <1>3 DEF Moves, JobStep, FitInv, JobsInv
<1> QED  BY <1>1, <1>4 DEF map

LEMMA RecordMoves == ASSUME FitInv, Record PROVE Moves(Timer, Idle)
  BY IdleIsJob DEF Record, End, Moves, JobStep, tables, FitInv, JobsInv

LEMMA EvaluateMoves ==
    ASSUME FitInv, Evaluate
    PROVE  \E j : Moves(Nightly, j) /\ j.cmd = "fit"
<1> DEFINE j == [Idle EXCEPT !.cmd = "fit"]
<1>1. IsJob(j) /\ j.cmd = "fit" /\ j.stage = "idle"
  BY IdleIsJob DEF IsJob, Idle
<1>2. job' = [job EXCEPT ![Nightly] = j] /\ rows' = rows /\ fits' = fits
  BY DEF Evaluate
<1> HIDE DEF j
<1>3. Moves(Nightly, j)
  BY <1>1, <1>2 DEF Moves, JobStep, FitInv, JobsInv
<1> QED  BY <1>1, <1>3

\* The steps that touch no table.
JobOnly(p) ==
    \/ p = Nightly /\ (ReadRecord \/ SkipFit)
    \/ p \in {Nightly, Cli} /\ (BeginFit(p) \/ ReadPoints(p) \/ Store(p) \/ Wait(p))

LEMMA JobOnlyMoves ==
    ASSUME FitInv, NEW p \in Process, JobOnly(p)
    PROVE  /\ UNCHANGED <<made, incidents, verdict>>
           /\ \E j : Moves(p, j) /\ j.cmd # "forecast"
<1> DEFINE Quiet(j) == /\ IsJob(j) /\ job' = [job EXCEPT ![p] = j] /\ fits' \in Nat /\ rows' = rows
                       /\ UNCHANGED <<made, incidents, verdict>> /\ j.cmd # "forecast"
<1>0. IsJob(job[p]) /\ fits \in Nat
  BY DEF FitInv, JobsInv
<1>1. ASSUME NEW j, Quiet(j), j.stage # "stored"
      PROVE  Moves(p, j) /\ j.cmd # "forecast" /\ UNCHANGED <<made, incidents, verdict>>
  BY <1>1 DEF Moves, JobStep
<1>2. CASE p = Nightly /\ ReadRecord
  <2> DEFINE j == [Idle EXCEPT !.cmd = "evaluate", !.stage = "read", !.seen = Settled]
  <2>1. IsJob(j) /\ j.cmd = "evaluate" /\ j.stage # "stored"
    <3>1. j = [cmd |-> "evaluate", stage |-> "read", seen |-> Settled, at |-> 0,
               map |-> Identity(0), guard |-> 0]
      BY ReadingJob
    <3> HIDE DEF j
    <3> QED  BY <3>1, SettledAreEpisodes DEF IsJob
  <2>2. Quiet(j)
    BY <1>0, <1>2, <2>1 DEF ReadRecord, Start, tables
  <2> QED  BY <1>1, <2>1, <2>2
<1>3. CASE p = Nightly /\ SkipFit
  <2>1. Quiet(Idle)
    BY <1>0, <1>3, IdleIsJob DEF SkipFit, End, tables
  <2> QED  BY <1>1, <2>1, IdleIsJob
<1>4. CASE BeginFit(p)
  <2> DEFINE j == [Idle EXCEPT !.cmd = "fit", !.stage = "begun", !.at = fits + 1]
  <2>0. fits + 1 \in Nat
    BY <1>0
  <2>1. IsJob(j) /\ j.cmd = "fit" /\ j.stage # "stored"
    <3>1. j = [cmd |-> "fit", stage |-> "begun", seen |-> {}, at |-> fits + 1,
               map |-> Identity(0), guard |-> 0]
      BY BegunJob
    <3> HIDE DEF j
    <3> QED  BY <2>0, <3>1 DEF IsJob
  <2>2. Quiet(j)
    BY <1>0, <1>4, <2>1 DEF BeginFit, tables
  <2> QED  BY <1>1, <2>1, <2>2
<1>5. CASE ReadPoints(p)
  <2>1. CASE Settled = {}
    <3>1. Quiet(Idle)
      BY <1>0, <1>5, <2>1, IdleIsJob DEF ReadPoints, End, tables
    <3> QED  BY <1>1, <3>1, IdleIsJob
  <2>2. CASE Settled # {}
    <3> DEFINE j == [job[p] EXCEPT !.stage = "read", !.seen = Settled]
    <3>1. job' = [job EXCEPT ![p] = j] /\ job[p].cmd = "fit"
      <4>1. job' = [job EXCEPT ![p].stage = "read", ![p].seen = Settled]
        BY <1>5, <2>2 DEF ReadPoints
      <4>2. p \in DOMAIN job
        BY DEF FitInv, JobsInv
      <4> QED  BY <1>5, <4>1, <4>2 DEF ReadPoints, At
    <3>2. IsJob(j) /\ j.cmd = "fit" /\ j.stage = "read"
      <4>1. IsJob(job[p]) /\ Settled \subseteq Episode
        BY <1>0, SettledAreEpisodes
      <4>2. j = [cmd |-> job[p].cmd, stage |-> "read", seen |-> Settled, at |-> job[p].at,
                 map |-> job[p].map, guard |-> job[p].guard]
        BY ONLY <4>1, ReadRecordJob, Zenon
      <4> HIDE DEF j
      <4>3. IsJob(j) /\ j.cmd = job[p].cmd /\ j.stage = "read"
        BY <4>1, <4>2 DEF IsJob
      <4> QED  BY <3>1, <4>3
    <3>3. Quiet(j)
      BY <1>0, <1>5, <3>1, <3>2 DEF ReadPoints, tables
    <3> QED  BY <1>1, <3>2, <3>3
  <2> QED  BY <2>1, <2>2
<1>6. CASE p \in {Nightly, Cli} /\ Store(p)
  <2>1. CASE Conflict(p)
    <3>1. Quiet(Idle)
      BY <1>0, <1>6, <2>1, IdleIsJob DEF Store, End, tables
    <3> QED  BY <1>1, <3>1, IdleIsJob
  <2>2. CASE ~Conflict(p)
    <3> DEFINE j == [job[p] EXCEPT !.stage = "stored"]
    <3>1. job' = [job EXCEPT ![p] = j] /\ job[p].cmd = "fit" /\ Storing = {}
      BY <1>6, <2>2 DEF Store, At
    <3>2. IsJob(j) /\ j.cmd = "fit" /\ j.seen = job[p].seen /\ j.at = job[p].at
      BY <1>0, <3>1, StageMoves
    <3>3. \A q \in Process : job[q].stage # "stored"
      BY <3>1 DEF Storing, FitInv, LockInv
    <3>4. \A k \in Kind \X Markets(job[p].seen) : \A i \in Live(k) : rows[k][i].at <= job[p].at
      <4> TAKE k \in Kind \X Markets(job[p].seen)
      <4> TAKE i \in Live(k)
      <4>1. k \in Key
        BY <1>0, KeysOfRecord DEF IsJob
      <4>2. rows[k][i].at \in Nat
        BY <4>1 DEF FitInv, RowsInv, IsHistory, IsRow, Live
      <4>3. ~(rows[k][i].at > job[p].at)
        BY <2>2 DEF Conflict
      <4> QED  BY <1>0, <4>2, <4>3 DEF IsJob
    <3>5. Quiet(j)
      BY <1>0, <1>6, <3>1, <3>2 DEF Store, tables
    <3> HIDE DEF j
    <3>6. Moves(p, j)
      BY <1>6, <3>2, <3>3, <3>4, <3>5 DEF Moves, JobStep
    <3> QED  BY <3>5, <3>6
  <2> QED  BY <2>1, <2>2
<1>7. CASE Wait(p)
  <2> DEFINE j == [job[p] EXCEPT !.stage = "waiting"]
  <2>1. job' = [job EXCEPT ![p] = j] /\ job[p].cmd = "fit"
    BY <1>7 DEF Wait, At
  <2>2. IsJob(j) /\ j.cmd = "fit" /\ j.stage = "waiting"
    BY <1>0, <2>1, StageMoves
  <2>3. Quiet(j)
    BY <1>0, <1>7, <2>1, <2>2 DEF Wait, tables
  <2> QED  BY <1>1, <2>2, <2>3
<1> QED  BY <1>2, <1>3, <1>4, <1>5, <1>6, <1>7 DEF JobOnly

\* A killed fit lets go of the lock; one that waited for it reads its rows again.
LEMMA KillKeepsTheLock ==
    ASSUME FitInv, NEW p \in {Nightly, Cli}, Kill(p)
    PROVE  FitInv' /\ \A q \in Process : job'[q].cmd = "forecast" => /\ job[q].cmd = "forecast"
                                                                     /\ job'[q].map = job[q].map
                                                                     /\ job'[q].guard = job[q].guard
<1>1. /\ rows' = rows /\ fits' = fits
      /\ job' = [q \in Process |-> IF q = p THEN Idle
               ELSE IF job[q].stage = "waiting" /\ p \in Storing THEN [job[q] EXCEPT !.stage = "read"]
               ELSE job[q]]
  BY DEF Kill, tables
<1>2. \A q \in Process : IsJob(job[q])
  BY DEF FitInv, JobsInv
<1>3. ASSUME NEW q \in Process
      PROVE  \/ job'[q] = Idle
             \/ job'[q] = job[q]
             \/ /\ IsJob(job'[q]) /\ job'[q].stage = "read" /\ job'[q].cmd = job[q].cmd
                /\ job'[q].map = job[q].map /\ job'[q].guard = job[q].guard
  <2>1. \/ job'[q] = Idle \/ job'[q] = job[q]
        \/ job'[q] = [job[q] EXCEPT !.stage = "read"]
    BY <1>1
  <2>2. CASE job'[q] = [job[q] EXCEPT !.stage = "read"]
    BY <1>2, <2>2, StageMoves
  <2> QED  BY <2>1, <2>2
<1>4. \A q \in Process : IsJob(job'[q])
  BY <1>2, <1>3, IdleIsJob
<1>5. job' = [q \in Process |-> job'[q]]
  BY <1>1
<1>6. JobsInv'
  <2>1. \A q \in Process : IsJob(job[q])'
    BY <1>4 DEF IsJob
  <2> QED  BY <1>1, <1>5, <2>1 DEF FitInv, JobsInv
<1>7. \A q \in Process : job'[q].stage = "stored" => job'[q] = job[q]
  BY <1>3, IdleIsJob
<1>8. ASSUME NEW q \in Process, job'[q].stage = "stored"
      PROVE  /\ q \in {Nightly, Cli}
             /\ \A r \in Process : job'[r].stage = "stored" => q = r
             /\ \A k \in Kind \X Markets(job'[q].seen) : \A i \in Live(k)' : rows'[k][i].at <= job'[q].at
  <2>1. job'[q] = job[q]
    BY <1>7, <1>8
  <2>2. \A k \in Kind \X Markets(job[q].seen) : \A i \in Live(k)' : rows'[k][i].at <= job[q].at
    BY <1>1, <1>8, <2>1 DEF FitInv, LockInv, Live
  <2> QED  BY <1>7, <1>8, <2>1, <2>2 DEF FitInv, LockInv
<1>9. \A q \in Process : job'[q].stage = "stored" =>
        \A k \in (Kind \X Markets(job[q].seen))' : \A i \in Live(k)' : rows'[k][i].at <= job'[q].at
  BY <1>8 DEF Markets
<1>10. LockInv'
  BY <1>8, <1>9 DEF LockInv, Process
<1>11. RowsInv'
  BY <1>1, UnchangedHistories DEF FitInv
<1>12. \A q \in Process : job'[q].cmd = "forecast" => /\ job[q].cmd = "forecast"
                                                      /\ job'[q].map = job[q].map
                                                      /\ job'[q].guard = job[q].guard
  BY <1>3, IdleIsJob
<1> QED  BY <1>6, <1>10, <1>11, <1>12 DEF FitInv

\* The fit that has the lock supersedes rows no newer than itself, ends, and sends
\* those that waited for it away.
LEMMA CommitKeepsTheLock ==
    ASSUME FitInv, NEW p \in {Nightly, Cli}, CommitFit(p)
    PROVE  /\ FitInv' /\ Grows /\ UNCHANGED <<made, incidents, verdict>>
           /\ \A q \in Process : job'[q].cmd = "forecast" => job'[q] = job[q]
<1> DEFINE S == job[p].seen
           keys == Kind \X Markets(S)
           Row(v) == [value |-> v, at |-> job[p].at, of |-> S, live |-> TRUE]
<1>1. PICK new :
        rows' = [k \in Key |-> IF k \in keys THEN Supersede(rows[k], Row(new[k])) ELSE rows[k]]
  BY DEF CommitFit
<1>2. /\ job' = [q \in Process |-> IF q = p THEN Idle ELSE Beaten(job[q])]
      /\ job[p].stage = "stored"
      /\ UNCHANGED <<made, incidents, verdict, fits>>
  BY DEF CommitFit, At
<1>3. p \in Process /\ \A q \in Process : IsJob(job[q])
  BY DEF FitInv, JobsInv, Process
<1>4. keys \subseteq Key
  BY <1>3, KeysOfRecord DEF IsJob
<1>5. \A k \in keys : \A i \in Live(k) : rows[k][i].at <= job[p].at
  BY <1>2, <1>3 DEF FitInv, LockInv
<1> HIDE DEF keys
<1>6. ASSUME NEW k \in Key
      PROVE  /\ IsHistory(rows'[k])
             /\ \A i \in DOMAIN rows[k] : i \in DOMAIN rows'[k] /\ rows'[k][i].value = rows[k][i].value
  <2>1. IsHistory(rows[k])
    BY DEF FitInv, RowsInv
  <2>2. CASE k \in keys
    <3> DEFINE row == Row(new[k])
    <3>1. rows'[k] = Supersede(rows[k], row)
      BY <1>1, <2>2
    <3>2. IsRow(row) /\ row.live /\ row.at = job[p].at
      BY <1>3 DEF IsRow, IsJob
    <3> HIDE DEF row
    <3>3. \A i \in DOMAIN rows[k] : rows[k][i].live => rows[k][i].at <= row.at
      BY <1>5, <2>2, <3>2 DEF Live
    <3> QED  BY <2>1, <3>1, <3>2, <3>3, SupersedeHistory
  <2>3. CASE k \notin keys
    <3>1. rows'[k] = rows[k]
      BY <1>1, <2>3
    <3> QED  BY <2>1, <3>1
  <2> QED  BY <2>2, <2>3
<1>7. RowsInv'
  BY <1>6 DEF RowsInv, Key, Kind, All
<1>8. Grows
  BY <1>2, <1>6 DEF Grows
<1>9. \A q \in Process : job'[q] = Idle \/ (job'[q] = job[q] /\ q # p)
  BY <1>2 DEF Beaten
<1>10. JobsInv'
  <2>1. \A q \in Process : IsJob(job'[q])
    BY <1>3, <1>9, IdleIsJob
  <2>2. \A q \in Process : IsJob(job[q])'
    BY <2>1 DEF IsJob
  <2>3. job' = [q \in Process |-> job'[q]]
    BY <1>2
  <2> QED  BY <1>2, <2>2, <2>3 DEF FitInv, JobsInv
<1>11. \A q \in Process : job'[q].stage # "stored"
  <2> TAKE q \in Process
  <2>1. job[q].stage = "stored" => q = p
    BY <1>2, <1>3 DEF FitInv, LockInv
  <2> QED  BY <1>9, <2>1, IdleIsJob
<1>12. LockInv'
  BY <1>11 DEF LockInv, Process
<1>13. \A q \in Process : job'[q].cmd = "forecast" => job'[q] = job[q]
  BY <1>9, IdleIsJob
<1> QED  BY <1>2, <1>7, <1>8, <1>10, <1>12, <1>13 DEF FitInv

-----------------------------------------------------------------------------
(* What a forecast was made with.                                          *)

\* At most the last row of a history is live, so the newest live row is a row.
LEMMA LiveIsLast ==
    ASSUME RowsInv, NEW k \in Key
    PROVE  /\ rows[k] # <<>> => Live(k) = {Len(rows[k])}
           /\ Has(k) => \E i \in DOMAIN rows[k] : ValueOf(k) = rows[k][i].value
<1> DEFINE n == Len(rows[k])
<1>1. /\ n \in Nat /\ DOMAIN rows[k] = 1..n /\ rows[k] \in Seq({rows[k][i] : i \in DOMAIN rows[k]})
      /\ \A i \in DOMAIN rows[k] : rows[k][i].live <=> i = n
  BY LenProperties DEF RowsInv, IsHistory
<1>2. rows[k] # <<>> => Live(k) = {n}
  <2>1. rows[k] # <<>> => n # 0
    BY <1>1, EmptySeq
  <2> HIDE DEF n
  <2> QED  BY <1>1, <2>1 DEF Live
<1>3. ASSUME Has(k)
      PROVE  \E i \in DOMAIN rows[k] : ValueOf(k) = rows[k][i].value
  <2>1. PICK i \in Live(k) : TRUE
    BY <1>3 DEF Has
  <2>2. i = n /\ i \in DOMAIN rows[k]
    BY <1>1, <2>1 DEF Live
  <2>3. Live(k) = {n}
    BY <1>1, <2>2 DEF Live
  <2> HIDE DEF n
  <2>4. Max({n}) = n
    BY <1>1 DEF Max
  <2> QED  BY <2>2, <2>3, <2>4 DEF ValueOf
<1> QED  BY <1>2, <1>3

LEMMA LoadedIsOnRecord ==
    ASSUME RowsInv, NEW prop \in Prop
    PROVE  MapOnRecord(prop, CalibrationFor(prop)) /\ GuardOnRecord(DriftGuard)
<1>1. <<"calibration_map", prop>> \in Key /\ <<"calibration_map", All>> \in Key
  BY DEF Key, Kind
<1>2. MapOnRecord(prop, CalibrationFor(prop))
  <2>1. CASE Has(<<"calibration_map", prop>>)
    BY <1>1, <2>1, LiveIsLast DEF CalibrationFor, MapOnRecord
  <2>2. CASE ~Has(<<"calibration_map", prop>>) /\ Has(<<"calibration_map", All>>)
    BY <1>1, <2>2, LiveIsLast DEF CalibrationFor, MapOnRecord
  <2>3. CASE ~Has(<<"calibration_map", prop>>) /\ ~Has(<<"calibration_map", All>>)
    BY <2>3 DEF CalibrationFor, MapOnRecord
  <2> QED  BY <2>1, <2>2, <2>3
<1>3. GuardOnRecord(DriftGuard)
  <2> DEFINE open == {incidents[i] : i \in UNION {Open(c) : c \in Series}}
  <2>1. \A d \in open : \E i \in DOMAIN incidents : d = incidents[i]
    BY DEF Open
  <2>2. DriftGuard = IF open = {} THEN 0
                     ELSE IF \E d \in open : d.severity = "blocking" THEN 50 ELSE 25
    BY DEF DriftGuard
  <2> HIDE DEF open
  <2>3. CASE open = {}
    BY <2>2, <2>3 DEF GuardOnRecord
  <2>4. CASE \E d \in open : d.severity = "blocking"
    <3>1. DriftGuard = 50
      BY <2>2, <2>4
    <3> QED  BY <2>1, <2>4, <3>1 DEF GuardOnRecord
  <2>5. CASE open # {} /\ ~\E d \in open : d.severity = "blocking"
    <3>1. DriftGuard = 25
      BY <2>2, <2>5
    <3> QED  BY <2>1, <2>5, <3>1 DEF GuardOnRecord
  <2> QED  BY <2>3, <2>4, <2>5
<1> QED  BY <1>2, <1>3

\* What is on record stays there.
LEMMA RecordStands ==
    ASSUME Grows, NEW prop \in Prop
    PROVE  /\ \A map : MapOnRecord(prop, map) => MapOnRecord(prop, map)'
           /\ \A guard : GuardOnRecord(guard) => GuardOnRecord(guard)'
<1>1. \A q \in {prop, All} : <<"calibration_map", q>> \in Key
  BY DEF Key, Kind
<1>2. ASSUME NEW map, MapOnRecord(prop, map) PROVE MapOnRecord(prop, map)'
  <2>1. CASE map = Identity(0)
    BY <2>1 DEF MapOnRecord, Identity
  <2>2. CASE \E q \in {prop, All} : \E i \in DOMAIN rows[<<"calibration_map", q>>] :
               map = rows[<<"calibration_map", q>>][i].value
    <3>1. PICK q \in {prop, All} : \E i \in DOMAIN rows[<<"calibration_map", q>>] :
               map = rows[<<"calibration_map", q>>][i].value
      BY <2>2
    <3>2. \E i \in DOMAIN rows'[<<"calibration_map", q>>] :
               map = rows'[<<"calibration_map", q>>][i].value
      BY <1>1, <3>1 DEF Grows
    <3> QED  BY <3>2 DEF MapOnRecord, All
  <2> QED  BY <1>2, <2>1, <2>2 DEF MapOnRecord
<1>3. \A guard : GuardOnRecord(guard) => GuardOnRecord(guard)'
  BY DEF GuardOnRecord, Grows
<1> QED  BY <1>2, <1>3

\* An episode is explained by a map and a guard of the record.
Explained(e) ==
    \E map, guard : /\ MapOnRecord(PropOf[MarketOf[e]], map) /\ GuardOnRecord(guard)
                    /\ made[e].over = Apply(map, RawOf[e]) /\ made[e].guard = guard

Explicable == \A e \in Made : Explained(e)

LEMMA ExplicableMeansOnRecord == ForecastsStayExplicable <=> Explicable
  BY DEF ForecastsStayExplicable, Explicable, Explained, MapOnRecord, GuardOnRecord

LEMMA ExplicableNext == ForecastsStayExplicable' <=> Explicable'
  BY ExplicableMeansOnRecord, PTL

LEMMA PropsKnown == \A e \in Episode : PropOf[MarketOf[e]] \in Prop
  BY LearningAssumption, SampleAssumption

\* A step that makes no forecast keeps those made explicable, and the one at work.
LEMMA OthersKeepForecasts ==
    ASSUME ExplainedInv, Grows, made' = made,
           job'[Timer].cmd = "forecast" => /\ job[Timer].cmd = "forecast"
                                           /\ job'[Timer].map = job[Timer].map
                                           /\ job'[Timer].guard = job[Timer].guard
    PROVE  ExplainedInv'
<1>1. Made' = Made /\ Ahead' = Ahead
  BY DEF Made, Ahead
<1>2. ASSUME NEW e \in Made PROVE Explained(e)'
  <2>1. PropOf[MarketOf[e]] \in Prop
    BY PropsKnown DEF Made
  <2>2. PICK map, guard :
          /\ MapOnRecord(PropOf[MarketOf[e]], map) /\ GuardOnRecord(guard)
          /\ made[e].over = Apply(map, RawOf[e]) /\ made[e].guard = guard
    BY ExplicableMeansOnRecord DEF ExplainedInv, Explicable, Explained
  <2>3. MapOnRecord(PropOf[MarketOf[e]], map)' /\ GuardOnRecord(guard)'
    BY <2>1, <2>2, RecordStands
  <2>4. made'[e].over = Apply(map, RawOf[e]) /\ made'[e].guard = guard
    BY <2>2
  <2> QED  BY <2>3, <2>4 DEF Explained
<1>3. ForecastsStayExplicable'
  <2>1. \A e \in Made' : Explained(e)'
    BY <1>1, <1>2
  <2> QED  BY <2>1, ExplicableNext DEF Explicable
<1>4. LoadedInv'
  <2> SUFFICES ASSUME job'[Timer].cmd = "forecast" PROVE LoadedInv'
    BY DEF LoadedInv
  <2>1. /\ Ahead \in Episode
        /\ MapOnRecord(PropOf[MarketOf[Ahead]], job[Timer].map)
        /\ GuardOnRecord(job[Timer].guard)
    BY DEF ExplainedInv, LoadedInv
  <2>2. PICK e, map, guard : e = Ahead /\ map = job[Timer].map /\ guard = job[Timer].guard
    OBVIOUS
  <2>3. PropOf[MarketOf[e]] \in Prop
    BY <2>1, <2>2, PropsKnown
  <2>4. MapOnRecord(PropOf[MarketOf[e]], map)' /\ GuardOnRecord(guard)'
    BY <2>1, <2>2, <2>3, RecordStands
  <2>5. Ahead' = e /\ job'[Timer].map = map /\ job'[Timer].guard = guard
    BY <1>1, <2>2
  <2> QED  BY <2>1, <2>2, <2>4, <2>5 DEF LoadedInv, MapOnRecord, GuardOnRecord
<1>5. DOMAIN made' = Episode
  BY DEF ExplainedInv
<1> QED  BY <1>3, <1>4, <1>5 DEF ExplainedInv

\* A forecast is stored with what its run loaded.
LEMMA RecordKeepsForecasts ==
    ASSUME ExplainedInv, FitInv, Grows, Record
    PROVE  ExplainedInv'
<1>1. /\ job[Timer].cmd = "forecast"
      /\ made' = [made EXCEPT ![Ahead] = Recorded(Apply(job[Timer].map, RawOf[Ahead]), job[Timer].guard)]
  BY DEF Record, At, Ahead
<1>2. PICK a, map, guard : a = Ahead /\ map = job[Timer].map /\ guard = job[Timer].guard
  OBVIOUS
<1>3. a \in Episode /\ MapOnRecord(PropOf[MarketOf[a]], map) /\ GuardOnRecord(guard)
  BY <1>1, <1>2 DEF ExplainedInv, LoadedInv
<1>4. DOMAIN made = Episode /\ DOMAIN made' = Episode
  BY <1>1 DEF ExplainedInv
<1>5. made'[a] = Recorded(Apply(map, RawOf[a]), guard) /\ \A e \in Episode : e # a => made'[e] = made[e]
  BY <1>1, <1>2, <1>3, <1>4
<1>6. made'[a].over = Apply(map, RawOf[a]) /\ made'[a].guard = guard
  BY <1>5 DEF Recorded
<1>7. ASSUME NEW e \in Episode, made'[e] # None PROVE Explained(e)'
  <2>0. PropOf[MarketOf[e]] \in Prop
    BY PropsKnown
  <2>1. CASE e = a
    <3>1. MapOnRecord(PropOf[MarketOf[e]], map)' /\ GuardOnRecord(guard)'
      BY <1>3, <2>0, <2>1, RecordStands
    <3> QED  BY <1>6, <2>1, <3>1 DEF Explained
  <2>2. CASE e # a
    <3>1. e \in Made /\ made'[e] = made[e]
      BY <1>5, <1>7, <2>2 DEF Made
    <3>2. PICK m, g :
            /\ MapOnRecord(PropOf[MarketOf[e]], m) /\ GuardOnRecord(g)
            /\ made[e].over = Apply(m, RawOf[e]) /\ made[e].guard = g
      BY <3>1, ExplicableMeansOnRecord DEF ExplainedInv, Explicable, Explained
    <3>3. MapOnRecord(PropOf[MarketOf[e]], m)' /\ GuardOnRecord(g)'
      BY <2>0, <3>2, RecordStands
    <3>4. made'[e].over = Apply(m, RawOf[e]) /\ made'[e].guard = g
      BY <3>1, <3>2
    <3> QED  BY <3>3, <3>4 DEF Explained
  <2> QED  BY <2>1, <2>2
<1>8. ForecastsStayExplicable'
  <2>1. \A e \in Made' : Explained(e)'
    BY <1>7 DEF Made
  <2> QED  BY <2>1, ExplicableNext DEF Explicable
<1>9. LoadedInv'
  <2>1. job'[Timer] = Idle
    BY RecordMoves, MovesKeepTheLock, ProcessesKnown
  <2> QED  BY <2>1, IdleIsJob DEF LoadedInv
<1> QED  BY <1>4, <1>8, <1>9 DEF ExplainedInv

LEMMA LoadKeepsForecasts ==
    ASSUME ExplainedInv, FitInv, Grows, Load
    PROVE  ExplainedInv'
<1>1. PICK j : /\ Moves(Timer, j) /\ j.map = CalibrationFor(PropOf[MarketOf[Ahead]])
               /\ j.guard = DriftGuard /\ Ahead \in Episode
  BY LoadMoves
<1>2. job'[Timer] = j
  BY <1>1, MovesKeepTheLock, ProcessesKnown
<1>3. made' = made
  BY DEF Load
<1>4. PICK a : a = Ahead
  OBVIOUS
<1>5. Ahead' = a /\ Made' = Made
  BY <1>3, <1>4 DEF Ahead, Made
<1>6. PropOf[MarketOf[a]] \in Prop
  BY <1>1, <1>4, PropsKnown
<1>7. MapOnRecord(PropOf[MarketOf[a]], j.map) /\ GuardOnRecord(j.guard)
  BY <1>1, <1>4, <1>6, LoadedIsOnRecord DEF FitInv
<1>8. MapOnRecord(PropOf[MarketOf[a]], j.map)' /\ GuardOnRecord(j.guard)'
  BY <1>6, <1>7, RecordStands
<1>9. LoadedInv'
  BY <1>1, <1>2, <1>4, <1>5, <1>8 DEF LoadedInv, MapOnRecord, GuardOnRecord
<1>10. ASSUME NEW e \in Made PROVE Explained(e)'
  <2>1. PropOf[MarketOf[e]] \in Prop
    BY PropsKnown DEF Made
  <2>2. PICK m, g :
          /\ MapOnRecord(PropOf[MarketOf[e]], m) /\ GuardOnRecord(g)
          /\ made[e].over = Apply(m, RawOf[e]) /\ made[e].guard = g
    BY ExplicableMeansOnRecord DEF ExplainedInv, Explicable, Explained
  <2>3. MapOnRecord(PropOf[MarketOf[e]], m)' /\ GuardOnRecord(g)'
    BY <2>1, <2>2, RecordStands
  <2> QED  BY <1>3, <2>2, <2>3 DEF Explained
<1>11. ForecastsStayExplicable'
  <2>1. \A e \in Made' : Explained(e)'
    BY <1>5, <1>10
  <2> QED  BY <2>1, ExplicableNext DEF Explicable
<1> QED  BY <1>3, <1>9, <1>11 DEF ExplainedInv

-----------------------------------------------------------------------------
(* The invariant holds.                                                    *)

LEMMA StillTables ==
    ASSUME GuardInv, UNCHANGED <<verdict, incidents>>
    PROVE  GuardInv'
  BY DEF GuardInv, Open

LEMMA StillGrows ==
    ASSUME UNCHANGED <<rows, incidents>>
    PROVE  Grows
  BY DEF Grows

\* A step that changes neither jobs nor tables.
LEMMA StillStep ==
    ASSUME IInv, UNCHANGED <<made, tables, job, fits>>
    PROVE  IInv' /\ Grows
<1>1. UNCHANGED <<rows, incidents, verdict>>
  BY DEF tables
<1>2. Grows /\ GuardInv'
  BY <1>1, StillGrows, StillTables DEF IInv
<1>3. RowsInv'
  BY <1>1, UnchangedHistories DEF IInv, FitInv
<1>4. JobsInv'
  <2>1. \A q \in Process : IsJob(job'[q])
    BY DEF IInv, FitInv, JobsInv
  <2>2. \A q \in Process : IsJob(job[q])'
    BY <2>1 DEF IsJob
  <2> QED  BY <2>2 DEF IInv, FitInv, JobsInv
<1>5. LockInv'
  <2>1. \A p \in Process : job[p].stage = "stored" =>
          \A k \in (Kind \X Markets(job[p].seen))' : \A i \in Live(k)' : rows'[k][i].at <= job[p].at
    BY <1>1 DEF IInv, FitInv, LockInv, Markets, Live
  <2> QED  BY <2>1 DEF IInv, FitInv, LockInv, Process
<1>6. ExplainedInv'
  BY <1>2, OthersKeepForecasts DEF IInv
<1> QED  BY <1>2, <1>3, <1>4, <1>5, <1>6 DEF IInv, FitInv

\* What every step keeps, which of the tables it changes aside.
LEMMA StepKeeps ==
    ASSUME IInv, Next
    PROVE  IInv' /\ Grows
<1>0. FitInv /\ GuardInv /\ ExplainedInv
  BY DEF IInv
<1>1. CASE Load
  <2>1. UNCHANGED <<rows, incidents, verdict>>
    BY <1>1 DEF Load, tables
  <2>2. FitInv'
    BY <1>0, <1>1, LoadMoves, MovesKeepTheLock, ProcessesKnown
  <2>3. Grows
    BY <2>1, StillGrows
  <2>4. GuardInv'
    BY <1>0, <2>1, StillTables
  <2>5. ExplainedInv'
    BY <1>0, <1>1, <2>3, LoadKeepsForecasts
  <2> QED  BY <2>2, <2>3, <2>4, <2>5 DEF IInv
<1>2. CASE Record
  <2>1. UNCHANGED <<rows, incidents, verdict>>
    BY <1>2 DEF Record, tables
  <2>2. FitInv'
    BY <1>0, <1>2, RecordMoves, MovesKeepTheLock, ProcessesKnown
  <2>3. Grows
    BY <2>1, StillGrows
  <2>4. GuardInv'
    BY <1>0, <2>1, StillTables
  <2>5. ExplainedInv'
    BY <1>0, <1>2, <2>3, RecordKeepsForecasts
  <2> QED  BY <2>2, <2>3, <2>4, <2>5 DEF IInv
<1>3. CASE Evaluate
  <2>1. GuardInv' /\ Grows
    BY <1>0, <1>3, EvaluateGuards
  <2>2. PICK j : Moves(Nightly, j) /\ j.cmd = "fit"
    BY <1>0, <1>3, EvaluateMoves
  <2>3. FitInv' /\ job'[Nightly] = j /\ \A q \in Process : q # Nightly => job'[q] = job[q]
    BY <1>0, <2>2, MovesKeepTheLock, ProcessesKnown
  <2>4. job'[Timer].cmd = "forecast" => job'[Timer] = job[Timer]
    BY <2>2, <2>3, ProcessesKnown
  <2>5. made' = made
    BY <1>3 DEF Evaluate
  <2>6. ExplainedInv'
    BY <1>0, <2>1, <2>4, <2>5, OthersKeepForecasts
  <2> QED  BY <2>1, <2>3, <2>6 DEF IInv
<1>4. ASSUME NEW p \in Process, JobOnly(p) PROVE IInv' /\ Grows
  <2>1. PICK j : Moves(p, j) /\ j.cmd # "forecast"
    BY <1>0, <1>4, JobOnlyMoves
  <2>2. UNCHANGED <<made, incidents, verdict>> /\ rows' = rows
    BY <1>0, <1>4, <2>1, JobOnlyMoves DEF Moves
  <2>3. FitInv' /\ job'[p] = j /\ \A q \in Process : q # p => job'[q] = job[q]
    BY <1>0, <2>1, MovesKeepTheLock
  <2>4. job'[Timer].cmd = "forecast" => job'[Timer] = job[Timer]
    BY <2>1, <2>3, ProcessesKnown
  <2>5. Grows /\ GuardInv'
    BY <1>0, <2>2, StillGrows, StillTables
  <2>6. ExplainedInv'
    BY <1>0, <2>2, <2>4, <2>5, OthersKeepForecasts
  <2> QED  BY <2>3, <2>5, <2>6 DEF IInv
<1>5. ASSUME NEW p \in {Nightly, Cli}, CommitFit(p) PROVE IInv' /\ Grows
  <2>1. FitInv' /\ Grows /\ UNCHANGED <<made, incidents, verdict>>
    BY <1>0, <1>5, CommitKeepsTheLock
  <2>2. job'[Timer].cmd = "forecast" => job'[Timer] = job[Timer]
    BY <1>0, <1>5, CommitKeepsTheLock, ProcessesKnown
  <2>3. GuardInv'
    BY <1>0, <2>1, StillTables
  <2>4. ExplainedInv'
    BY <1>0, <2>1, <2>2, OthersKeepForecasts
  <2> QED  BY <2>1, <2>3, <2>4 DEF IInv
<1>6. ASSUME NEW p \in {Nightly, Cli}, Kill(p) PROVE IInv' /\ Grows
  <2>1. FitInv' /\ (job'[Timer].cmd = "forecast" => /\ job[Timer].cmd = "forecast"
                                                    /\ job'[Timer].map = job[Timer].map
                                                    /\ job'[Timer].guard = job[Timer].guard)
    BY <1>0, <1>6, KillKeepsTheLock, ProcessesKnown
  <2>2. UNCHANGED <<made, incidents, verdict, rows>>
    BY <1>6 DEF Kill, tables
  <2>3. Grows /\ GuardInv'
    BY <1>0, <2>2, StillGrows, StillTables
  <2>4. ExplainedInv'
    BY <1>0, <2>1, <2>2, <2>3, OthersKeepForecasts
  <2> QED  BY <2>1, <2>3, <2>4 DEF IInv
<1>7. ASSUME NEW m \in Market, Play(m) PROVE IInv' /\ Grows
  <2>1. UNCHANGED <<made, tables, job, fits>>
    BY <1>7 DEF Play
  <2> QED  BY <1>0, <2>1, StillStep
<1>8. Next <=> \/ Load \/ Record \/ Evaluate
               \/ \E p \in Process : JobOnly(p)
               \/ \E p \in {Nightly, Cli} : CommitFit(p) \/ Kill(p)
               \/ \E m \in Market : Play(m)
  BY ProcessesKnown DEF Next, NightlyStep, FitStep, JobOnly
<1> QED  BY <1>1, <1>2, <1>3, <1>4, <1>5, <1>6, <1>7, <1>8

LEMMA InitKeeps == Init => IInv
<1> SUFFICES ASSUME Init PROVE IInv
  OBVIOUS
<1>1. RowsInv
  <2>1. \A k \in Key : rows[k] = <<>>
    BY DEF Init
  <2>2. IsHistory(<<>>)
    BY EmptySeq DEF IsHistory
  <2> QED  BY <2>1, <2>2 DEF RowsInv
<1>2. JobsInv
  <2>1. \A p \in Process : job[p] = Idle
    BY DEF Init
  <2>2. job = [p \in Process |-> job[p]]
    BY DEF Init
  <2> QED  BY <2>1, <2>2, IdleIsJob DEF Init, JobsInv
<1>3. LockInv
  <2>1. \A p \in Process : job[p] = Idle
    BY DEF Init
  <2> QED  BY <2>1, IdleIsJob DEF LockInv
<1>4. GuardInv
  <2>1. incidents = <<>> /\ \A c \in Series : verdict[c] = "none"
    BY DEF Init
  <2>2. incidents \in Seq(IncidentRow) /\ DOMAIN incidents = {}
    BY <2>1, EmptySeq
  <2>3. \A c \in Series : Open(c) = {}
    BY <2>2 DEF Open
  <2> QED  BY <2>1, <2>2, <2>3 DEF GuardInv
<1>5. ExplainedInv
  <2>1. Made = {} /\ DOMAIN made = Episode
    BY DEF Init, Made
  <2>2. job[Timer] = Idle
    BY ProcessesKnown DEF Init
  <2> QED  BY <2>1, <2>2, IdleIsJob DEF ExplainedInv, LoadedInv, ForecastsStayExplicable
<1> QED  BY <1>1, <1>2, <1>3, <1>4, <1>5 DEF IInv, FitInv

THEOREM Invariance == Spec => []IInv
<1>1. IInv /\ [Next]_vars => IInv'
  <2>1. IInv /\ UNCHANGED vars => IInv'
    BY StillStep DEF vars
  <2> QED  BY <2>1, StepKeeps
<1> QED  BY <1>1, InitKeeps, PTL DEF Spec

\* However fits overlap, wait for one another or die, a key that was ever fitted
\* has exactly one live row and its history runs forward (parameters.py,
\* store_fitted_parameters).
THEOREM ParametersAreOrdered == Spec => []ParametersMoveForward
<1>1. IInv => ParametersMoveForward
  <2> SUFFICES ASSUME IInv, NEW k \in Key
               PROVE  /\ rows[k] # <<>> => Cardinality(Live(k)) = 1
                      /\ \A i, j \in DOMAIN rows[k] : i < j => rows[k][i].at <= rows[k][j].at
    BY DEF ParametersMoveForward
  <2>1. RowsInv
    BY DEF IInv, FitInv
  <2>2. rows[k] # <<>> => Live(k) = {Len(rows[k])}
    BY <2>1, LiveIsLast
  <2>3. rows[k] # <<>> => Cardinality(Live(k)) = 1
    BY <2>2, FS_Singleton, Zenon
  <2> QED  BY <2>1, <2>3 DEF RowsInv, IsHistory
<1> QED  BY <1>1, Invariance, PTL

\* A series found degraded has exactly one incident open, one found healthy none
\* (evaluation.py, evaluate_models): what the next forecast is guarded by.
THEOREM VerdictsAreGuarded == Spec => []VerdictIsGuarded
<1>1. IInv => VerdictIsGuarded
  <2> SUFFICES ASSUME IInv, NEW c \in Series
               PROVE  /\ verdict[c] = "degraded" => Cardinality(Open(c)) = 1
                      /\ verdict[c] = "healthy" => Open(c) = {}
    BY DEF VerdictIsGuarded
  <2>1. /\ \A i, j \in Open(c) : i = j
        /\ verdict[c] = "degraded" => Open(c) # {}
        /\ verdict[c] = "healthy" => Open(c) = {}
    BY DEF IInv, GuardInv
  <2>2. ASSUME verdict[c] = "degraded" PROVE Cardinality(Open(c)) = 1
    <3>1. PICK i \in Open(c) : TRUE
      BY <2>1, <2>2
    <3>2. Open(c) = {i}
      BY <2>1, <3>1
    <3> QED  BY <3>2, FS_Singleton, Zenon
  <2> QED  BY <2>1, <2>2
<1> QED  BY <1>1, Invariance, PTL

\* Every forecast can be recomputed from the record for ever after: its map is a
\* stored one of its market or of the pool, or the identity, and its guard is an
\* incident's (baseline.py, run_baseline_forecasts).
THEOREM ForecastsAreExplicable == Spec => []ForecastsStayExplicable
<1>1. IInv => ForecastsStayExplicable
  BY DEF IInv, ExplainedInv
<1> QED  BY <1>1, Invariance, PTL

\* No step takes away a parameter row or changes its value, nor an incident or its
\* severity (023_fitted_model_parameters.sql): what makes the last theorem last.
THEOREM RecordOnlyGrows == Spec => [][Grows]_vars
<1>1. IInv /\ [Next]_vars => [Grows]_vars
  BY StepKeeps
<1> QED  BY <1>1, Invariance, PTL DEF Spec

-----------------------------------------------------------------------------
(* Folds over finite sets.                                                 *)

\* A set of naturals has a least.
LEMMA LeastOfNat ==
    ASSUME NEW T \in SUBSET Nat, T # {}
    PROVE  \E t \in T : \A y \in T : t <= y
<1>1. PICK t \in T : \A y \in T : ~(<<y, t>> \in OpToRel(<, Nat))
  BY WFMin, NatLessThanWellFounded
<1>2. \A y \in T : ~(y < t)
  BY <1>1 DEF OpToRel
<1>3. \A y \in T : t <= y
  BY <1>2
<1> QED  BY <1>1, <1>3

\* What holds of nothing and of a set whenever it holds of it less any element
\* holds of every part of a finite set: the smallest on which it would fail.
LEMMA PartsInduction ==
    ASSUME NEW S, IsFiniteSet(S), NEW Good, {} \in Good,
           \A s \in SUBSET S : s # {} /\ (\A x \in s : s \ {x} \in Good) => s \in Good
    PROVE  \A s \in SUBSET S : s \in Good
<1> DEFINE Bad == {s \in SUBSET S : s \notin Good}
           Sizes == {Cardinality(s) : s \in Bad}
<1>1. \A s \in SUBSET S : IsFiniteSet(s) /\ Cardinality(s) \in Nat
  BY FS_Subset, FS_CardinalityType
<1>2. ASSUME Bad # {}
      PROVE  FALSE
  <2>1. Sizes \in SUBSET Nat /\ Sizes # {}
    BY <1>1, <1>2
  <2>2. PICK t \in Sizes : \A y \in Sizes : t <= y
    <3> HIDE DEF Sizes
    <3> QED  BY <2>1, LeastOfNat
  <2>3. PICK s \in Bad : t = Cardinality(s)
    BY <2>2
  <2>4. s \in SUBSET S /\ s \notin Good /\ IsFiniteSet(s) /\ Cardinality(s) \in Nat /\ s # {}
    BY <1>1, <2>3
  <2>5. ASSUME NEW x \in s
        PROVE  s \ {x} \in Good
    <3>1. Cardinality(s \ {x}) = Cardinality(s) - 1
      BY <2>4, FS_RemoveElement
    <3>2. ASSUME s \ {x} \in Bad
          PROVE  FALSE
      <4>1. Cardinality(s \ {x}) \in Sizes
        BY <3>2
      <4>2. Cardinality(s) <= Cardinality(s \ {x})
        <5> HIDE DEF Sizes
        <5> QED  BY <2>2, <2>3, <4>1
      <4> QED  BY ONLY <2>4, <3>1, <4>2
    <3>3. s \ {x} \in SUBSET S
      BY <2>4
    <3> QED  BY <3>2, <3>3
  <2> QED  BY <2>4, <2>5
<1> QED  BY <1>2

\* What a fold is that takes the elements of S as pick says.
IsFold(iter, S, base, pick, st) ==
    \A s \in SUBSET S : iter[s] = IF s = {} THEN base ELSE st[pick[s]][iter[s \ {pick[s]}]]

\* It exists: on the parts of up to n elements, for every n.
LEMMA FoldExists ==
    ASSUME NEW S, IsFiniteSet(S), NEW V, NEW base \in V, NEW pick, NEW st,
           \A s \in SUBSET S : s # {} => pick[s] \in s,
           \A x \in S : \A v \in V : st[x][v] \in V
    PROVE  \E iter \in [SUBSET S -> V] : IsFold(iter, S, base, pick, st)
<1> DEFINE UpToSize(n) == {s \in SUBSET S : Cardinality(s) <= n}
           StepOf(g, s) == IF s = {} THEN base ELSE st[pick[s]][g[s \ {pick[s]}]]
           Reached == {n \in Nat : \E g \in [UpToSize(n) -> V] : \A s \in UpToSize(n) : g[s] = StepOf(g, s)}
<1>1. \A s \in SUBSET S : IsFiniteSet(s) /\ Cardinality(s) \in Nat /\ (Cardinality(s) = 0 <=> s = {})
  BY FS_Subset, FS_CardinalityType, FS_EmptySet
<1>2. \A s \in SUBSET S : s # {} => /\ pick[s] \in s /\ s \ {pick[s]} \in SUBSET S
                                    /\ Cardinality(s \ {pick[s]}) = Cardinality(s) - 1
  BY <1>1, FS_RemoveElement
<1>3. 0 \in Reached
  <2> DEFINE g == [s \in UpToSize(0) |-> base]
  <2>1. \A s \in UpToSize(0) : s = {}
    BY <1>1
  <2>2. g \in [UpToSize(0) -> V]
    OBVIOUS
  <2>3. \A s \in UpToSize(0) : g[s] = StepOf(g, s)
    BY <2>1
  <2> HIDE DEF g, StepOf, UpToSize
  <2> QED  BY <2>2, <2>3
<1>4. ASSUME NEW n \in Nat, n \in Reached
      PROVE  n + 1 \in Reached
  <2>1. PICK g \in [UpToSize(n) -> V] : \A s \in UpToSize(n) : g[s] = StepOf(g, s)
    BY <1>4
  <2> DEFINE h == [s \in UpToSize(n + 1) |-> IF s \in UpToSize(n) THEN g[s] ELSE StepOf(g, s)]
  <2>2. ASSUME NEW s \in UpToSize(n + 1), s # {}
        PROVE  /\ s \ {pick[s]} \in UpToSize(n) /\ s \ {pick[s]} \in UpToSize(n + 1) /\ pick[s] \in S
    <3>1. Cardinality(s) <= n + 1 /\ s \in SUBSET S /\ Cardinality(s) \in Nat
      BY <1>1
    <3>2. Cardinality(s \ {pick[s]}) = Cardinality(s) - 1 /\ s \ {pick[s]} \in SUBSET S /\ pick[s] \in s
      BY <1>2, <2>2, <3>1
    <3>3. Cardinality(s \ {pick[s]}) <= n /\ Cardinality(s \ {pick[s]}) <= n + 1
      BY ONLY <3>1, <3>2, n \in Nat
    <3> QED  BY <3>1, <3>2, <3>3
  <2>3. ASSUME NEW s \in UpToSize(n + 1)
        PROVE  StepOf(g, s) \in V
    <3> HIDE DEF UpToSize
    <3> QED  BY <2>2
  <2>4. h \in [UpToSize(n + 1) -> V]
    <3> HIDE DEF UpToSize, StepOf
    <3> QED  BY <2>3
  <2>5. ASSUME NEW s \in UpToSize(n + 1)
        PROVE  h[s] = StepOf(g, s)
    <3> HIDE DEF UpToSize, StepOf
    <3> QED  BY <2>1
  <2>6. \A s \in UpToSize(n) : s \in UpToSize(n + 1) /\ h[s] = g[s]
    <3>1. \A s \in UpToSize(n) : s \in UpToSize(n + 1)
      BY <1>1
    <3> HIDE DEF UpToSize, StepOf
    <3> QED  BY <3>1
  <2>7. ASSUME NEW s \in UpToSize(n + 1)
        PROVE  StepOf(g, s) = StepOf(h, s)
    <3> HIDE DEF UpToSize, h
    <3> QED  BY <2>2, <2>6
  <2>8. \A s \in UpToSize(n + 1) : h[s] = StepOf(h, s)
    <3> HIDE DEF UpToSize, StepOf, h
    <3> QED  BY <2>5, <2>7
  <2> HIDE DEF UpToSize, StepOf, h
  <2> QED  BY <2>4, <2>8
<1>5. Nat \subseteq Reached
  <2> DEFINE Bad == Nat \ Reached
  <2>1. ASSUME Bad # {}
        PROVE  FALSE
    <3>1. PICK t \in Bad : \A y \in Bad : t <= y
      <4>1. Bad \in SUBSET Nat
        OBVIOUS
      <4> HIDE DEF Bad
      <4> QED  BY <2>1, <4>1, LeastOfNat
    <3> HIDE DEF Reached
    <3>2. t \in Nat /\ t \notin Reached /\ t # 0
      BY <1>3
    <3>3. t - 1 \in Nat /\ ~(t <= t - 1) /\ (t - 1) + 1 = t
      BY <3>2
    <3>4. t - 1 \in Reached
      BY <3>1, <3>3
    <3> QED  BY <1>4, <3>2, <3>3, <3>4
  <2> QED  BY <2>1
<1>6. Cardinality(S) \in Nat /\ UpToSize(Cardinality(S)) = SUBSET S
  BY FS_CardinalityType, FS_Subset
<1>7. \E g \in [UpToSize(Cardinality(S)) -> V] : \A s \in UpToSize(Cardinality(S)) : g[s] = StepOf(g, s)
  <2> HIDE DEF UpToSize, StepOf
  <2> QED  BY <1>5, <1>6
<1>8. \E g \in [SUBSET S -> V] : \A s \in SUBSET S : g[s] = StepOf(g, s)
  <2> HIDE DEF UpToSize, StepOf
  <2> QED  BY <1>6, <1>7
<1> QED  BY <1>8 DEF IsFold

-----------------------------------------------------------------------------
(* Sums over finite sets.                                                  *)

\* What the sum of w recurses over.
Adds(iter, S, w) ==
    iter = [s \in SUBSET S |-> IF s = {} THEN 0
                               ELSE LET x == CHOOSE x \in s : TRUE IN w[x] + iter[s \ {x}]]

Weighs(w, S) == IsFiniteSet(S) /\ \A x \in S : w[x] \in Int

LEMMA AddsExists ==
    ASSUME NEW S, NEW w, Weighs(w, S)
    PROVE  \E iter \in [SUBSET S -> Int] : Adds(iter, S, w)
<1> DEFINE pick == [s \in SUBSET S |-> CHOOSE x \in s : TRUE]
           st == [x \in S |-> [v \in Int |-> w[x] + v]]
<1>1. \A s \in SUBSET S : s # {} => pick[s] \in s
  OBVIOUS
<1>2. \A x \in S : \A v \in Int : st[x][v] \in Int
  BY DEF Weighs
<1>3. PICK iter \in [SUBSET S -> Int] : IsFold(iter, S, 0, pick, st)
  <2>1. IsFiniteSet(S) /\ 0 \in Int
    BY DEF Weighs
  <2> HIDE DEF pick, st
  <2>2. \E iter \in [SUBSET S -> Int] : IsFold(iter, S, 0, pick, st)
    BY ONLY <1>1, <1>2, <2>1, FoldExists
  <2> QED  BY <2>2
<1>4. ASSUME NEW s \in SUBSET S, s # {}
      PROVE  iter[s] = LET x == CHOOSE x \in s : TRUE IN w[x] + iter[s \ {x}]
  <2> DEFINE x == CHOOSE x \in s : TRUE
  <2>1. x \in s /\ s \ {x} \in SUBSET S /\ pick[s] = x
    BY <1>4
  <2>2. iter[s] = st[pick[s]][iter[s \ {pick[s]}]]
    <3> HIDE DEF pick, st
    <3> QED  BY <1>3, <1>4 DEF IsFold
  <2>3. iter[s \ {x}] \in Int
    BY <1>3, <2>1
  <2> HIDE DEF x, pick
  <2> QED  BY <2>1, <2>2, <2>3 DEF x
<1>5. iter[{}] = 0
  <2> HIDE DEF pick, st
  <2> QED  BY <1>3 DEF IsFold
<1>6. Adds(iter, S, w)
  <2> HIDE DEF pick, st
  <2>1. iter = [s \in SUBSET S |-> iter[s]]
    BY <1>3
  <2> QED  BY <1>4, <1>5, <2>1 DEF Adds
<1> QED  BY <1>6

\* It is unique.
LEMMA AddsUnique ==
    ASSUME NEW S, IsFiniteSet(S), NEW w, NEW f, Adds(f, S, w), NEW g, Adds(g, S, w)
    PROVE  \A s \in SUBSET S : f[s] = g[s]
<1> DEFINE Good == {s \in SUBSET S : f[s] = g[s]}
<1>1. {} \in Good
  BY DEF Adds
<1>2. ASSUME NEW s \in SUBSET S, s # {}, \A x \in s : s \ {x} \in Good
      PROVE  s \in Good
  <2> DEFINE x == CHOOSE x \in s : TRUE
  <2>1. x \in s
    BY <1>2
  <2>2. f[s] = w[x] + f[s \ {x}] /\ g[s] = w[x] + g[s \ {x}]
    BY <1>2 DEF Adds
  <2>3. f[s \ {x}] = g[s \ {x}]
    BY <1>2, <2>1
  <2> HIDE DEF x
  <2> QED  BY <2>2, <2>3
<1>3. \A s \in SUBSET S : s \in Good
  <2> HIDE DEF Good
  <2> QED  BY <1>1, <1>2, PartsInduction
<1> QED  BY <1>3

LEMMA SumIsIter ==
    ASSUME NEW S, NEW w, Weighs(w, S), NEW f, Adds(f, S, w)
    PROVE  Sum(w, S) = f[S]
<1> DEFINE g == CHOOSE g : Adds(g, S, w)
<1>1. Sum(w, S) = g[S]
  BY DEF Sum, MapThenSumSet, MapThenFoldSet, Adds
<1>2. Adds(g, S, w)
  BY Zenon
<1> HIDE DEF g
<1> QED  BY <1>1, <1>2, AddsUnique DEF Weighs

\* One recursion gives the sums over all the parts of S.
LEMMA SumsOfParts ==
    ASSUME NEW S, NEW w, Weighs(w, S), NEW f \in [SUBSET S -> Int], Adds(f, S, w)
    PROVE  \A s \in SUBSET S : Sum(w, s) = f[s]
<1> SUFFICES ASSUME NEW s \in SUBSET S
             PROVE  Sum(w, s) = f[s]
  OBVIOUS
<1> DEFINE g == [t \in SUBSET s |-> f[t]]
<1>1. Weighs(w, s)
  BY FS_Subset DEF Weighs
<1>2. ASSUME NEW t \in SUBSET s
      PROVE  g[t] = IF t = {} THEN 0 ELSE LET x == CHOOSE x \in t : TRUE IN w[x] + g[t \ {x}]
  <2> DEFINE x == CHOOSE x \in t : TRUE
  <2>1. f[t] = IF t = {} THEN 0 ELSE w[x] + f[t \ {x}]
    BY DEF Adds
  <2>2. g[t] = f[t] /\ g[t \ {x}] = f[t \ {x}]
    OBVIOUS
  <2> HIDE DEF g
  <2> QED  BY <2>1, <2>2
<1>3. Adds(g, s, w)
  <2>1. g = [t \in SUBSET s |-> g[t]]
    OBVIOUS
  <2> HIDE DEF g
  <2> QED  BY <1>2, <2>1 DEF Adds
<1>4. Sum(w, s) = g[s]
  <2> HIDE DEF g
  <2> QED  BY <1>1, <1>3, SumIsIter
<1> QED  BY <1>4

LEMMA SumIsInt ==
    ASSUME NEW S, NEW w, Weighs(w, S)
    PROVE  \A s \in SUBSET S : Sum(w, s) \in Int
<1>1. PICK f \in [SUBSET S -> Int] : Adds(f, S, w)
  BY AddsExists
<1>2. \A s \in SUBSET S : Sum(w, s) = f[s]
  BY <1>1, SumsOfParts
<1> QED  BY <1>2

LEMMA SumOfNone == \A w : Sum(w, {}) = 0
<1> TAKE w
<1>1. Weighs(w, {})
  BY FS_EmptySet DEF Weighs
<1>2. PICK f \in [SUBSET {} -> Int] : Adds(f, {}, w)
  BY <1>1, AddsExists
<1>3. Sum(w, {}) = f[{}]
  BY <1>1, <1>2, SumIsIter
<1> QED  BY <1>2, <1>3 DEF Adds

\* Any element may be taken first.
LEMMA SumTakes ==
    ASSUME NEW S, NEW w, Weighs(w, S)
    PROVE  \A s \in SUBSET S : \A x \in s : Sum(w, s) = w[x] + Sum(w, s \ {x})
<1> DEFINE Good == {s \in SUBSET S : \A x \in s : Sum(w, s) = w[x] + Sum(w, s \ {x})}
<1>1. {} \in Good
  OBVIOUS
<1>2. PICK f \in [SUBSET S -> Int] : Adds(f, S, w)
  BY AddsExists
<1>3. \A s \in SUBSET S : Sum(w, s) = f[s] /\ Sum(w, s) \in Int
  BY <1>2, SumsOfParts
<1>4. ASSUME NEW s \in SUBSET S, s # {}, \A x \in s : s \ {x} \in Good
      PROVE  s \in Good
  <2> DEFINE c == CHOOSE c \in s : TRUE
  <2>1. c \in s
    BY <1>4
  <2>2. f[s] = w[c] + f[s \ {c}]
    BY <1>2, <1>4 DEF Adds
  <2> HIDE DEF c
  <2>3. Sum(w, s) = w[c] + Sum(w, s \ {c})
    <3>1. s \ {c} \in SUBSET S
      OBVIOUS
    <3> QED  BY <1>3, <2>2, <3>1
  <2>4. ASSUME NEW x \in s, x # c
        PROVE  Sum(w, s) = w[x] + Sum(w, s \ {x})
    <3> DEFINE r == s \ {c, x}
    <3>1. /\ (s \ {c}) \ {x} = r /\ (s \ {x}) \ {c} = r
          /\ x \in s \ {c} /\ c \in s \ {x} /\ r \in SUBSET S
      BY <2>1, <2>4
    <3>2. Sum(w, s \ {c}) = w[x] + Sum(w, r)
      BY <1>4, <2>1, <3>1
    <3>3. Sum(w, s \ {x}) = w[c] + Sum(w, r)
      BY <1>4, <2>1, <3>1
    <3>4. w[c] \in Int /\ w[x] \in Int /\ Sum(w, r) \in Int
      BY <1>3, <2>1, <3>1 DEF Weighs
    <3> HIDE DEF r
    <3> QED  BY ONLY <2>3, <3>2, <3>3, <3>4
  <2> QED  BY <2>3, <2>4
<1>5. \A s \in SUBSET S : s \in Good
  <2> HIDE DEF Good
  <2> QED  BY <1>1, <1>4, PartsInduction DEF Weighs
<1> QED  BY <1>5

\* Of two parts with nothing in common.
LEMMA SumOfBoth ==
    ASSUME NEW S, NEW w, Weighs(w, S), NEW A \in SUBSET S, NEW B \in SUBSET S, A \cap B = {}
    PROVE  Sum(w, A \cup B) = Sum(w, A) + Sum(w, B)
<1> DEFINE Good == {s \in SUBSET B : Sum(w, A \cup s) = Sum(w, A) + Sum(w, s)}
<1>1. \A s \in SUBSET S : Sum(w, s) \in Int
  BY SumIsInt
<1>2. {} \in Good
  <2>1. A \cup {} = A /\ Sum(w, {}) = 0 /\ Sum(w, A) \in Int
    BY <1>1, SumOfNone
  <2> QED  BY <2>1
<1>3. ASSUME NEW s \in SUBSET B, s # {}, \A x \in s : s \ {x} \in Good
      PROVE  s \in Good
  <2>1. PICK x \in s : TRUE
    BY <1>3
  <2> DEFINE r == s \ {x}
             u == A \cup r
  <2>2. /\ A \cup s \in SUBSET S /\ x \in A \cup s /\ (A \cup s) \ {x} = u
        /\ s \in SUBSET S /\ r \in SUBSET S /\ u \in SUBSET S /\ x \in S
    BY <2>1
  <2>3. Sum(w, A \cup s) = w[x] + Sum(w, (A \cup s) \ {x}) /\ Sum(w, s) = w[x] + Sum(w, s \ {x})
    BY <2>1, <2>2, SumTakes
  <2>4. Sum(w, u) = Sum(w, A) + Sum(w, r)
    BY <1>3, <2>1
  <2>5. w[x] \in Int /\ Sum(w, A) \in Int /\ Sum(w, r) \in Int /\ Sum(w, u) \in Int
    BY <1>1, <2>2 DEF Weighs
  <2> HIDE DEF u
  <2>6. Sum(w, A \cup s) = w[x] + Sum(w, u) /\ Sum(w, s) = w[x] + Sum(w, r)
    BY <2>2, <2>3
  <2> HIDE DEF r
  <2>7. Sum(w, A \cup s) = Sum(w, A) + Sum(w, s)
    BY ONLY <2>4, <2>5, <2>6
  <2> QED  BY <2>7
<1>4. IsFiniteSet(B)
  BY FS_Subset DEF Weighs
<1>5. \A s \in SUBSET B : s \in Good
  <2> HIDE DEF Good
  <2> QED  BY <1>2, <1>3, <1>4, PartsInduction
<1> QED  BY <1>5

\* Of what is pointwise the sum of two.
LEMMA SumOfSums ==
    ASSUME NEW S, NEW u, Weighs(u, S), NEW v, Weighs(v, S), NEW w, Weighs(w, S),
           \A x \in S : w[x] = u[x] + v[x]
    PROVE  Sum(w, S) = Sum(u, S) + Sum(v, S)
<1> DEFINE Good == {s \in SUBSET S : Sum(w, s) = Sum(u, s) + Sum(v, s)}
<1>1. {} \in Good
  BY SumOfNone
<1>2. \A s \in SUBSET S : Sum(u, s) \in Int /\ Sum(v, s) \in Int /\ Sum(w, s) \in Int
  BY SumIsInt
<1>3. ASSUME NEW s \in SUBSET S, s # {}, \A x \in s : s \ {x} \in Good
      PROVE  s \in Good
  <2>1. PICK x \in s : TRUE
    BY <1>3
  <2>2. /\ Sum(u, s) = u[x] + Sum(u, s \ {x}) /\ Sum(v, s) = v[x] + Sum(v, s \ {x})
        /\ Sum(w, s) = w[x] + Sum(w, s \ {x})
    BY <2>1, SumTakes
  <2>3. Sum(w, s \ {x}) = Sum(u, s \ {x}) + Sum(v, s \ {x})
    BY <1>3, <2>1
  <2>4. /\ u[x] \in Int /\ v[x] \in Int /\ w[x] = u[x] + v[x]
        /\ Sum(u, s \ {x}) \in Int /\ Sum(v, s \ {x}) \in Int
    BY <1>2, <2>1 DEF Weighs
  <2>5. Sum(w, s) = Sum(u, s) + Sum(v, s)
    BY ONLY <2>2, <2>3, <2>4
  <2> QED  BY <2>5
<1>4. \A s \in SUBSET S : s \in Good
  <2> HIDE DEF Good
  <2> QED  BY <1>1, <1>3, PartsInduction DEF Weighs
<1>5. S \in Good
  <2> HIDE DEF Good
  <2> QED  BY <1>4
<1> QED  BY <1>5

\* Pointwise the same.
LEMMA SumOfEqual ==
    ASSUME NEW S, NEW v, Weighs(v, S), NEW w, \A x \in S : w[x] = v[x]
    PROVE  Weighs(w, S) /\ Sum(w, S) = Sum(v, S)
<1> DEFINE z == [x \in S |-> 0]
           Good == {s \in SUBSET S : Sum(w, s) = Sum(v, s)}
<1>1. Weighs(w, S)
  BY DEF Weighs
<1>2. {} \in Good
  BY SumOfNone
<1>3. ASSUME NEW s \in SUBSET S, s # {}, \A x \in s : s \ {x} \in Good
      PROVE  s \in Good
  <2>1. PICK x \in s : TRUE
    BY <1>3
  <2>2. Sum(v, s) = v[x] + Sum(v, s \ {x}) /\ Sum(w, s) = w[x] + Sum(w, s \ {x})
    BY <1>1, <2>1, SumTakes
  <2>3. Sum(w, s \ {x}) = Sum(v, s \ {x}) /\ w[x] = v[x]
    BY <1>3, <2>1
  <2> QED  BY <2>2, <2>3
<1>4. \A s \in SUBSET S : s \in Good
  <2> HIDE DEF Good
  <2> QED  BY <1>2, <1>3, PartsInduction DEF Weighs
<1>5. S \in Good
  <2> HIDE DEF Good
  <2> QED  BY <1>4
<1> QED  BY <1>1, <1>5

\* What is nowhere negative is not so in sum, and nothing is left out that counts.
LEMMA SumIsNat ==
    ASSUME NEW S, NEW w, IsFiniteSet(S), \A x \in S : w[x] \in Nat
    PROVE  /\ Weighs(w, S)
           /\ \A s \in SUBSET S : Sum(w, s) \in Nat /\ \A x \in s : w[x] <= Sum(w, s)
<1>1. Weighs(w, S)
  BY DEF Weighs
<1> DEFINE Good == {s \in SUBSET S : Sum(w, s) \in Nat}
<1>2. {} \in Good
  BY SumOfNone
<1>3. ASSUME NEW s \in SUBSET S, s # {}, \A x \in s : s \ {x} \in Good
      PROVE  s \in Good
  <2>1. PICK x \in s : TRUE
    BY <1>3
  <2>2. Sum(w, s) = w[x] + Sum(w, s \ {x}) /\ Sum(w, s \ {x}) \in Nat /\ w[x] \in Nat
    BY <1>1, <1>3, <2>1, SumTakes
  <2> QED  BY <2>2
<1>4. \A s \in SUBSET S : s \in Good
  <2> HIDE DEF Good
  <2> QED  BY <1>2, <1>3, PartsInduction
<1>5. ASSUME NEW s \in SUBSET S, NEW x \in s PROVE w[x] <= Sum(w, s)
  <2>1. s \ {x} \in SUBSET S
    OBVIOUS
  <2>2. Sum(w, s) = w[x] + Sum(w, s \ {x}) /\ Sum(w, s \ {x}) \in Nat /\ w[x] \in Nat
    BY <1>1, <1>4, <2>1, SumTakes
  <2> QED  BY <2>2
<1> QED  BY <1>1, <1>4, <1>5

\* Shares rounded down lose less than one each.
LEMMA FloorShares ==
    ASSUME NEW S, IsFiniteSet(S), NEW v, NEW w, NEW a \in Nat, NEW d \in Nat, d > 0,
           \A x \in S : v[x] \in Nat /\ w[x] = (v[x] * a) \div d
    PROVE  /\ \A x \in S : w[x] \in Nat
           /\ d * Sum(w, S) <= a * Sum(v, S)
           /\ a * Sum(v, S) <= d * (Sum(w, S) + Cardinality(S))
<1>1. \A x \in S : w[x] \in Nat /\ d * w[x] <= a * v[x] /\ a * v[x] <= d * w[x] + d
  <2> TAKE x \in S
  <2> DEFINE y == v[x] * a
  <2>1. y \in Nat /\ y = a * v[x]
    OBVIOUS
  <2>2. w[x] = y \div d
    OBVIOUS
  <2> HIDE DEF y
  <2>3. y \div d \in Int /\ d * (y \div d) <= y /\ y < d * (y \div d) + d
    BY <2>1
  <2>4. PICK q \in Int : q = y \div d
    BY <2>3
  <2>5. q < 0 => d * (q + 1) <= 0
    OBVIOUS
  <2>6. q >= 0
    BY <2>1, <2>3, <2>4, <2>5
  <2> QED  BY <2>1, <2>2, <2>3, <2>4, <2>6
<1>2. Weighs(w, S) /\ Weighs(v, S)
  BY <1>1 DEF Weighs
<1>3. \A s \in SUBSET S : /\ Sum(w, s) \in Nat /\ Sum(v, s) \in Nat
                          /\ IsFiniteSet(s) /\ Cardinality(s) \in Nat
  BY <1>1, SumIsNat, FS_Subset, FS_CardinalityType
<1> DEFINE Good == {s \in SUBSET S : /\ d * Sum(w, s) <= a * Sum(v, s)
                                     /\ a * Sum(v, s) <= d * (Sum(w, s) + Cardinality(s))}
<1>4. {} \in Good
  <2>1. Sum(w, {}) = 0 /\ Sum(v, {}) = 0 /\ Cardinality({}) = 0
    BY SumOfNone, FS_EmptySet
  <2> QED  BY <2>1
<1>5. ASSUME NEW s \in SUBSET S, s # {}, \A x \in s : s \ {x} \in Good
      PROVE  s \in Good
  <2>1. PICK x \in s : TRUE
    BY <1>5
  <2> DEFINE r == s \ {x}
  <2>2. Sum(w, s) = w[x] + Sum(w, r) /\ Sum(v, s) = v[x] + Sum(v, r)
    BY <1>2, <2>1, SumTakes
  <2>3. Cardinality(s) = Cardinality(r) + 1
    <3>1. Cardinality(r) = Cardinality(s) - 1
      BY <1>3, <2>1, FS_RemoveElement
    <3> QED  BY <1>3, <3>1
  <2>4. d * Sum(w, r) <= a * Sum(v, r) /\ a * Sum(v, r) <= d * (Sum(w, r) + Cardinality(r))
    BY <1>5, <2>1
  <2>5. /\ w[x] \in Nat /\ v[x] \in Nat /\ d * w[x] <= a * v[x] /\ a * v[x] <= d * w[x] + d
        /\ Sum(w, r) \in Nat /\ Sum(v, r) \in Nat /\ Cardinality(r) \in Nat
    BY <1>1, <1>3, <2>1
  <2> HIDE DEF r
  <2>6. \A p, q, i, j, n \in Nat :
          d * p <= a * q /\ a * q <= d * (p + n) /\ d * i <= a * j /\ a * j <= d * i + d
            => /\ d * (i + p) <= a * (j + q)
               /\ a * (j + q) <= d * ((i + p) + (n + 1))
    <3> TAKE p, q, i, j, n \in Nat
    <3>1. /\ d * (i + p) = d * i + d * p /\ a * (j + q) = a * j + a * q
          /\ d * ((i + p) + (n + 1)) = d * i + d * (p + n) + d
      OBVIOUS
    <3>2. /\ d * i \in Int /\ d * p \in Int /\ a * j \in Int /\ a * q \in Int /\ d * (p + n) \in Int
      OBVIOUS
    <3> QED  BY <3>1, <3>2
  <2>7. /\ d * (w[x] + Sum(w, r)) <= a * (v[x] + Sum(v, r))
        /\ a * (v[x] + Sum(v, r)) <= d * ((w[x] + Sum(w, r)) + (Cardinality(r) + 1))
    BY ONLY <2>4, <2>5, <2>6
  <2> QED  BY <2>2, <2>3, <2>7
<1>6. \A s \in SUBSET S : s \in Good
  <2> HIDE DEF Good
  <2> QED  BY <1>4, <1>5, PartsInduction
<1>7. S \in Good
  <2> HIDE DEF Good
  <2> QED  BY <1>6
<1> QED  BY <1>1, <1>7

\* A set of parts of Name, none empty and no two with a component in common.
Split(F) == /\ F \subseteq SUBSET Name
            /\ \A f \in F : f # {}
            /\ \A f, g \in F : f \cap g # {} => f = g

\* What Families recurses over.
Joined(pair, fams) ==
    LET met == {f \in fams : f \cap pair # {}} IN (fams \ met) \cup {pair \cup UNION met}

Joining(iter, pairs) ==
    iter = [s \in SUBSET pairs |-> IF s = {} THEN {}
               ELSE LET pair == CHOOSE pair \in s : TRUE IN Joined(pair, iter[s \ {pair}])]

LEMMA JoiningExists ==
    ASSUME NEW pairs \in SUBSET SUBSET Name, IsFiniteSet(pairs)
    PROVE  \E iter : Joining(iter, pairs)
<1> DEFINE pick == [s \in SUBSET pairs |-> CHOOSE p \in s : TRUE]
           V == SUBSET SUBSET Name
           st == [p \in pairs |-> [fams \in V |-> Joined(p, fams)]]
<1>1. \A s \in SUBSET pairs : s # {} => pick[s] \in s
  OBVIOUS
<1>2. \A p \in pairs : \A fams \in V : st[p][fams] \in V
  BY DEF Joined
<1>3. {} \in V
  OBVIOUS
<1>4. PICK iter \in [SUBSET pairs -> V] : IsFold(iter, pairs, {}, pick, st)
  <2> HIDE DEF pick, st, V
  <2>1. \E iter \in [SUBSET pairs -> V] : IsFold(iter, pairs, {}, pick, st)
    BY ONLY IsFiniteSet(pairs), <1>1, <1>2, <1>3, FoldExists
  <2> QED  BY <2>1
<1>5. ASSUME NEW s \in SUBSET pairs, s # {}
      PROVE  iter[s] = LET pair == CHOOSE pair \in s : TRUE IN Joined(pair, iter[s \ {pair}])
  <2> DEFINE p == CHOOSE p \in s : TRUE
  <2>1. p \in s /\ s \ {p} \in SUBSET pairs /\ pick[s] = p
    BY <1>5
  <2>2. iter[s] = st[pick[s]][iter[s \ {pick[s]}]]
    <3> HIDE DEF pick, st, V
    <3> QED  BY <1>4, <1>5 DEF IsFold
  <2>3. iter[s \ {p}] \in V
    BY <1>4, <2>1
  <2> HIDE DEF p, pick, V
  <2> QED  BY <2>1, <2>2, <2>3 DEF p
<1>6. iter[{}] = {}
  <2> HIDE DEF pick, st, V
  <2> QED  BY <1>4 DEF IsFold
<1>7. Joining(iter, pairs)
  <2> HIDE DEF pick, st, V
  <2>1. iter = [s \in SUBSET pairs |-> iter[s]]
    BY <1>4
  <2> QED  BY <1>5, <1>6, <2>1 DEF Joining
<1> QED  BY <1>7

\* What is joined with a pair holds it.
LEMMA JoinedSplit ==
    ASSUME NEW fams, Split(fams), NEW pair \in SUBSET Name, pair # {}
    PROVE  /\ Split(Joined(pair, fams))
           /\ UNION Joined(pair, fams) = pair \cup UNION fams
           /\ \A f \in fams : \E g \in Joined(pair, fams) : f \subseteq g
           /\ \E g \in Joined(pair, fams) : pair \subseteq g
<1> DEFINE met == {f \in fams : f \cap pair # {}}
           new == pair \cup UNION met
           J == (fams \ met) \cup {new}
<1>1. Joined(pair, fams) = J
  BY DEF Joined
<1>2. new \in SUBSET Name /\ new # {}
  BY DEF Split
<1>3. \A f \in fams \ met : f \cap new = {}
  <2> TAKE f \in fams \ met
  <2>1. f \cap pair = {}
    OBVIOUS
  <2>2. \A g \in met : f \cap g = {}
    BY DEF Split
  <2> QED  BY <2>1, <2>2
<1>4. \A f, g \in J : f \cap g # {} => f = g
  <2> SUFFICES ASSUME NEW f \in J, NEW g \in J, f \cap g # {}
               PROVE  f = g
    OBVIOUS
  <2> HIDE DEF met, new
  <2>1. CASE f \in fams \ met /\ g \in fams \ met
    BY <2>1 DEF Split
  <2>2. CASE f = new \/ g = new
    BY <1>3, <2>2
  <2> QED  BY <2>1, <2>2
<1>5. Split(J)
  <2> HIDE DEF new, met
  <2> QED  BY <1>2, <1>4 DEF Split
<1>6. UNION J = pair \cup UNION fams
  OBVIOUS
<1>7. \A f \in fams : \E g \in J : f \subseteq g
  OBVIOUS
<1>8. \E g \in J : pair \subseteq g
  OBVIOUS
<1> QED  BY <1>1, <1>5, <1>6, <1>7, <1>8

LEMMA FamiliesSplit ==
    ASSUME NEW pairs \in SUBSET SUBSET Name, IsFiniteSet(pairs), {} \notin pairs
    PROVE  LET F == Families(pairs)
           IN  /\ Split(F) /\ UNION F = UNION pairs
               /\ \A p \in pairs : \E f \in F : p \subseteq f
<1> DEFINE g == CHOOSE g : Joining(g, pairs)
<1>1. Families(pairs) = g[pairs]
  BY DEF Families, FoldSet, MapThenFoldSet, Joining, Joined
<1>2. Joining(g, pairs)
  <2>1. \E iter : Joining(iter, pairs)
    BY JoiningExists
  <2> QED  BY <2>1, Zenon
<1> HIDE DEF g
<1> DEFINE Good == {s \in SUBSET pairs : /\ Split(g[s]) /\ UNION g[s] = UNION s
                                         /\ \A p \in s : \E f \in g[s] : p \subseteq f}
<1>3. {} \in Good
  <2>1. g[{}] = {}
    BY <1>2 DEF Joining
  <2> QED  BY <2>1 DEF Split
<1>4. ASSUME NEW s \in SUBSET pairs, s # {}, \A x \in s : s \ {x} \in Good
      PROVE  s \in Good
  <2> DEFINE p == CHOOSE p \in s : TRUE
             F == g[s \ {p}]
  <2>1. p \in s
    BY <1>4
  <2>2. g[s] = Joined(p, F)
    BY <1>2, <1>4 DEF Joining
  <2> HIDE DEF p
  <2>3. Split(F) /\ UNION F = UNION (s \ {p}) /\ \A q \in s \ {p} : \E f \in F : q \subseteq f
    BY <1>4, <2>1
  <2>4. p \in SUBSET Name /\ p # {}
    BY <2>1
  <2> HIDE DEF F
  <2>5. /\ Split(g[s]) /\ UNION g[s] = p \cup UNION F
        /\ \A f \in F : \E h \in g[s] : f \subseteq h
        /\ \E h \in g[s] : p \subseteq h
    BY <2>2, <2>3, <2>4, JoinedSplit
  <2>6. UNION g[s] = UNION s
    BY <2>1, <2>3, <2>5
  <2>7. \A q \in s : \E f \in g[s] : q \subseteq f
    <3> TAKE q \in s
    <3>1. CASE q = p
      BY <2>5, <3>1
    <3>2. CASE q # p
      <4>1. PICK f \in F : q \subseteq f
        BY <2>3, <3>2
      <4>2. PICK h \in g[s] : f \subseteq h
        BY <2>5, <4>1
      <4> QED  BY <4>1, <4>2
    <3> QED  BY <3>1, <3>2
  <2> QED  BY <2>5, <2>6, <2>7
<1>5. \A s \in SUBSET pairs : s \in Good
  <2> HIDE DEF Good
  <2> QED  BY <1>3, <1>4, PartsInduction
<1>6. pairs \in Good
  <2> HIDE DEF Good
  <2> QED  BY <1>5
<1> QED  BY <1>1, <1>6

-----------------------------------------------------------------------------
(* The prior, and Name.                                                    *)

LEMMA PriorFacts ==
    /\ Name = {"empirical", "hierarchical", "player_state", "opportunity_conversion", "market_prior"}
    /\ IsFiniteSet(Name) /\ Cardinality(Name) = 5
    /\ \A i \in Name : Prior[i] \in Nat /\ Prior[i] > 0
    /\ Sum(Prior, Name) = 100
<1> DEFINE a == "empirical"
           b == "hierarchical"
           c == "player_state"
           d == "opportunity_conversion"
           e == "market_prior"
<1>1. Name = {a, b, c, d, e}
  BY DEF Name, Prior
<1>2. Prior[a] = 30 /\ Prior[b] = 20 /\ Prior[c] = 12 /\ Prior[d] = 18 /\ Prior[e] = 20
  BY DEF Prior
<1>3. a # b /\ a # c /\ a # d /\ a # e /\ b # c /\ b # d /\ b # e /\ c # d /\ c # e /\ d # e
  OBVIOUS
<1> HIDE DEF a, b, c, d, e
<1>4. \A i \in Name : Prior[i] \in Nat /\ Prior[i] > 0
  BY <1>1, <1>2
<1>5. IsFiniteSet({e}) /\ Cardinality({e}) = 1
  BY FS_Singleton
<1>6. IsFiniteSet({d, e}) /\ Cardinality({d, e}) = 2
  <2>1. {d, e} = {e} \cup {d} /\ d \notin {e}
    BY <1>3
  <2> QED  BY <1>5, <2>1, FS_AddElement
<1>7. IsFiniteSet({c, d, e}) /\ Cardinality({c, d, e}) = 3
  <2>1. {c, d, e} = {d, e} \cup {c} /\ c \notin {d, e}
    BY <1>3
  <2> QED  BY <1>6, <2>1, FS_AddElement
<1>8. IsFiniteSet({b, c, d, e}) /\ Cardinality({b, c, d, e}) = 4
  <2>1. {b, c, d, e} = {c, d, e} \cup {b} /\ b \notin {c, d, e}
    BY <1>3
  <2> QED  BY <1>7, <2>1, FS_AddElement
<1>9. IsFiniteSet(Name) /\ Cardinality(Name) = 5
  <2>1. Name = {b, c, d, e} \cup {a} /\ a \notin {b, c, d, e}
    BY <1>1, <1>3
  <2> QED  BY <1>8, <2>1, FS_AddElement
<1>10. Weighs(Prior, Name)
  BY <1>4, <1>9 DEF Weighs
<1>11. Sum(Prior, Name) = 100
  <2>1. /\ Name \ {a} = {b, c, d, e} /\ {b, c, d, e} \ {b} = {c, d, e} /\ {c, d, e} \ {c} = {d, e}
        /\ {d, e} \ {d} = {e} /\ {e} \ {e} = {}
    BY <1>1, <1>3
  <2>2. Sum(Prior, Name) = Prior[a] + Sum(Prior, {b, c, d, e})
    BY <1>1, <1>10, <2>1, SumTakes
  <2>3. Sum(Prior, {b, c, d, e}) = Prior[b] + Sum(Prior, {c, d, e})
    BY <1>1, <1>10, <2>1, SumTakes
  <2>4. Sum(Prior, {c, d, e}) = Prior[c] + Sum(Prior, {d, e})
    BY <1>1, <1>10, <2>1, SumTakes
  <2>5. Sum(Prior, {d, e}) = Prior[d] + Sum(Prior, {e})
    BY <1>1, <1>10, <2>1, SumTakes
  <2>6. Sum(Prior, {e}) = Prior[e] + Sum(Prior, {})
    BY <1>1, <1>10, <2>1, SumTakes
  <2> QED  BY ONLY <1>2, <2>2, <2>3, <2>4, <2>5, <2>6, SumOfNone
<1> QED  BY <1>1, <1>4, <1>9, <1>11 DEF a, b, c, d, e

\* One family, scaled back to its prior.
LEMMA FamilyShares ==
    ASSUME NEW v \in [Name -> Nat], NEW f \in SUBSET Name, Sum(v, f) > Sum(Prior, f),
           NEW w, \A i \in f : w[i] = (v[i] * Sum(Prior, f)) \div Sum(v, f)
    PROVE  /\ \A i \in f : w[i] \in Nat
           /\ Sum(w, f) <= Sum(Prior, f)
           /\ Sum(Prior, f) <= Sum(w, f) + Cardinality(f)
<1>1. IsFiniteSet(f) /\ Cardinality(f) \in Nat
  <2>1. IsFiniteSet(Name)
    BY PriorFacts
  <2>2. IsFiniteSet(f)
    BY <2>1, FS_Subset
  <2> QED  BY <2>2, FS_CardinalityType
<1>2. (\A i \in f : v[i] \in Nat) /\ (\A i \in f : Prior[i] \in Nat)
  BY PriorFacts
<1>3. Sum(v, f) \in Nat /\ Sum(Prior, f) \in Nat
  BY <1>1, <1>2, SumIsNat
<1>4. PICK a \in Nat, d \in Nat : a = Sum(Prior, f) /\ d = Sum(v, f)
  BY <1>3
<1>5. d > a /\ d > 0
  BY <1>4
<1>6. \A i \in f : v[i] \in Nat /\ w[i] = (v[i] * a) \div d
  BY <1>2, <1>4
<1>7. /\ \A i \in f : w[i] \in Nat
      /\ d * Sum(w, f) <= a * d /\ a * d <= d * (Sum(w, f) + Cardinality(f))
  BY <1>1, <1>4, <1>5, <1>6, FloorShares, SMTT(30)
<1>8. Sum(w, f) \in Nat
  BY <1>1, <1>7, SumIsNat
<1>9. \A x, y \in Nat : d * x <= d * y => x <= y
  <2> SUFFICES ASSUME NEW x \in Nat, NEW y \in Nat, y < x
               PROVE  ~(d * x <= d * y)
    OBVIOUS
  <2>1. d * x - d * y = d * (x - y)
    OBVIOUS
  <2>2. d * (x - y) >= d
    OBVIOUS
  <2>3. d * x \in Int /\ d * y \in Int
    OBVIOUS
  <2> QED  BY <1>5, <2>1, <2>2, <2>3
<1>10. d * Sum(w, f) <= d * a /\ d * a <= d * (Sum(w, f) + Cardinality(f))
  <2>1. a * d = d * a
    OBVIOUS
  <2> QED  BY <1>7, <2>1
<1>11. Sum(w, f) <= a /\ a <= Sum(w, f) + Cardinality(f)
  <2>1. Sum(w, f) + Cardinality(f) \in Nat
    BY <1>1, <1>8
  <2> QED  BY <1>8, <1>9, <1>10, <2>1
<1> QED  BY <1>4, <1>7, <1>11

\* All of them.
Holding(v, full, w, ex) ==
    /\ v \in [Name -> Nat] /\ Split(full)
    /\ \A f \in full : Sum(v, f) > Sum(Prior, f) /\ ex[f] = Sum(v, f) - Sum(Prior, f)
    /\ \A f \in full : \A i \in f : w[i] = (v[i] * Sum(Prior, f)) \div Sum(v, f)

Natural(w, S) == \A i \in S : w[i] \in Nat

LEMMA HeldShares ==
    ASSUME NEW v, NEW full, NEW w, NEW ex, Holding(v, full, w, ex)
    PROVE  LET H == UNION full
           IN  /\ IsFiniteSet(full) /\ H \in SUBSET Name /\ Natural(w, H)
               /\ Sum(w, H) <= Sum(Prior, H)
               /\ Sum(Prior, H) <= Sum(w, H) + Cardinality(H)
               /\ Sum(ex, full) = Sum(v, H) - Sum(Prior, H)
               /\ Weighs(ex, full)
               /\ full # {} => Sum(v, H) > Sum(Prior, H)
<1> USE DEF Holding
<1>1. IsFiniteSet(full) /\ full \subseteq SUBSET Name
  <2>1. IsFiniteSet(SUBSET Name)
    BY PriorFacts, FS_SUBSET
  <2> QED  BY <2>1, FS_Subset DEF Split
<1>2. \A f \in full : /\ \A i \in f : w[i] \in Nat
                      /\ Sum(w, f) <= Sum(Prior, f)
                      /\ Sum(Prior, f) <= Sum(w, f) + Cardinality(f)
  BY <1>1, FamilyShares
<1>3. \A i \in UNION full : w[i] \in Nat
  BY <1>2
<1>4. /\ Weighs(v, Name) /\ Weighs(Prior, Name)
      /\ \A s \in SUBSET Name : /\ Sum(v, s) \in Nat /\ Sum(Prior, s) \in Nat
                                /\ IsFiniteSet(s) /\ Cardinality(s) \in Nat
  <2>1. IsFiniteSet(Name) /\ (\A i \in Name : v[i] \in Nat) /\ (\A i \in Name : Prior[i] \in Nat)
    BY PriorFacts
  <2> QED  BY <2>1, SumIsNat, FS_Subset, FS_CardinalityType
<1> DEFINE H == UNION full
<1>5. H \in SUBSET Name /\ IsFiniteSet(H)
  BY <1>1, <1>4
<1>6. Weighs(w, H) /\ Weighs(v, H) /\ Weighs(Prior, H) /\ \A s \in SUBSET H : Sum(w, s) \in Nat
  <2>1. \A i \in H : w[i] \in Nat
    BY <1>3
  <2>2. \A i \in H : v[i] \in Nat /\ Prior[i] \in Nat
    BY <1>5, PriorFacts
  <2> HIDE DEF H
  <2> QED  BY <1>5, <2>1, <2>2, SumIsNat
<1>7. Weighs(ex, full)
  BY <1>1, <1>4 DEF Weighs
<1> DEFINE Good == {s \in SUBSET full :
                      /\ Sum(w, UNION s) <= Sum(Prior, UNION s)
                      /\ Sum(Prior, UNION s) <= Sum(w, UNION s) + Cardinality(UNION s)
                      /\ Sum(ex, s) = Sum(v, UNION s) - Sum(Prior, UNION s)
                      /\ Sum(v, UNION s) >= Sum(Prior, UNION s)
                      /\ s # {} => Sum(v, UNION s) > Sum(Prior, UNION s)}
<1>8. {} \in Good
  <2>1. UNION {} = {}
    OBVIOUS
  <2>2. Cardinality({}) = 0
    BY FS_EmptySet
  <2>3. Sum(w, {}) = 0 /\ Sum(v, {}) = 0 /\ Sum(Prior, {}) = 0 /\ Sum(ex, {}) = 0
    BY SumOfNone
  <2>4. /\ Sum(w, UNION {}) = 0 /\ Sum(v, UNION {}) = 0 /\ Sum(Prior, UNION {}) = 0
        /\ Cardinality(UNION {}) = 0
    BY <2>1, <2>2, <2>3
  <2> QED  BY <2>3, <2>4
<1>9. ASSUME NEW s \in SUBSET full, s # {}, \A x \in s : s \ {x} \in Good
      PROVE  s \in Good
  <2>1. PICK f \in s : TRUE
    BY <1>9
  <2> DEFINE A == UNION (s \ {f})
             B == UNION s
  <2>2. /\ f \cap A = {} /\ f \cup A = B /\ f \in SUBSET H /\ A \in SUBSET H /\ B \in SUBSET H
        /\ f \in SUBSET Name /\ A \in SUBSET Name /\ B \in SUBSET Name /\ f \in full
    <3>1. \A g \in s \ {f} : f \cap g = {}
      BY <2>1 DEF Split
    <3> QED  BY <1>5, <2>1, <3>1
  <2>3. /\ Sum(w, A) <= Sum(Prior, A) /\ Sum(Prior, A) <= Sum(w, A) + Cardinality(A)
        /\ Sum(ex, s \ {f}) = Sum(v, A) - Sum(Prior, A) /\ Sum(v, A) >= Sum(Prior, A)
    BY <1>9, <2>1
  <2>4. Sum(ex, s) = ex[f] + Sum(ex, s \ {f}) /\ ex[f] = Sum(v, f) - Sum(Prior, f)
    BY <1>7, <2>1, SumTakes
  <2> HIDE DEF A, B, H
  <2>5. /\ Sum(w, B) = Sum(w, f) + Sum(w, A) /\ Sum(v, B) = Sum(v, f) + Sum(v, A)
        /\ Sum(Prior, B) = Sum(Prior, f) + Sum(Prior, A)
    BY <1>6, <2>2, SumOfBoth
  <2>6. Cardinality(B) = Cardinality(f) + Cardinality(A)
    <3>1. IsFiniteSet(f) /\ IsFiniteSet(A)
      BY <1>4, <2>2
    <3>2. Cardinality(f \cup A) = Cardinality(f) + Cardinality(A) - Cardinality(f \cap A)
      BY <3>1, FS_Union
    <3>3. Cardinality({}) = 0 /\ Cardinality(f) \in Nat /\ Cardinality(A) \in Nat
      BY <1>4, <2>2, FS_EmptySet
    <3>4. f \cup A = B /\ f \cap A = {}
      BY <2>2
    <3>5. Cardinality(B) = Cardinality(f \cup A) /\ Cardinality(f \cap A) = Cardinality({})
      BY <3>4, Zenon
    <3> QED  BY ONLY <3>2, <3>3, <3>5
  <2>7. /\ Sum(w, f) <= Sum(Prior, f) /\ Sum(Prior, f) <= Sum(w, f) + Cardinality(f)
        /\ Sum(v, f) > Sum(Prior, f)
    BY <1>2, <2>2
  <2>8. /\ Sum(w, f) \in Nat /\ Sum(w, A) \in Nat /\ Sum(v, f) \in Nat /\ Sum(v, A) \in Nat
        /\ Sum(Prior, f) \in Nat /\ Sum(Prior, A) \in Nat
        /\ Cardinality(f) \in Nat /\ Cardinality(A) \in Nat
    BY <1>4, <1>6, <2>2
  <2>9. /\ Sum(w, B) <= Sum(Prior, B) /\ Sum(Prior, B) <= Sum(w, B) + Cardinality(B)
        /\ Sum(ex, s) = Sum(v, B) - Sum(Prior, B) /\ Sum(v, B) > Sum(Prior, B)
        /\ Sum(v, B) >= Sum(Prior, B)
    BY ONLY <2>3, <2>4, <2>5, <2>6, <2>7, <2>8
  <2> QED  BY <2>9 DEF B
<1>10. full \in Good
  <2>1. \A s \in SUBSET full : s \in Good
    <3> HIDE DEF Good
    <3> QED  BY <1>1, <1>8, <1>9, PartsInduction
  <2> HIDE DEF Good
  <2> QED  BY <2>1
<1>11. Natural(w, H)
  BY <1>3 DEF Natural
<1> HIDE DEF Holding
<1> QED  BY <1>1, <1>5, <1>7, <1>10, <1>11

\* The sum of the excess is written with its own summand.
Exceeding(iter, v, full) ==
    iter = [s \in SUBSET full |-> IF s = {} THEN 0
              ELSE LET f == CHOOSE f \in s : TRUE IN Sum(v, f) - Sum(Prior, f) + iter[s \ {f}]]

LEMMA ExcessIsSum ==
    ASSUME NEW v, NEW full, NEW ex, Weighs(ex, full), \A f \in full : ex[f] = Sum(v, f) - Sum(Prior, f)
    PROVE  (CHOOSE g : Exceeding(g, v, full))[full] = Sum(ex, full)
<1> DEFINE g == CHOOSE g : Exceeding(g, v, full)
<1>2. ASSUME NEW h
      PROVE  Adds(h, full, ex) <=> Exceeding(h, v, full)
  <2>1. ASSUME NEW s \in SUBSET full, s # {}
        PROVE  LET f == CHOOSE f \in s : TRUE IN ex[f] + h[s \ {f}] = Sum(v, f) - Sum(Prior, f) + h[s \ {f}]
    <3> DEFINE f == CHOOSE f \in s : TRUE
    <3>1. f \in full
      BY <2>1
    <3> HIDE DEF f
    <3> QED  BY <3>1 DEF f
  <2> QED  BY <2>1 DEF Adds, Exceeding
<1>3. Adds(g, full, ex)
  <2>1. PICK h : Adds(h, full, ex)
    BY AddsExists
  <2>2. Exceeding(h, v, full)
    BY <1>2, <2>1
  <2>3. Exceeding(g, v, full)
    BY <2>2, Zenon
  <2> HIDE DEF g
  <2> QED  BY <1>2, <2>3
<1>4. Sum(ex, full) = g[full]
  <2> HIDE DEF g
  <2> QED  BY <1>3, SumIsIter
<1> QED  BY <1>4

-----------------------------------------------------------------------------
(* The cap.                                                                *)

\* Pairs that link all their components are one family.
LEMMA LinkedAreOne ==
    ASSUME NEW pairs \in SUBSET SUBSET Name, IsFiniteSet(pairs), {} \notin pairs, Connected(pairs),
           NEW f \in Families(pairs)
    PROVE  f = UNION pairs
<1> DEFINE F == Families(pairs)
           part == {p \in pairs : p \subseteq f}
<1>1. Split(F) /\ UNION F = UNION pairs /\ \A p \in pairs : \E g \in F : p \subseteq g
  BY FamiliesSplit
<1>2. \A p \in pairs : p \cap f # {} => p \in part
  <2> SUFFICES ASSUME NEW p \in pairs, p \cap f # {} PROVE p \subseteq f
    OBVIOUS
  <2>1. PICK g \in F : p \subseteq g
    BY <1>1
  <2>2. g = f
    BY <1>1, <2>1 DEF Split
  <2> QED  BY <2>1, <2>2
<1>3. UNION part = f
  <2>1. f \subseteq UNION pairs
    BY <1>1
  <2> QED  BY <1>2, <2>1
<1>4. (UNION part) \cap (UNION (pairs \ part)) = {}
  BY <1>2, <1>3
<1>5. f # {}
  BY <1>1 DEF Split
<1>6. part = pairs
  <2>1. part # {}
    BY <1>3, <1>5
  <2>2. part \in SUBSET pairs
    OBVIOUS
  <2> HIDE DEF part
  <2> QED  BY <1>4, <2>1, <2>2 DEF Connected
<1> QED  BY <1>3, <1>6

\* The weights still make a whole but for rounding, and one family has no more
\* than its prior.
LEMMA CapHolds ==
    ASSUME NEW v \in [Name -> Nat], Sum(v, Name) = 100,
           NEW pairs \in SUBSET SUBSET Name, IsFiniteSet(pairs), {} \notin pairs
    PROVE  /\ Sum(Capped(v, pairs), Name) \in 95..100
           /\ Connected(pairs) => Sum(Capped(v, pairs), UNION pairs) <= Sum(Prior, UNION pairs)
<1> DEFINE F == Families(pairs)
           full == {f \in F : Sum(v, f) > Sum(Prior, f)}
           held == UNION full
           rest == Name \ held
           excess == MapThenSumSet(LAMBDA f : Sum(v, f) - Sum(Prior, f), full)
           Scaled(i) == LET f == CHOOSE g \in full : i \in g IN (v[i] * Sum(Prior, f)) \div Sum(v, f)
           w == [i \in Name |-> IF i \in held THEN Scaled(i)
                                ELSE v[i] + (excess * Prior[i]) \div Sum(Prior, rest)]
           ex == [f \in full |-> Sum(v, f) - Sum(Prior, f)]
<1>1. Capped(v, pairs) = w
  BY DEF Capped
<1>2. Split(F) /\ UNION F = UNION pairs
  BY FamiliesSplit
<1>3. Split(full) /\ \A f \in full : Sum(v, f) > Sum(Prior, f)
  BY <1>2 DEF Split
<1>4. \A f \in full : \A i \in f : w[i] = (v[i] * Sum(Prior, f)) \div Sum(v, f)
  <2> TAKE f \in full
  <2> TAKE i \in f
  <2>1. (CHOOSE g \in full : i \in g) = f
    <3> HIDE DEF full
    <3>1. \A g \in full : i \in g => g = f
      BY <1>3 DEF Split
    <3> QED  BY <3>1
  <2>2. i \in held /\ i \in Name
    BY <1>3 DEF Split
  <2> HIDE DEF full, held, rest, excess
  <2> QED  BY <2>1, <2>2
<1>5. \A f \in full : ex[f] = Sum(v, f) - Sum(Prior, f)
  OBVIOUS
<1>6. \A i \in rest : w[i] = v[i] + (excess * Prior[i]) \div Sum(Prior, rest)
  <2> HIDE DEF full, excess, held
  <2> QED  OBVIOUS
<1>7. F \subseteq SUBSET Name /\ full \subseteq F
  BY <1>2 DEF Split
<1> HIDE DEF F
<1>8. /\ IsFiniteSet(full) /\ held \in SUBSET Name /\ \A i \in held : w[i] \in Nat
      /\ Sum(w, held) <= Sum(Prior, held) /\ Sum(Prior, held) <= Sum(w, held) + Cardinality(held)
      /\ Sum(ex, full) = Sum(v, held) - Sum(Prior, held) /\ Weighs(ex, full)
      /\ full # {} => Sum(v, held) > Sum(Prior, held)
  <2> HIDE DEF full, ex, w
  <2>1. Holding(v, full, w, ex)
    BY <1>3, <1>4, <1>5 DEF Holding
  <2>2. /\ IsFiniteSet(full) /\ held \in SUBSET Name /\ Natural(w, held)
        /\ Sum(w, held) <= Sum(Prior, held) /\ Sum(Prior, held) <= Sum(w, held) + Cardinality(held)
        /\ Sum(ex, full) = Sum(v, held) - Sum(Prior, held) /\ Weighs(ex, full)
        /\ full # {} => Sum(v, held) > Sum(Prior, held)
    BY <2>1, HeldShares
  <2> QED  BY <2>2 DEF Natural
<1>9. excess = Sum(v, held) - Sum(Prior, held)
  <2>1. excess = (CHOOSE g : Exceeding(g, v, full))[full]
    BY DEF MapThenSumSet, MapThenFoldSet, Exceeding
  <2> HIDE DEF full, ex, w, excess
  <2>2. (CHOOSE g : Exceeding(g, v, full))[full] = Sum(ex, full)
    BY <1>5, <1>8, ExcessIsSum
  <2> QED  BY <1>8, <2>1, <2>2
<1>10. full = {} => held = {}
  OBVIOUS
<1>11. \A f \in F : f \notin full => ~(Sum(v, f) > Sum(Prior, f))
  OBVIOUS
<1> HIDE DEF excess, w, ex, full
<1>12. /\ held \cup rest = Name /\ held \cap rest = {} /\ rest \in SUBSET Name
  BY <1>8
<1> HIDE DEF held, rest
<1>13. /\ Weighs(v, Name) /\ Weighs(Prior, Name)
       /\ \A s \in SUBSET Name : /\ Sum(v, s) \in Nat /\ Sum(Prior, s) \in Nat
                                 /\ \A i \in s : Prior[i] <= Sum(Prior, s)
                                 /\ IsFiniteSet(s) /\ Cardinality(s) \in Nat
  <2>1. IsFiniteSet(Name) /\ (\A i \in Name : v[i] \in Nat) /\ (\A i \in Name : Prior[i] \in Nat)
    BY PriorFacts
  <2>2. Weighs(v, Name) /\ \A s \in SUBSET Name : Sum(v, s) \in Nat
    BY ONLY <2>1, SumIsNat
  <2>3. /\ Weighs(Prior, Name)
        /\ \A s \in SUBSET Name : Sum(Prior, s) \in Nat /\ \A i \in s : Prior[i] <= Sum(Prior, s)
    BY ONLY <2>1, SumIsNat
  <2>4. \A s \in SUBSET Name : IsFiniteSet(s) /\ Cardinality(s) \in Nat
    BY ONLY <2>1, FS_Subset, FS_CardinalityType
  <2> QED  BY <2>2, <2>3, <2>4
<1>14. Sum(v, held) + Sum(v, rest) = 100 /\ Sum(Prior, held) + Sum(Prior, rest) = 100
  BY <1>8, <1>12, <1>13, SumOfBoth, PriorFacts
<1>15. Cardinality(held) + Cardinality(rest) = 5
  <2>1. Cardinality(held \cup rest) = Cardinality(held) + Cardinality(rest) - Cardinality(held \cap rest)
    BY <1>8, <1>12, <1>13, FS_Union
  <2>2. Cardinality({}) = 0 /\ Cardinality(Name) = 5
    BY FS_EmptySet, PriorFacts
  <2>3. Cardinality(held) \in Nat /\ Cardinality(rest) \in Nat
    BY <1>8, <1>12, <1>13
  <2>4. Cardinality(Name) = Cardinality(held \cup rest) /\ Cardinality(held \cap rest) = Cardinality({})
    BY <1>12, Zenon
  <2> QED  BY ONLY <2>1, <2>2, <2>3, <2>4
<1>16. excess \in Nat /\ (full = {} => excess = 0)
  <2>1. Sum(v, held) \in Nat /\ Sum(Prior, held) \in Nat
    BY <1>8, <1>13
  <2>2. Sum(v, {}) = 0 /\ Sum(Prior, {}) = 0
    BY SumOfNone
  <2>3. full = {} => excess = 0
    <3>1. full = {} => Sum(v, held) = 0 /\ Sum(Prior, held) = 0
      BY ONLY <1>10, <2>2
    <3> QED  BY ONLY <1>9, <3>1
  <2>4. full # {} => Sum(v, held) > Sum(Prior, held)
    BY <1>8
  <2> QED  BY ONLY <1>9, <2>1, <2>3, <2>4
<1>17. Sum(Prior, rest) > 0
  <2>1. rest # {}
    <3> SUFFICES ASSUME rest = {} PROVE FALSE
      OBVIOUS
    <3>1. held = Name
      BY <1>12
    <3>2. full = {}
      BY <1>8, <3>1, PriorFacts
    <3>3. Cardinality(Name) = 0
      BY <1>10, <3>1, <3>2, FS_EmptySet
    <3> QED  BY <3>3, PriorFacts
  <2>2. PICK i \in rest : TRUE
    BY <2>1
  <2>3. Prior[i] > 0 /\ Prior[i] <= Sum(Prior, rest) /\ Prior[i] \in Nat /\ Sum(Prior, rest) \in Nat
    BY <1>12, <1>13, <2>2, PriorFacts
  <2> QED  BY <2>3
<1> DEFINE more == [i \in rest |-> (Prior[i] * excess) \div Sum(Prior, rest)]
<1>18. /\ \A i \in rest : more[i] \in Nat
       /\ Sum(more, rest) <= excess /\ excess <= Sum(more, rest) + Cardinality(rest)
       /\ Sum(more, rest) \in Nat
  <2>1. PICK d \in Nat, a \in Nat : d = Sum(Prior, rest) /\ a = excess /\ d > 0
    BY <1>12, <1>13, <1>16, <1>17
  <2>2. \A i \in rest : Prior[i] \in Nat /\ more[i] = (Prior[i] * a) \div d
    BY <1>12, <2>1, PriorFacts
  <2> HIDE DEF more
  <2>3. /\ \A i \in rest : more[i] \in Nat
        /\ d * Sum(more, rest) <= a * d /\ a * d <= d * (Sum(more, rest) + Cardinality(rest))
    BY <1>12, <1>13, <2>1, <2>2, FloorShares
  <2>4. Sum(more, rest) \in Nat /\ Cardinality(rest) \in Nat
    BY <1>12, <1>13, <2>3, SumIsNat
  <2>5. \A x, y \in Nat : d * x <= d * y => x <= y
    <3> SUFFICES ASSUME NEW x \in Nat, NEW y \in Nat, y < x
                 PROVE  ~(d * x <= d * y)
      OBVIOUS
    <3>1. d * x - d * y = d * (x - y) /\ d * (x - y) >= d /\ d * x \in Int /\ d * y \in Int
      OBVIOUS
    <3> QED  BY <2>1, <3>1
  <2>6. a * d = d * a
    OBVIOUS
  <2>7. Sum(more, rest) + Cardinality(rest) \in Nat
    BY <2>4
  <2>8. Sum(more, rest) <= a
    BY ONLY <2>3, <2>4, <2>5, <2>6, a \in Nat
  <2>9. a <= Sum(more, rest) + Cardinality(rest)
    BY ONLY <2>3, <2>5, <2>6, <2>7, a \in Nat
  <2> QED  BY <2>1, <2>3, <2>4, <2>8, <2>9
<1>19. \A i \in rest : w[i] = v[i] + more[i]
  <2> TAKE i \in rest
  <2>1. excess * Prior[i] = Prior[i] * excess
    BY <1>12, <1>16, PriorFacts
  <2> QED  BY <1>6, <2>1
<1> HIDE DEF more
<1>20. \A i \in rest : w[i] \in Nat /\ v[i] \in Nat
  BY <1>12, <1>18, <1>19
<1>21. Sum(w, rest) = Sum(v, rest) + Sum(more, rest)
  <2>1. Weighs(v, rest) /\ Weighs(more, rest) /\ Weighs(w, rest)
    BY <1>12, <1>13, <1>18, <1>20 DEF Weighs
  <2> QED  BY <1>19, <2>1, SumOfSums
<1>22. Weighs(w, Name) /\ \A s \in SUBSET Name : Sum(w, s) \in Nat
  <2>1. \A i \in Name : w[i] \in Nat
    BY <1>8, <1>12, <1>20
  <2>2. IsFiniteSet(Name)
    BY PriorFacts
  <2> QED  BY ONLY <2>1, <2>2, SumIsNat
<1>23. Sum(w, Name) = Sum(w, held) + Sum(w, rest)
  BY <1>8, <1>12, <1>22, SumOfBoth
<1>24. Sum(w, Name) \in 95..100
  <2>1. /\ Sum(w, held) \in Nat /\ Sum(w, rest) \in Nat /\ Sum(v, held) \in Nat /\ Sum(v, rest) \in Nat
        /\ Sum(Prior, held) \in Nat /\ Sum(Prior, rest) \in Nat /\ Cardinality(held) \in Nat
        /\ Cardinality(rest) \in Nat /\ Sum(more, rest) \in Nat
    BY <1>8, <1>12, <1>13, <1>18, <1>22
  <2>2. /\ Sum(w, held) <= Sum(Prior, held) /\ Sum(Prior, held) <= Sum(w, held) + Cardinality(held)
        /\ Sum(more, rest) <= excess /\ excess <= Sum(more, rest) + Cardinality(rest)
    BY <1>8, <1>18
  <2> QED  BY ONLY <1>9, <1>14, <1>15, <1>21, <1>23, <2>1, <2>2
<1>25. ASSUME Connected(pairs)
       PROVE  Sum(w, UNION pairs) <= Sum(Prior, UNION pairs)
  <2>1. CASE full = {}
    <3>1. \A i \in Name : w[i] = v[i]
      <4>1. excess = 0 /\ held = {} /\ rest = Name
        BY <1>10, <1>12, <1>16, <2>1
      <4>2. \A i \in rest : more[i] = 0
        <5>1. Sum(more, rest) <= 0 /\ Sum(more, rest) \in Nat
          BY <1>18, <4>1
        <5>2. \A i \in rest : more[i] \in Nat /\ more[i] <= Sum(more, rest)
          BY <1>12, <1>13, <1>18, SumIsNat
        <5> QED  BY <5>1, <5>2
      <4> QED  BY <1>19, <1>20, <4>1, <4>2
    <3>2. UNION pairs \in SUBSET Name
      OBVIOUS
    <3>3. Sum(w, UNION pairs) = Sum(v, UNION pairs)
      <4>1. \A i \in UNION pairs : w[i] = v[i]
        BY <3>1, <3>2
      <4>2. Weighs(v, UNION pairs)
        BY <1>13, <3>2 DEF Weighs
      <4> QED  BY <4>1, <4>2, SumOfEqual
    <3>4. CASE pairs = {}
      <4>1. UNION pairs = {}
        BY <3>4
      <4>2. Sum(w, {}) = 0 /\ Sum(Prior, {}) = 0
        BY SumOfNone
      <4>3. Sum(w, UNION pairs) = 0 /\ Sum(Prior, UNION pairs) = 0
        BY ONLY <4>1, <4>2
      <4> QED  BY ONLY <4>3
    <3>5. CASE pairs # {}
      <4>1. PICK p \in pairs : p # {}
        BY <3>5
      <4>2. PICK f \in F : TRUE
        BY <1>2, <4>1
      <4>3. f = UNION pairs
        BY <1>25, <4>2, LinkedAreOne DEF F
      <4>4. ~(Sum(v, f) > Sum(Prior, f))
        BY <1>11, <2>1, <4>2
      <4>5. Sum(v, f) \in Nat /\ Sum(Prior, f) \in Nat
        BY <1>7, <1>13, <4>2
      <4> QED  BY <3>3, <4>3, <4>4, <4>5
    <3> QED  BY <3>4, <3>5
  <2>2. CASE full # {}
    <3>1. PICK f \in full : TRUE
      BY <2>2
    <3>2. \A g \in full : g = UNION pairs
      BY <1>7, <1>25, LinkedAreOne DEF F
    <3>3. held = UNION pairs
      BY <3>1, <3>2 DEF held
    <3> QED  BY <1>8, <3>3
  <2> QED  BY <2>1, <2>2
<1> QED  BY <1>1, <1>24, <1>25

-----------------------------------------------------------------------------
(* Shares compared: h of n against others, by products.                    *)

LEMMA ProductsOrder ==
    ASSUME NEW d \in Nat, d > 0, NEW x \in Int, NEW y \in Int
    PROVE  /\ d * x <= d * y => x <= y
           /\ x <= y => d * x <= d * y
<1>1. d * y - d * x = d * (y - x)
  OBVIOUS
<1>2. y - x >= 0 => d * (y - x) >= 0
  OBVIOUS
<1>3. y - x < 0 => d * (y - x) < 0
  OBVIOUS
<1>4. d * x \in Int /\ d * y \in Int
  OBVIOUS
<1> QED  BY <1>1, <1>2, <1>3, <1>4

LEMMA SharesFollow ==
    ASSUME NEW h1 \in Nat, NEW n1 \in Nat, NEW h2 \in Nat, NEW n2 \in Nat, NEW h3 \in Nat, NEW n3 \in Nat,
           n2 > 0, h1 * n2 <= h2 * n1, h2 * n3 <= h3 * n2
    PROVE  h1 * n3 <= h3 * n1
<1>1. n3 * (h1 * n2) <= n3 * (h2 * n1)
  <2>1. h1 * n2 \in Nat /\ h2 * n1 \in Nat
    OBVIOUS
  <2>2. CASE n3 = 0
    BY <2>1, <2>2
  <2>3. CASE n3 > 0
    BY <2>1, <2>3, ProductsOrder
  <2> QED  BY <2>2, <2>3
<1>2. n1 * (h2 * n3) <= n1 * (h3 * n2)
  <2>1. h2 * n3 \in Nat /\ h3 * n2 \in Nat
    OBVIOUS
  <2>2. CASE n1 = 0
    BY <2>1, <2>2
  <2>3. CASE n1 > 0
    BY <2>1, <2>3, ProductsOrder
  <2> QED  BY <2>2, <2>3
<1>3. /\ n3 * (h1 * n2) = n2 * (h1 * n3) /\ n1 * (h3 * n2) = n2 * (h3 * n1)
      /\ n3 * (h2 * n1) = n1 * (h2 * n3)
  OBVIOUS
<1>4. /\ n3 * (h1 * n2) \in Int /\ n1 * (h3 * n2) \in Int /\ n3 * (h2 * n1) \in Int
      /\ h1 * n3 \in Int /\ h3 * n1 \in Int
  OBVIOUS
<1>5. n2 * (h1 * n3) <= n2 * (h3 * n1)
  BY <1>1, <1>2, <1>3, <1>4
<1> QED  BY <1>4, <1>5, ProductsOrder

LEMMA SharesTogether ==
    ASSUME NEW h1 \in Nat, NEW n1 \in Nat, NEW h2 \in Nat, NEW n2 \in Nat, NEW h \in Nat, NEW n \in Nat
    PROVE  /\ h1 * n <= h * n1 /\ h2 * n <= h * n2 => (h1 + h2) * n <= h * (n1 + n2)
           /\ h * n1 <= h1 * n /\ h * n2 <= h2 * n => h * (n1 + n2) <= (h1 + h2) * n
           /\ h2 * (n1 + n2) <= (h1 + h2) * n2 => (h1 + h2) * n1 <= h1 * (n1 + n2)
           /\ h2 * n1 <= h1 * n2 => h2 * (n1 + n2) <= (h1 + h2) * n2
<1>1. /\ (h1 + h2) * n = h1 * n + h2 * n /\ h * (n1 + n2) = h * n1 + h * n2
      /\ h2 * (n1 + n2) = h2 * n1 + h2 * n2 /\ (h1 + h2) * n2 = h1 * n2 + h2 * n2
      /\ (h1 + h2) * n1 = h1 * n1 + h2 * n1 /\ h1 * (n1 + n2) = h1 * n1 + h1 * n2
  OBVIOUS
<1>2. /\ h1 * n \in Int /\ h2 * n \in Int /\ h * n1 \in Int /\ h * n2 \in Int
      /\ h2 * n1 \in Int /\ h2 * n2 \in Int /\ h1 * n2 \in Int /\ h1 * n1 \in Int
  OBVIOUS
<1> QED  BY <1>1, <1>2

\* A piece of b no better than b, added to m instead of b.
LEMMA SharesOfPiece ==
    ASSUME NEW hs \in Nat, NEW ns \in Nat, NEW hb \in Nat, NEW nb \in Nat, NEW hm \in Nat, NEW nm \in Nat,
           NEW h \in Nat, NEW n \in Nat, nb > 0, ns <= nb, hs * nb <= hb * ns,
           hm * n <= h * nm, (hb + hm) * n <= h * (nb + nm)
    PROVE  (hs + hm) * n <= h * (ns + nm)
<1> DEFINE d == hb * n - h * nb
           e == hs * n - h * ns
<1>1. d \in Int /\ e \in Int
  OBVIOUS
<1>2. nb * e <= ns * d
  <2>1. n * (hs * nb) <= n * (hb * ns)
    <3>1. hs * nb \in Nat /\ hb * ns \in Nat
      OBVIOUS
    <3>2. CASE n = 0
      BY <3>1, <3>2
    <3>3. CASE n > 0
      BY <3>1, <3>3, ProductsOrder
    <3> QED  BY <3>2, <3>3
  <2>2. nb * e = n * (hs * nb) - nb * (h * ns) /\ ns * d = n * (hb * ns) - nb * (h * ns)
    OBVIOUS
  <2>3. n * (hs * nb) \in Int /\ n * (hb * ns) \in Int /\ nb * (h * ns) \in Int
    OBVIOUS
  <2> QED  BY <2>1, <2>2, <2>3
<1>3. hm * n - h * nm <= 0 /\ d + (hm * n - h * nm) <= 0
  <2>1. (hb + hm) * n = hb * n + hm * n /\ h * (nb + nm) = h * nb + h * nm
    OBVIOUS
  <2>2. hb * n \in Int /\ hm * n \in Int /\ h * nb \in Int /\ h * nm \in Int
    OBVIOUS
  <2> QED  BY <2>1, <2>2
<1>4. e <= 0 \/ e <= d
  <2> HIDE DEF d, e
  <2>1. CASE d <= 0
    <3>1. ns * d <= 0
      BY <1>1, <2>1
    <3>2. nb * e \in Int /\ ns * d \in Int /\ nb * 0 = 0
      BY <1>1
    <3>3. nb * e <= nb * 0
      BY <1>2, <3>1, <3>2
    <3> QED  BY <1>1, <3>3, ProductsOrder
  <2>2. CASE d > 0
    <3>1. nb * d - ns * d = (nb - ns) * d
      BY <1>1
    <3>2. (nb - ns) * d >= 0
      BY <1>1, <2>2
    <3>3. nb * e \in Int /\ ns * d \in Int /\ nb * d \in Int
      BY <1>1
    <3>4. nb * e <= nb * d
      BY <1>2, <3>1, <3>2, <3>3
    <3> QED  BY <1>1, <3>4, ProductsOrder
  <2> QED  BY <1>1, <2>1, <2>2
<1>5. e + (hm * n - h * nm) <= 0
  <2> DEFINE c == hm * n - h * nm
  <2>1. c \in Int
    OBVIOUS
  <2> HIDE DEF c, d, e
  <2> QED  BY <1>1, <1>3, <1>4, <2>1 DEF c
<1>6. (hs + hm) * n = hs * n + hm * n /\ h * (ns + nm) = h * ns + h * nm
  OBVIOUS
<1>7. hs * n \in Int /\ hm * n \in Int /\ h * ns \in Int /\ h * nm \in Int
  OBVIOUS
<1> QED  BY <1>5, <1>6, <1>7 DEF e

\* Rounding down to percents keeps the order.
LEMMA PercentsFollow ==
    ASSUME NEW h1 \in Nat, NEW n1 \in Nat, NEW h2 \in Nat, NEW n2 \in Nat, n1 > 0, n2 > 0,
           h1 * n2 <= h2 * n1, NEW c \in Nat
    PROVE  (c * h1) \div n1 <= (c * h2) \div n2
<1>1. \A a \in Nat, d \in Nat : d > 0 => /\ a \div d \in Int
                                         /\ d * (a \div d) <= a /\ a < d * (a \div d) + d
  OBVIOUS
<1>2. c * h1 \in Nat /\ c * h2 \in Nat
  OBVIOUS
<1>3. PICK i \in Int, j \in Int : i = (c * h1) \div n1 /\ j = (c * h2) \div n2
  BY <1>1, <1>2
<1>4. n1 * i <= c * h1 /\ c * h2 < n2 * j + n2
  BY <1>1, <1>2, <1>3
<1>5. (n1 * n2) * i <= c * (h1 * n2)
  <2>1. n1 * i \in Int /\ c * h1 \in Int
    OBVIOUS
  <2>2. n2 * (n1 * i) <= n2 * (c * h1)
    BY <1>4, <2>1, ProductsOrder
  <2>3. n2 * (n1 * i) = (n1 * n2) * i /\ n2 * (c * h1) = c * (h1 * n2)
    OBVIOUS
  <2> QED  BY <2>2, <2>3
<1>6. c * (h2 * n1) < (n1 * n2) * (j + 1)
  <2>1. c * h2 \in Int /\ n2 * j + n2 \in Int /\ n1 * (n2 * j + n2) \in Int /\ n1 * (c * h2) \in Int
    OBVIOUS
  <2>2. ~(n1 * (n2 * j + n2) <= n1 * (c * h2))
    BY <1>4, <2>1, ProductsOrder
  <2>3. n1 * (n2 * j + n2) = (n1 * n2) * (j + 1) /\ n1 * (c * h2) = c * (h2 * n1)
    OBVIOUS
  <2> QED  BY <2>1, <2>2, <2>3
<1>7. c * (h1 * n2) <= c * (h2 * n1)
  <2>1. h1 * n2 \in Int /\ h2 * n1 \in Int
    OBVIOUS
  <2>2. CASE c = 0
    BY <2>1, <2>2
  <2>3. CASE c > 0
    BY <2>1, <2>3, ProductsOrder
  <2> QED  BY <2>2, <2>3
<1>8. n1 * n2 \in Nat /\ n1 * n2 > 0
  OBVIOUS
<1>9. ~((n1 * n2) * (j + 1) <= (n1 * n2) * i)
  <2>1. /\ (n1 * n2) * i \in Int /\ (n1 * n2) * (j + 1) \in Int
        /\ c * (h1 * n2) \in Int /\ c * (h2 * n1) \in Int
    OBVIOUS
  <2> QED  BY <1>5, <1>6, <1>7, <2>1
<1>10. ~(j + 1 <= i)
  <2>1. PICK d \in Nat : d = n1 * n2 /\ d > 0
    BY <1>8
  <2>2. ~(d * (j + 1) <= d * i) /\ j + 1 \in Int
    BY <1>9, <2>1
  <2> QED  BY <2>1, <2>2, ProductsOrder
<1> QED  BY <1>3, <1>10

-----------------------------------------------------------------------------
(* Points.                                                                 *)

ArePoints(P) == IsFiniteSet(P) /\ \A o \in P : o.x \in 0..100 /\ o.y \in {0, 1}

\* What Hits and Mass recurse over.
Hitting(iter, S) ==
    iter = [s \in SUBSET S |-> IF s = {} THEN 0 ELSE LET o == CHOOSE o \in s : TRUE IN o.y + iter[s \ {o}]]
Massing(iter, S) ==
    iter = [s \in SUBSET S |-> IF s = {} THEN 0 ELSE LET o == CHOOSE o \in s : TRUE IN o.x + iter[s \ {o}]]

LEMMA HitsIsSum ==
    ASSUME NEW P, ArePoints(P)
    PROVE  \A S \in SUBSET P : Hits(S) = Sum([o \in P |-> o.y], S) /\ Mass(S) = Sum([o \in P |-> o.x], S)
<1> DEFINE ys == [o \in P |-> o.y]
           xs == [o \in P |-> o.x]
<1>1. SUFFICES ASSUME NEW S \in SUBSET P
               PROVE  Hits(S) = Sum(ys, S) /\ Mass(S) = Sum(xs, S)
  OBVIOUS
<1>2. Weighs(ys, S) /\ Weighs(xs, S)
  BY FS_Subset DEF ArePoints, Weighs
<1>3. \A o \in S : ys[o] = o.y /\ xs[o] = o.x
  OBVIOUS
<1> HIDE DEF ys, xs
<1>4. ASSUME NEW h
      PROVE  (Adds(h, S, ys) <=> Hitting(h, S)) /\ (Adds(h, S, xs) <=> Massing(h, S))
  <2>1. ASSUME NEW s \in SUBSET S, s # {}
        PROVE  /\ LET o == CHOOSE o \in s : TRUE IN ys[o] + h[s \ {o}] = o.y + h[s \ {o}]
               /\ LET o == CHOOSE o \in s : TRUE IN xs[o] + h[s \ {o}] = o.x + h[s \ {o}]
    <3> DEFINE o == CHOOSE o \in s : TRUE
    <3>1. o \in S
      BY <2>1
    <3> HIDE DEF o
    <3>2. ys[o] = o.y /\ xs[o] = o.x
      BY <1>3, <3>1
    <3> QED  BY <3>2 DEF o
  <2> QED  BY <2>1 DEF Adds, Hitting, Massing
<1>5. Hits(S) = Sum(ys, S)
  <2> DEFINE g == CHOOSE g : Hitting(g, S)
  <2>1. Hits(S) = g[S]
    BY DEF Hits, MapThenSumSet, MapThenFoldSet, Hitting
  <2>2. PICK h : Adds(h, S, ys)
    BY <1>2, AddsExists
  <2>3. Hitting(h, S)
    BY <1>4, <2>2
  <2>4. Hitting(g, S)
    BY <2>3, Zenon
  <2> HIDE DEF g
  <2>5. Sum(ys, S) = g[S]
    BY <1>2, <1>4, <2>4, SumIsIter
  <2> QED  BY <2>1, <2>5
<1>6. Mass(S) = Sum(xs, S)
  <2> DEFINE g == CHOOSE g : Massing(g, S)
  <2>1. Mass(S) = g[S]
    BY DEF Mass, MapThenSumSet, MapThenFoldSet, Massing
  <2>2. PICK h : Adds(h, S, xs)
    BY <1>2, AddsExists
  <2>3. Massing(h, S)
    BY <1>4, <2>2
  <2>4. Massing(g, S)
    BY <2>3, Zenon
  <2> HIDE DEF g
  <2>5. Sum(xs, S) = g[S]
    BY <1>2, <1>4, <2>4, SumIsIter
  <2> QED  BY <2>1, <2>5
<1> QED  BY <1>5, <1>6

LEMMA PointsCount ==
    ASSUME NEW P, ArePoints(P)
    PROVE  /\ \A S \in SUBSET P : /\ IsFiniteSet(S) /\ Cardinality(S) \in Nat
                                  /\ Hits(S) \in Nat /\ Mass(S) \in Nat
                                  /\ S # {} => Cardinality(S) > 0
           /\ \A A, B \in SUBSET P : A \cap B = {} =>
                /\ Hits(A \cup B) = Hits(A) + Hits(B)
                /\ Cardinality(A \cup B) = Cardinality(A) + Cardinality(B)
           /\ \A A, B \in SUBSET P : A \subseteq B => Cardinality(A) <= Cardinality(B)
           /\ Hits({}) = 0 /\ Cardinality({}) = 0
<1> DEFINE ys == [o \in P |-> o.y]
           xs == [o \in P |-> o.x]
<1>1. /\ \A S \in SUBSET P : Hits(S) = Sum(ys, S) /\ Mass(S) = Sum(xs, S)
      /\ (\A o \in P : ys[o] \in Nat) /\ (\A o \in P : xs[o] \in Nat) /\ IsFiniteSet(P)
  BY HitsIsSum DEF ArePoints
<1> HIDE DEF ys, xs
<1>2. Weighs(ys, P) /\ \A S \in SUBSET P : Sum(ys, S) \in Nat
  BY <1>1, SumIsNat
<1>3. \A S \in SUBSET P : Sum(xs, S) \in Nat
  BY <1>1, SumIsNat
<1>4. \A S \in SUBSET P : /\ IsFiniteSet(S) /\ Cardinality(S) \in Nat
                          /\ S # {} => Cardinality(S) > 0
  <2> TAKE S \in SUBSET P
  <2>1. IsFiniteSet(S) /\ Cardinality(S) \in Nat /\ (Cardinality(S) = 0 <=> S = {})
    BY <1>1, FS_Subset, FS_CardinalityType, FS_EmptySet
  <2> QED  BY <2>1
<1>5. ASSUME NEW A \in SUBSET P, NEW B \in SUBSET P, A \cap B = {}
      PROVE  /\ Hits(A \cup B) = Hits(A) + Hits(B)
             /\ Cardinality(A \cup B) = Cardinality(A) + Cardinality(B)
  <2>1. Sum(ys, A \cup B) = Sum(ys, A) + Sum(ys, B)
    BY <1>2, <1>5, SumOfBoth
  <2>2. A \cup B \in SUBSET P
    OBVIOUS
  <2>3. Cardinality(A \cup B) = Cardinality(A) + Cardinality(B) - Cardinality(A \cap B)
    BY <1>4, FS_Union
  <2>4. Cardinality(A \cap B) = 0
    BY <1>5, FS_EmptySet, Zenon
  <2>5. Cardinality(A) \in Nat /\ Cardinality(B) \in Nat
    BY <1>4
  <2> QED  BY <1>1, <2>1, <2>2, <2>3, <2>4, <2>5
<1>6. \A A, B \in SUBSET P : A \subseteq B => Cardinality(A) <= Cardinality(B)
  BY <1>4, FS_Subset
<1>7. Hits({}) = 0 /\ Cardinality({}) = 0
  <2>1. Sum(ys, {}) = 0 /\ {} \in SUBSET P
    BY SumOfNone
  <2> QED  BY <1>1, <2>1, FS_EmptySet
<1> QED  BY <1>1, <1>2, <1>3, <1>4, <1>5, <1>6, <1>7

-----------------------------------------------------------------------------
(* Shares of sets of points.                                               *)

\* A's share of overs is no higher than B's; an empty set's is any.
Low(A, B) == Hits(A) * Cardinality(B) <= Hits(B) * Cardinality(A)

LEMMA LowOrOver ==
    ASSUME NEW P, ArePoints(P), NEW A \in SUBSET P, NEW B \in SUBSET P
    PROVE  ~Over(A, B) <=> Low(A, B)
<1>1. Hits(A) \in Nat /\ Hits(B) \in Nat /\ Cardinality(A) \in Nat /\ Cardinality(B) \in Nat
  BY PointsCount
<1>2. Hits(A) * Cardinality(B) \in Int /\ Hits(B) * Cardinality(A) \in Int
  BY <1>1
<1> QED  BY <1>2 DEF Over, Low

LEMMA LowIsWeak ==
    ASSUME NEW P, ArePoints(P), NEW A \in SUBSET P
    PROVE  Low(A, A) /\ Low({}, A) /\ Low(A, {})
<1>1. Hits(A) \in Nat /\ Cardinality(A) \in Nat /\ Hits({}) = 0 /\ Cardinality({}) = 0
  BY PointsCount
<1>2. 0 * Cardinality(A) = 0 /\ Hits(A) * 0 = 0 /\ Hits(A) * Cardinality(A) \in Int
  BY <1>1
<1> QED  BY <1>1, <1>2 DEF Low

LEMMA OverIsHigh ==
    ASSUME NEW P, ArePoints(P), NEW A \in SUBSET P, NEW B \in SUBSET P, Over(A, B)
    PROVE  Low(B, A)
<1>1. Hits(A) \in Nat /\ Hits(B) \in Nat /\ Cardinality(A) \in Nat /\ Cardinality(B) \in Nat
  BY PointsCount
<1>2. Hits(A) * Cardinality(B) \in Int /\ Hits(B) * Cardinality(A) \in Int
  BY <1>1
<1> QED  BY <1>2 DEF Over, Low

LEMMA LowFollows ==
    ASSUME NEW P, ArePoints(P), NEW A \in SUBSET P, NEW B \in SUBSET P, NEW C \in SUBSET P,
           B # {}, Low(A, B), Low(B, C)
    PROVE  Low(A, C)
<1>1. /\ Hits(A) \in Nat /\ Hits(B) \in Nat /\ Hits(C) \in Nat
      /\ Cardinality(A) \in Nat /\ Cardinality(B) \in Nat /\ Cardinality(C) \in Nat /\ Cardinality(B) > 0
  BY PointsCount
<1> QED  BY <1>1, SharesFollow DEF Low

\* Two sets without a common point.
LEMMA LowTogether ==
    ASSUME NEW P, ArePoints(P), NEW A \in SUBSET P, NEW B \in SUBSET P, NEW C \in SUBSET P, A \cap B = {}
    PROVE  /\ Low(A, C) /\ Low(B, C) => Low(A \cup B, C)
           /\ Low(C, A) /\ Low(C, B) => Low(C, A \cup B)
           /\ Low(B, A \cup B) => Low(A \cup B, A)
           /\ Low(B, A) => Low(B, A \cup B)
<1>1. /\ Hits(A) \in Nat /\ Hits(B) \in Nat /\ Hits(C) \in Nat
      /\ Cardinality(A) \in Nat /\ Cardinality(B) \in Nat /\ Cardinality(C) \in Nat
  BY PointsCount
<1>2. /\ Hits(A \cup B) = Hits(A) + Hits(B)
      /\ Cardinality(A \cup B) = Cardinality(A) + Cardinality(B)
  BY PointsCount
<1>3. PICK ha \in Nat, hb \in Nat, hc \in Nat, na \in Nat, nb \in Nat, nc \in Nat :
        /\ ha = Hits(A) /\ hb = Hits(B) /\ hc = Hits(C)
        /\ na = Cardinality(A) /\ nb = Cardinality(B) /\ nc = Cardinality(C)
  BY <1>1
<1>4. /\ ha * nc <= hc * na /\ hb * nc <= hc * nb => (ha + hb) * nc <= hc * (na + nb)
      /\ hc * na <= ha * nc /\ hc * nb <= hb * nc => hc * (na + nb) <= (ha + hb) * nc
      /\ hb * (na + nb) <= (ha + hb) * nb => (ha + hb) * na <= ha * (na + nb)
      /\ hb * na <= ha * nb => hb * (na + nb) <= (ha + hb) * nb
  BY SharesTogether
<1> QED  BY <1>2, <1>3, <1>4 DEF Low

\* Any number of sets without a common point.
LEMMA LowOfParts ==
    ASSUME NEW P, ArePoints(P), NEW B \in SUBSET P, NEW Q \in SUBSET SUBSET P, IsFiniteSet(Q),
           \A a, c \in Q : a # c => a \cap c = {}
    PROVE  /\ (\A a \in Q : Low(a, B)) => Low(UNION Q, B)
           /\ (\A a \in Q : Low(B, a)) => Low(B, UNION Q)
<1> DEFINE Good == {q \in SUBSET Q : /\ (\A a \in Q : Low(a, B)) => Low(UNION q, B)
                                     /\ (\A a \in Q : Low(B, a)) => Low(B, UNION q)}
<1>1. {} \in Good
  <2>1. UNION {} = {}
    OBVIOUS
  <2>2. Low({}, B) /\ Low(B, {})
    BY LowIsWeak
  <2>3. Low(UNION {}, B) /\ Low(B, UNION {})
    BY <2>1, <2>2, Zenon
  <2> QED  BY <2>3
<1>2. ASSUME NEW q \in SUBSET Q, q # {}, \A a \in q : q \ {a} \in Good
      PROVE  q \in Good
  <2>1. PICK a \in q : TRUE
    BY <1>2
  <2>2. PICK r : r = UNION (q \ {a})
    OBVIOUS
  <2>3. r \in SUBSET P /\ a \in SUBSET P /\ a \cap r = {} /\ UNION q = a \cup r
    BY <2>1, <2>2
  <2>4. /\ (\A c \in Q : Low(c, B)) => Low(r, B)
        /\ (\A c \in Q : Low(B, c)) => Low(B, r)
    BY <1>2, <2>1, <2>2
  <2>5. /\ Low(a, B) /\ Low(r, B) => Low(a \cup r, B)
        /\ Low(B, a) /\ Low(B, r) => Low(B, a \cup r)
    BY <2>3, LowTogether
  <2>6. UNION q = a \cup r /\ a \in Q
    BY <2>1, <2>3
  <2> QED  BY <2>4, <2>5, <2>6
<1>3. \A q \in SUBSET Q : q \in Good
  <2> HIDE DEF Good
  <2> QED  BY <1>1, <1>2, PartsInduction
<1>4. Q \in Good
  <2> HIDE DEF Good
  <2> QED  BY <1>3
<1> QED  BY <1>4

-----------------------------------------------------------------------------
(* The pass.                                                               *)

LEMMA MergedIs ==
    ASSUME NEW V, NEW blocks \in Seq(V), NEW b, NEW k \in 0..Len(blocks)
    PROVE  Merged(blocks, b, k) = b \cup UNION {blocks[i] : i \in (k + 1)..Len(blocks)}
<1> DEFINE n == Len(blocks)
           s == SubSeq(blocks, k + 1, n)
<1>1. n \in Nat /\ DOMAIN blocks = 1..n
  BY LenProperties
<1>2. ToSet(s) = {blocks[i] : i \in (k + 1)..n}
  <2>1. /\ \A i \in (k + 1)..n : i \in 1..n
        /\ Len(s) = n - k /\ DOMAIN s = 1..(n - k)
        /\ \A i \in 1..(n - k) : s[i] = blocks[k + i]
    <3>1. \A i \in (k + 1)..n : i \in 1..n
      BY <1>1
    <3>2. /\ s \in Seq(V) /\ Len(s) = IF k + 1 <= n THEN n - (k + 1) + 1 ELSE 0
          /\ \A i \in 1..(n - (k + 1) + 1) : s[i] = blocks[(k + 1) + i - 1]
      <4>1. n \in Int /\ k + 1 \in Int /\ \A i \in (k + 1)..n : blocks[i] \in V
        BY <1>1, <3>1, ElementOfSeq
      <4> HIDE DEF n
      <4> QED  BY <4>1, SubSeqProperties
    <3> HIDE DEF s, n
    <3>3. k \in Nat /\ k <= n /\ n - (k + 1) + 1 = n - k
      BY <1>1 DEF n
    <3>4. Len(s) = n - k
      BY <1>1, <3>2, <3>3
    <3>5. DOMAIN s = 1..(n - k)
      BY <3>2, <3>4, LenProperties
    <3>6. \A i \in 1..(n - k) : s[i] = blocks[k + i]
      BY <1>1, <3>2, <3>3
    <3> QED  BY <3>1, <3>4, <3>5, <3>6, Zenon
  <2> HIDE DEF s, n
  <2>2. ASSUME NEW i \in (k + 1)..n
        PROVE  i - k \in 1..(n - k) /\ s[i - k] = blocks[i]
    BY <1>1, <2>1
  <2>3. ASSUME NEW i \in 1..(n - k)
        PROVE  k + i \in (k + 1)..n /\ s[i] = blocks[k + i]
    BY <1>1, <2>1
  <2> QED  BY <2>1, <2>2, <2>3 DEF ToSet
<1> QED  BY <1>2 DEF Merged

\* Blocks of the points P whose x is in s: in order, none above the next, and no
\* upper part of a block above the block.
AreBlocks(blocks, P, s) ==
    /\ blocks \in Seq(SUBSET P)
    /\ \A i \in 1..Len(blocks) : blocks[i] # {}
    /\ UNION {blocks[i] : i \in 1..Len(blocks)} = {o \in P : o.x \in s}
    /\ \A i, j \in 1..Len(blocks) : i < j => /\ \A o \in blocks[i], q \in blocks[j] : o.x < q.x
                                             /\ Low(blocks[i], blocks[j])
    /\ \A i \in 1..Len(blocks), t \in Nat : Low({o \in blocks[i] : o.x >= t}, blocks[i])

LEMMA MaxOfBounded ==
    ASSUME NEW n \in Nat, NEW S \in SUBSET (0..n), S # {}
    PROVE  Max(S) \in S /\ \A x \in S : x <= Max(S)
<1> DEFINE T == {n - x : x \in S}
<1>1. T \in SUBSET Nat /\ T # {}
  <2>1. \A x \in S : x \in 0..n /\ n - x \in Nat
    OBVIOUS
  <2> QED  BY <2>1
<1>2. PICK t \in T : \A y \in T : t <= y
  <2> HIDE DEF T
  <2> QED  BY <1>1, LeastOfNat
<1>3. PICK x \in S : t = n - x
  BY <1>2
<1>4. \A y \in S : x >= y
  <2> TAKE y \in S
  <2>1. n - x <= n - y
    BY <1>2, <1>3
  <2> QED  BY <2>1
<1>5. Max(S) \in S /\ \A y \in S : Max(S) >= y
  BY <1>3, <1>4 DEF Max
<1>6. \A y \in S : Max(S) \in 0..n /\ y \in 0..n
  BY <1>5
<1> QED  BY <1>5, <1>6

\* b, of the one x that is above s, is to follow the blocks of s.
Following(P, s, blocks, x, b) ==
    /\ ArePoints(P) /\ AreBlocks(blocks, P, s)
    /\ x \in Nat /\ \A y \in s : y < x
    /\ b = {o \in P : o.x = x} /\ b # {}

\* What is merged with b is b with every block after i.
Merges(P, blocks, b) ==
    /\ Len(blocks) \in Nat
    /\ Merged(blocks, b, Len(blocks)) = b
    /\ \A i \in 0..Len(blocks) :
         /\ Merged(blocks, b, i) \in SUBSET P /\ Merged(blocks, b, i) # {} /\ b \subseteq Merged(blocks, b, i)
         /\ \A o \in Merged(blocks, b, i) : o \in b \/ \E j \in (i + 1)..Len(blocks) : o \in blocks[j]
         /\ \A j \in (i + 1)..Len(blocks) : blocks[j] \subseteq Merged(blocks, b, i)
    /\ \A i \in 1..Len(blocks) : /\ blocks[i] \in SUBSET P
                                 /\ blocks[i] \cap Merged(blocks, b, i) = {}
                                 /\ Merged(blocks, b, i - 1) = blocks[i] \cup Merged(blocks, b, i)

LEMMA NothingBelowItself == \A c \in 0..100 : ~(c < c)
  OBVIOUS

LEMMA MergedGrows ==
    ASSUME NEW P, NEW s, NEW blocks, NEW x, NEW b, Following(P, s, blocks, x, b)
    PROVE  Merges(P, blocks, b)
<1> DEFINE n == Len(blocks)
           M(i) == Merged(blocks, b, i)
<1>1. n \in Nat /\ blocks \in Seq(SUBSET P) /\ DOMAIN blocks = 1..n /\ \A i \in 1..n : blocks[i] \in SUBSET P
  BY LenProperties, ElementOfSeq DEF AreBlocks, Following
<1>2. \A i \in 0..n : M(i) = b \cup UNION {blocks[j] : j \in (i + 1)..n}
  BY <1>1, MergedIs
<1> HIDE DEF M
<1>3. ASSUME NEW i \in 0..n
      PROVE  /\ \A o : o \in M(i) <=> o \in b \/ \E j \in (i + 1)..n : o \in blocks[j]
             /\ \A j \in (i + 1)..n : j \in 1..n
  BY <1>1, <1>2
<1>4. \A i \in 0..n : M(i) \in SUBSET P /\ M(i) # {} /\ b \subseteq M(i)
  BY <1>1, <1>3 DEF Following
<1>5. M(n) = b
  <2>1. \A o : o \in M(n) <=> o \in b
    BY <1>1, <1>3
  <2> QED  BY <2>1
<1>6. ASSUME NEW i \in 1..n
      PROVE  blocks[i] \cap M(i) = {} /\ M(i - 1) = blocks[i] \cup M(i)
  <2>1. /\ i \in 0..n /\ i - 1 \in 0..n
        /\ \A j : j \in ((i - 1) + 1)..n <=> j = i \/ j \in (i + 1)..n
    BY <1>1
  <2>2. \A o : o \in M(i - 1) <=> o \in blocks[i] \cup M(i)
    BY <1>3, <2>1
  <2>3. ASSUME NEW o \in blocks[i], o \in M(i)
        PROVE  FALSE
    <3>1. o \in P /\ o.x \in s
      BY <1>1 DEF AreBlocks, Following
    <3>6. o.x \in 0..100
      BY <3>1 DEF ArePoints, Following
    <3>2. o \notin b
      BY <3>1, <3>6 DEF Following
    <3>3. PICK j \in (i + 1)..n : o \in blocks[j]
      BY <1>3, <2>1, <2>3, <3>2
    <3>4. j \in 1..n /\ i < j
      BY <1>1
    <3>5. o.x < o.x
      BY <3>3, <3>4 DEF AreBlocks, Following
    <3> QED  BY <3>5, <3>6, NothingBelowItself, Zenon
  <2> QED  BY <2>2, <2>3
<1> QED  BY <1>1, <1>3, <1>4, <1>5, <1>6 DEF M, Merges

\* While the block before is higher, what has been merged is no higher than the whole.
LEMMA MergedIsLow ==
    ASSUME NEW P, NEW s, NEW blocks, NEW x, NEW b, Following(P, s, blocks, x, b),
           NEW k \in 0..Len(blocks), \A i \in (k + 1)..Len(blocks) : Over(blocks[i], Merged(blocks, b, i))
    PROVE  \A i \in k..Len(blocks) : Low(Merged(blocks, b, i), Merged(blocks, b, k))
<1> DEFINE n == Len(blocks)
           M(i) == Merged(blocks, b, i)
<1>1. /\ n \in Nat
      /\ \A i \in 0..n : M(i) \in SUBSET P /\ M(i) # {}
      /\ \A i \in 1..n : blocks[i] \cap M(i) = {} /\ M(i - 1) = blocks[i] \cup M(i)
  BY MergedGrows DEF Merges
<1>2. ArePoints(P) /\ \A i \in 1..n : blocks[i] \in SUBSET P
  <2>1. ArePoints(P)
    BY DEF Following
  <2>2. \A i \in 1..n : blocks[i] \in SUBSET P
    BY MergedGrows DEF Merges
  <2> QED  BY <2>1, <2>2
<1>3. \A i \in (k + 1)..n : Over(blocks[i], M(i))
  OBVIOUS
<1> DEFINE Bad == {i \in k..n : ~Low(M(i), M(k))}
<1>4. SUFFICES ASSUME Bad # {}
               PROVE  FALSE
  OBVIOUS
<1>5. Bad \in SUBSET Nat
  BY <1>1
<1>6. PICK i \in Bad : \A y \in Bad : i <= y
  <2> HIDE DEF Bad
  <2> QED  BY <1>4, <1>5, LeastOfNat
<1>7. i \in k..n /\ ~Low(M(i), M(k))
  BY <1>6
<1> HIDE DEF M, n
<1>8. CASE i = k
  <2>1. Low(M(k), M(k))
    BY <1>1, <1>2, LowIsWeak DEF n
  <2> QED  BY <1>7, <1>8, <2>1
<1>9. CASE i # k
  <2>1. i \in (k + 1)..n /\ i \in 1..n /\ i - 1 \in k..n /\ i - 1 \in 0..n /\ i \in 0..n /\ k \in 0..n /\ ~(i <= i - 1)
    BY <1>1, <1>7, <1>9 DEF n
  <2>2. Low(M(i - 1), M(k))
    BY <1>6, <2>1
  <2>3. Low(M(i), blocks[i])
    BY <1>1, <1>2, <1>3, <2>1, OverIsHigh
  <2>4. Low(M(i), blocks[i] \cup M(i))
    BY <1>1, <1>2, <2>1, <2>3, LowTogether
  <2>5. Low(M(i), M(i - 1))
    BY <1>1, <2>1, <2>4
  <2>6. Low(M(i), M(k))
    BY <1>1, <1>2, <2>1, <2>2, <2>5, LowFollows
  <2> QED  BY <1>7, <2>6
<1> QED  BY <1>8, <1>9

LEMMA PushIsBlocks ==
    ASSUME NEW P, NEW s, NEW blocks, NEW x, NEW b, Following(P, s, blocks, x, b)
    PROVE  AreBlocks(Push(blocks, b), P, s \cup {x})
<1> DEFINE n == Len(blocks)
           M(i) == Merged(blocks, b, i)
           Rest(i) == i = 0 \/ ~Over(blocks[i], M(i))
           R == {i \in 0..n : Rest(i)}
           k == Max(R)
           new == Append(SubSeq(blocks, 1, k), M(k))
<1>1. Push(blocks, b) = new
  BY DEF Push
<1>2. Merges(P, blocks, b) /\ ArePoints(P)
  <2>1. Merges(P, blocks, b)
    BY MergedGrows
  <2>2. ArePoints(P)
    BY DEF Following
  <2> QED  BY <2>1, <2>2
<1>3. /\ n \in Nat /\ M(n) = b
      /\ \A i \in 0..n : /\ M(i) \in SUBSET P /\ M(i) # {} /\ b \subseteq M(i)
                         /\ \A o \in M(i) : o \in b \/ \E j \in (i + 1)..n : o \in blocks[j]
                         /\ \A j \in (i + 1)..n : blocks[j] \subseteq M(i)
      /\ \A i \in 1..n : /\ blocks[i] \in SUBSET P /\ blocks[i] \cap M(i) = {}
                         /\ M(i - 1) = blocks[i] \cup M(i)
  BY <1>2 DEF Merges
<1>4. k \in 0..n /\ Rest(k) /\ \A i \in (k + 1)..n : Over(blocks[i], M(i))
  <2>1. R \in SUBSET (0..n) /\ 0 \in R
    BY <1>3
  <2>2. k \in R /\ \A i \in R : i <= k
    <3> HIDE DEF R, n
    <3> QED  BY <1>3, <2>1, MaxOfBounded DEF n
  <2>3. \A i \in (k + 1)..n : i \in 0..n /\ ~(i <= k)
    <3>1. k \in 0..n
      BY <2>1, <2>2
    <3> HIDE DEF k, n
    <3> QED  BY <1>3, <3>1
  <2> QED  BY <2>1, <2>2, <2>3
<1>5. \A i \in k..n : Low(M(i), M(k))
  <2> HIDE DEF k
  <2> QED  BY <1>4, MergedIsLow
<1> HIDE DEF k
<1>6. /\ blocks \in Seq(SUBSET P)
      /\ \A i \in 1..n : blocks[i] # {}
      /\ UNION {blocks[i] : i \in 1..n} = {o \in P : o.x \in s}
      /\ \A i, j \in 1..n : i < j => /\ \A o \in blocks[i], q \in blocks[j] : o.x < q.x
                                     /\ Low(blocks[i], blocks[j])
      /\ \A i \in 1..n, t \in Nat : Low({o \in blocks[i] : o.x >= t}, blocks[i])
  BY DEF Following, AreBlocks
<1>7. x \in Nat /\ (\A y \in s : y < x) /\ b = {o \in P : o.x = x}
  BY DEF Following
<1>8. \A o \in P : o.x \in 0..100
  BY <1>2 DEF ArePoints
<1> HIDE DEF n, M
<1>9. /\ new \in Seq(SUBSET P) /\ Len(new) = k + 1
      /\ (\A i \in 1..k : new[i] = blocks[i]) /\ new[k + 1] = M(k)
  <2>1. \A i \in 1..k : i \in 1..n
    BY <1>3, <1>4
  <2>2. /\ SubSeq(blocks, 1, k) \in Seq(SUBSET P) /\ Len(SubSeq(blocks, 1, k)) = k
        /\ \A i \in 1..k : SubSeq(blocks, 1, k)[i] = blocks[i]
    <3>1. \A i \in 1..k : blocks[i] \in SUBSET P
      BY <1>3, <2>1
    <3>2. /\ SubSeq(blocks, 1, k) \in Seq(SUBSET P)
          /\ Len(SubSeq(blocks, 1, k)) = IF 1 <= k THEN k - 1 + 1 ELSE 0
          /\ \A i \in 1..(k - 1 + 1) : SubSeq(blocks, 1, k)[i] = blocks[1 + i - 1]
      BY <1>3, <1>4, <3>1, SubSeqProperties
    <3> QED  BY <1>3, <1>4, <3>2
  <2>3. M(k) \in SUBSET P
    BY <1>3, <1>4
  <2> QED  BY <1>3, <1>4, <2>2, <2>3, AppendProperties
<1> HIDE DEF new
<1>10. ASSUME NEW i \in 1..(k + 1)
       PROVE  (i \in 1..k /\ i \in 1..n /\ new[i] = blocks[i]) \/ (i = k + 1 /\ new[i] = M(k))
  BY <1>3, <1>4, <1>9
<1>11. \A i \in 1..(k + 1) : new[i] # {}
  BY <1>3, <1>4, <1>6, <1>10
<1>12. UNION {new[i] : i \in 1..(k + 1)} = {o \in P : o.x \in s \cup {x}}
  <2>1. ASSUME NEW i \in 1..(k + 1), NEW o \in new[i]
        PROVE  o \in P /\ o.x \in s \cup {x}
    <3>1. CASE i \in 1..n /\ new[i] = blocks[i]
      BY <1>6, <2>1, <3>1
    <3>2. CASE new[i] = M(k)
      <4>1. o \in P /\ (o \in b \/ \E j \in (k + 1)..n : o \in blocks[j])
        BY <1>3, <1>4, <2>1, <3>2
      <4>2. \A j \in (k + 1)..n : j \in 1..n
        BY <1>3, <1>4
      <4>3. o \in b => o.x = x
        BY <1>7
      <4>4. (\E j \in 1..n : o \in blocks[j]) => o.x \in s
        BY <1>6
      <4> QED  BY <4>1, <4>2, <4>3, <4>4
    <3> QED  BY <1>10, <3>1, <3>2
  <2>2. ASSUME NEW o \in P, o.x \in s \cup {x}
        PROVE  \E i \in 1..(k + 1) : o \in new[i]
    <3>1. k + 1 \in 1..(k + 1) /\ k \in 0..n
      BY <1>3, <1>4
    <3>2. CASE o.x = x
      <4>1. o \in M(k)
        BY <1>3, <1>4, <1>7, <3>2
      <4> QED  BY <1>9, <3>1, <4>1
    <3>3. CASE o.x \in s
      <4>1. PICK j \in 1..n : o \in blocks[j]
        BY <1>6, <3>3
      <4>2. CASE j \in 1..k
        <5>1. j \in 1..(k + 1)
          BY <1>3, <1>4, <4>2
        <5> QED  BY <1>9, <4>1, <4>2, <5>1
      <4>3. CASE j \in (k + 1)..n
        <5>1. o \in M(k)
          BY <1>3, <1>4, <4>1, <4>3
        <5> QED  BY <1>9, <3>1, <5>1
      <4> QED  BY <1>3, <1>4, <4>2, <4>3
    <3> QED  BY <2>2, <3>2, <3>3
  <2> QED  BY <2>1, <2>2
<1>13. ASSUME NEW i \in 1..(k + 1), NEW j \in 1..(k + 1), i < j
       PROVE  (\A o \in new[i], q \in new[j] : o.x < q.x) /\ Low(new[i], new[j])
  <2>1. i \in 1..k /\ i \in 1..n /\ new[i] = blocks[i]
    BY <1>3, <1>4, <1>10, <1>13
  <2>2. CASE j \in 1..n /\ new[j] = blocks[j]
    BY <1>6, <1>13, <2>1, <2>2
  <2>3. CASE j = k + 1 /\ new[j] = M(k)
    <3>1. ASSUME NEW o \in blocks[i], NEW q \in M(k)
          PROVE  o.x < q.x
      <4>1. CASE q \in b
        <5>1. o.x \in s
          BY <1>6, <2>1
        <5> QED  BY <1>7, <4>1, <5>1
      <4>2. CASE \E l \in (k + 1)..n : q \in blocks[l]
        <5>1. PICK l \in (k + 1)..n : q \in blocks[l]
          BY <4>2
        <5>2. l \in 1..n /\ i < l
          BY <1>3, <1>4, <2>1
        <5> QED  BY <1>6, <2>1, <5>1, <5>2
      <4> QED  BY <1>3, <1>4, <4>1, <4>2
    <3>2. k \in 1..n /\ k # 0
      BY <1>3, <1>4, <2>1
    <3>3. Low(blocks[k], M(k))
      <4>1. ~Over(blocks[k], M(k))
        BY <1>4, <3>2 DEF M
      <4>2. blocks[k] \in SUBSET P /\ M(k) \in SUBSET P
        BY <1>3, <1>4, <3>2
      <4> QED  BY <1>2, <4>1, <4>2, LowOrOver
    <3>4. Low(blocks[i], M(k))
      <4>1. CASE i = k
        BY <3>3, <4>1
      <4>2. CASE i < k
        <5>1. Low(blocks[i], blocks[k])
          BY <1>6, <2>1, <3>2, <4>2
        <5>2. blocks[i] \in SUBSET P /\ blocks[k] \in SUBSET P /\ blocks[k] # {} /\ M(k) \in SUBSET P
          BY <1>3, <1>4, <1>6, <2>1, <3>2
        <5> QED  BY <1>2, <3>3, <5>1, <5>2, LowFollows
      <4> QED  BY <1>3, <1>4, <2>1, <4>1, <4>2
    <3> QED  BY <2>1, <2>3, <3>1, <3>4
  <2> QED  BY <1>10, <2>2, <2>3
<1>14. ASSUME NEW t \in Nat
       PROVE  Low({o \in M(k) : o.x >= t}, M(k))
  <2> DEFINE T == {o \in M(k) : o.x >= t}
             I == {i \in (k + 1)..n : \E o \in blocks[i] : o.x >= t}
  <2>1. k \in 0..n /\ n \in k..n /\ M(k) \in SUBSET P /\ M(k) # {}
    BY <1>3, <1>4
  <2>2. CASE I = {}
    <3>1. T \subseteq b
      <4>1. \A o \in T : o \in b \/ \E j \in (k + 1)..n : o \in blocks[j]
        BY <1>3, <1>4
      <4> QED  BY <2>2, <4>1
    <3>2. T = {} \/ T = b
      <4>1. b \subseteq M(k)
        BY <1>3, <1>4
      <4>2. \A o \in b : o.x = x
        BY <1>7
      <4> QED  BY <3>1, <4>1, <4>2
    <3>3. Low(b, M(k))
      BY <1>3, <1>5, <2>1
    <3>4. Low({}, M(k))
      BY <1>2, <2>1, LowIsWeak
    <3> HIDE DEF T
    <3>5. Low(T, M(k))
      BY <3>2, <3>3, <3>4
    <3> QED  BY <3>5 DEF T
  <2>3. CASE I # {}
    <3>1. I \in SUBSET Nat
      BY <1>3, <1>4
    <3>2. PICK i \in I : \A j \in I : i <= j
      <4> HIDE DEF I
      <4> QED  BY <2>3, <3>1, LeastOfNat
    <3>3. /\ i \in (k + 1)..n /\ i \in 1..n /\ i \in 0..n /\ i - 1 \in k..n /\ i \in k..n
          /\ \E o \in blocks[i] : o.x >= t
      BY <1>3, <1>4, <3>2
    <3> DEFINE U == {o \in blocks[i] : o.x >= t}
    <3>4. T = U \cup M(i)
      <4>1. ASSUME NEW o \in T
            PROVE  o \in U \cup M(i)
        <5>1. CASE o \in b
          BY <1>3, <3>3, <5>1
        <5>2. CASE \E j \in (k + 1)..n : o \in blocks[j]
          <6>1. PICK j \in (k + 1)..n : o \in blocks[j]
            BY <5>2
          <6>2. i <= j
            BY <3>2, <6>1, <4>1
          <6>3. CASE i = j
            BY <4>1, <6>1, <6>3
          <6>4. CASE i # j
            <7>1. j \in (i + 1)..n
              BY <1>3, <1>4, <3>3, <6>2, <6>4
            <7> QED  BY <1>3, <3>3, <6>1, <7>1
          <6> QED  BY <6>3, <6>4
        <5>3. o \in b \/ \E j \in (k + 1)..n : o \in blocks[j]
          BY <1>3, <2>1
        <5> QED  BY <5>1, <5>2, <5>3
      <4>2. ASSUME NEW o \in U
            PROVE  o \in T
        <5>1. o \in M(k)
          BY <1>3, <2>1, <3>3
        <5> QED  BY <5>1
      <4>3. ASSUME NEW o \in M(i)
            PROVE  o \in T
        <5>1. PICK q \in blocks[i] : q.x >= t
          BY <3>3
        <5>2. q.x < o.x
          <6>1. CASE o \in b
            <7>1. q.x \in s
              BY <1>6, <3>3
            <7> QED  BY <1>7, <6>1, <7>1
          <6>2. CASE \E j \in (i + 1)..n : o \in blocks[j]
            <7>1. PICK j \in (i + 1)..n : o \in blocks[j]
              BY <6>2
            <7>2. j \in 1..n /\ i < j
              BY <1>3, <3>3
            <7> QED  BY <1>6, <3>3, <7>1, <7>2
          <6> QED  BY <1>3, <3>3, <6>1, <6>2
        <5>3. o \in M(k)
          <6>1. CASE o \in b
            BY <1>3, <2>1, <6>1
          <6>2. CASE \E j \in (i + 1)..n : o \in blocks[j]
            <7>1. PICK j \in (i + 1)..n : o \in blocks[j]
              BY <6>2
            <7>2. j \in (k + 1)..n
              BY <1>3, <1>4, <3>3
            <7> QED  BY <1>3, <2>1, <7>1, <7>2
          <6> QED  BY <1>3, <3>3, <6>1, <6>2
        <5>4. o.x \in 0..100 /\ q.x \in 0..100
          <6>1. o \in P /\ q \in P
            BY <1>3, <2>1, <3>3, <5>3
          <6> QED  BY <1>8, <6>1
        <5>5. o.x >= t
          BY ONLY <5>1, <5>2, <5>4, <1>14
        <5> QED  BY <5>3, <5>5
      <4> HIDE DEF T, U
      <4> QED  BY <4>1, <4>2, <4>3
    <3>5. /\ U \in SUBSET P /\ U \subseteq blocks[i] /\ blocks[i] \in SUBSET P /\ blocks[i] # {}
          /\ M(i) \in SUBSET P /\ blocks[i] \cap M(i) = {} /\ M(i - 1) = blocks[i] \cup M(i)
          /\ U \cap M(i) = {}
      BY <1>3, <1>6, <3>3
    <3>6. Low(U, blocks[i]) /\ Low(M(i), M(k)) /\ Low(M(i - 1), M(k))
      BY <1>5, <1>6, <1>14, <3>3
    <3> HIDE DEF U, T
    <3>7. Low(U \cup M(i), M(k))
      <4>1. /\ Hits(U \cup M(i)) = Hits(U) + Hits(M(i))
            /\ Cardinality(U \cup M(i)) = Cardinality(U) + Cardinality(M(i))
        BY <1>2, <3>5, PointsCount
      <4>2. /\ Hits(blocks[i] \cup M(i)) = Hits(blocks[i]) + Hits(M(i))
            /\ Cardinality(blocks[i] \cup M(i)) = Cardinality(blocks[i]) + Cardinality(M(i))
        BY <1>2, <3>5, PointsCount
      <4>3. /\ Hits(U) \in Nat /\ Hits(blocks[i]) \in Nat /\ Hits(M(i)) \in Nat /\ Hits(M(k)) \in Nat
            /\ Cardinality(U) \in Nat /\ Cardinality(blocks[i]) \in Nat /\ Cardinality(M(i)) \in Nat
            /\ Cardinality(M(k)) \in Nat /\ Cardinality(blocks[i]) > 0
            /\ Cardinality(U) <= Cardinality(blocks[i])
        BY <1>2, <2>1, <3>5, PointsCount
      <4>4. Low(blocks[i] \cup M(i), M(k))
        BY <3>5, <3>6
      <4>5. PICK hs \in Nat, hb \in Nat, hm \in Nat, h \in Nat, ns \in Nat, nb \in Nat, nm \in Nat, m \in Nat :
              /\ hs = Hits(U) /\ hb = Hits(blocks[i]) /\ hm = Hits(M(i)) /\ h = Hits(M(k))
              /\ ns = Cardinality(U) /\ nb = Cardinality(blocks[i]) /\ nm = Cardinality(M(i))
              /\ m = Cardinality(M(k))
        BY <4>3
      <4>6. /\ nb > 0 /\ ns <= nb /\ hs * nb <= hb * ns /\ hm * m <= h * nm
            /\ (hb + hm) * m <= h * (nb + nm)
        BY <3>6, <4>2, <4>3, <4>4, <4>5 DEF Low
      <4>7. (hs + hm) * m <= h * (ns + nm)
        BY <4>6, SharesOfPiece
      <4> QED  BY <4>1, <4>5, <4>7 DEF Low
    <3>8. Low(T, M(k))
      BY <3>4, <3>7
    <3> QED  BY <3>8 DEF T
  <2> QED  BY <2>2, <2>3
<1>15. ASSUME NEW i \in 1..(k + 1), NEW t \in Nat
       PROVE  Low({o \in new[i] : o.x >= t}, new[i])
  <2>1. CASE i \in 1..n /\ new[i] = blocks[i]
    BY <1>6, <2>1
  <2>2. CASE new[i] = M(k)
    BY <1>14, <2>2
  <2> QED  BY <1>10, <2>1, <2>2
<1>16. AreBlocks(new, P, s \cup {x})
  BY <1>9, <1>11, <1>12, <1>13, <1>15 DEF AreBlocks
<1> QED  BY <1>1, <1>16

Xs(P) == {o.x : o \in P}
Column(P, x) == {o \in P : o.x = x}

LEMMA PushTyped ==
    ASSUME NEW P, NEW v \in Seq(SUBSET P), NEW b \in SUBSET P
    PROVE  Push(v, b) \in Seq(SUBSET P)
<1> DEFINE n == Len(v)
           R == {i \in 0..n : i = 0 \/ ~Over(v[i], Merged(v, b, i))}
           k == Max(R)
<1>1. n \in Nat /\ \A i \in 1..n : v[i] \in SUBSET P
  BY LenProperties, ElementOfSeq
<1>2. k \in 0..n
  <2>1. R \in SUBSET (0..n) /\ 0 \in R
    BY <1>1
  <2>2. k \in R
    <3> HIDE DEF R, n
    <3> QED  BY <1>1, <2>1, MaxOfBounded DEF n
  <2> QED  BY <2>1, <2>2
<1>3. Push(v, b) = Append(SubSeq(v, 1, k), Merged(v, b, k))
  BY DEF Push
<1> HIDE DEF k
<1>4. Merged(v, b, k) \in SUBSET P
  <2>1. Merged(v, b, k) = b \cup UNION {v[i] : i \in (k + 1)..n}
    BY <1>2, MergedIs
  <2>2. \A i \in (k + 1)..n : i \in 1..n
    BY <1>1, <1>2
  <2> HIDE DEF n
  <2> QED  BY <1>1, <2>1, <2>2
<1>5. SubSeq(v, 1, k) \in Seq(SUBSET P)
  <2>1. \A i \in 1..k : i \in 1..n
    BY <1>1, <1>2
  <2>2. \A i \in 1..k : v[i] \in SUBSET P
    BY <1>1, <2>1
  <2>3. k \in Int
    BY <1>1, <1>2
  <2> QED  BY <2>2, <2>3, SubSeqProperties
<1> QED  BY <1>3, <1>4, <1>5, AppendProperties

\* What Blocks recurses over.
Blocking(iter, P) ==
    iter = [s \in SUBSET Xs(P) |->
              IF s = {} THEN <<>> ELSE LET x == Max(s) IN Push(iter[s \ {x}], Column(P, x))]

LEMMA XsAreFew ==
    ASSUME NEW P, ArePoints(P)
    PROVE  /\ Xs(P) \in SUBSET (0..100) /\ IsFiniteSet(Xs(P))
           /\ \A s \in SUBSET Xs(P) : s # {} => Max(s) \in s /\ \A x \in s : x <= Max(s)
<1>1. Xs(P) \in SUBSET (0..100)
  BY DEF ArePoints, Xs
<1>2. IsFiniteSet(Xs(P))
  <2>1. ASSUME NEW n \in Nat, Xs(P) \in SUBSET (0..n)
        PROVE  IsFiniteSet(Xs(P))
    <3>1. IsFiniteSet(0..n)
      BY FS_Interval
    <3> QED  BY <2>1, <3>1, FS_Subset
  <2>2. 100 \in Nat
    OBVIOUS
  <2> QED  BY <1>1, <2>1, <2>2
<1>3. \A s \in SUBSET Xs(P) : s # {} => Max(s) \in s /\ \A x \in s : x <= Max(s)
  <2> TAKE s \in SUBSET Xs(P)
  <2>1. s \in SUBSET (0..100)
    BY <1>1
  <2> QED  BY <2>1, MaxOfBounded
<1> QED  BY <1>1, <1>2, <1>3

LEMMA BlockingExists ==
    ASSUME NEW P, ArePoints(P)
    PROVE  \E iter : Blocking(iter, P)
<1> DEFINE X == Xs(P)
           V == Seq(SUBSET P)
           pick == [s \in SUBSET X |-> Max(s)]
           st == [x \in X |-> [v \in V |-> Push(v, Column(P, x))]]
<1>1. IsFiniteSet(X) /\ \A s \in SUBSET X : s # {} => Max(s) \in s
  BY XsAreFew
<1>2. <<>> \in V
  OBVIOUS
<1>3. \A s \in SUBSET X : s # {} => pick[s] \in s
  BY <1>1
<1>4. \A x \in X : \A v \in V : st[x][v] \in V
  <2> TAKE x \in X
  <2> TAKE v \in V
  <2>1. Column(P, x) \in SUBSET P
    BY DEF Column
  <2>2. Push(v, Column(P, x)) \in V
    BY <2>1, PushTyped
  <2> QED  BY <2>2
<1>5. PICK iter \in [SUBSET X -> V] : IsFold(iter, X, <<>>, pick, st)
  <2> HIDE DEF X, V, pick, st
  <2> QED  BY <1>1, <1>2, <1>3, <1>4, FoldExists
<1>6. ASSUME NEW s \in SUBSET X
      PROVE  iter[s] = IF s = {} THEN <<>> ELSE LET x == Max(s) IN Push(iter[s \ {x}], Column(P, x))
  <2>1. CASE s = {}
    BY <1>5, <2>1 DEF IsFold
  <2>2. CASE s # {}
    <3>1. PICK x : x = Max(s)
      OBVIOUS
    <3>2. x \in X /\ pick[s] = x /\ iter[s \ {x}] \in V
      BY <1>1, <1>5, <2>2, <3>1
    <3>3. iter[s] = st[x][iter[s \ {x}]]
      BY <1>5, <2>2, <3>2 DEF IsFold
    <3>4. iter[s] = Push(iter[s \ {x}], Column(P, x))
      BY <3>2, <3>3
    <3> QED  BY <2>2, <3>1, <3>4
  <2> QED  BY <2>1, <2>2
<1>7. iter = [s \in SUBSET X |->
              IF s = {} THEN <<>> ELSE LET x == Max(s) IN Push(iter[s \ {x}], Column(P, x))]
  BY <1>5, <1>6
<1> QED  BY <1>7 DEF Blocking

LEMMA BlocksAreBlocks ==
    ASSUME NEW P, ArePoints(P)
    PROVE  AreBlocks(Blocks(P), P, Xs(P))
<1> DEFINE g == CHOOSE g : Blocking(g, P)
<1>1. Blocks(P) = g[Xs(P)]
  BY DEF Blocks, MapThenFoldSet, Blocking, Xs, Column
<1>2. Blocking(g, P)
  <2>1. \E iter : Blocking(iter, P)
    BY BlockingExists
  <2> QED  BY <2>1, Zenon
<1> HIDE DEF g
<1> DEFINE Good == {s \in SUBSET Xs(P) : AreBlocks(g[s], P, s)}
<1>3. {} \in Good
  <2>1. g[{}] = <<>>
    BY <1>2 DEF Blocking
  <2>2. AreBlocks(<<>>, P, {})
    <3>1. <<>> \in Seq(SUBSET P) /\ Len(<<>>) = 0 /\ \A i : i \notin 1..0
      OBVIOUS
    <3> QED  BY <3>1 DEF AreBlocks
  <2> QED  BY <2>1, <2>2
<1>4. ASSUME NEW s \in SUBSET Xs(P), s # {}, \A x \in s : s \ {x} \in Good
      PROVE  s \in Good
  <2>1. PICK x : x = Max(s)
    OBVIOUS
  <2>2. x \in s /\ (\A y \in s : y <= x) /\ s \in SUBSET (0..100)
    BY <1>4, <2>1, XsAreFew
  <2>3. g[s] = Push(g[s \ {x}], Column(P, x))
    BY <1>2, <1>4, <2>1 DEF Blocking
  <2>4. PICK blocks, rest, b : blocks = g[s \ {x}] /\ rest = s \ {x} /\ b = Column(P, x)
    OBVIOUS
  <2>5. AreBlocks(blocks, P, rest)
    BY <1>4, <2>2, <2>4
  <2>6. x \in Nat /\ \A y \in rest : y < x
    BY <2>2, <2>4
  <2>7. b = {o \in P : o.x = x} /\ b # {}
    BY <2>2, <2>4 DEF Xs, Column
  <2>8. Following(P, rest, blocks, x, b)
    BY <2>5, <2>6, <2>7 DEF Following
  <2>9. AreBlocks(Push(blocks, b), P, rest \cup {x})
    BY <2>8, PushIsBlocks
  <2>10. rest \cup {x} = s
    BY <2>2, <2>4
  <2> QED  BY <2>3, <2>4, <2>9, <2>10
<1>5. \A s \in SUBSET Xs(P) : s \in Good
  <2>1. IsFiniteSet(Xs(P))
    BY XsAreFew
  <2> HIDE DEF Good
  <2> QED  BY <1>3, <1>4, <2>1, PartsInduction
<1>6. Xs(P) \in Good
  <2> HIDE DEF Good
  <2> QED  BY <1>5
<1> QED  BY <1>1, <1>6

-----------------------------------------------------------------------------
(* Level.                                                                  *)

\* What a function makes of a finite set is finite.
LEMMA ImageIsFinite ==
    ASSUME NEW S, IsFiniteSet(S), NEW f
    PROVE  IsFiniteSet({f[x] : x \in S})
<1> DEFINE T == {f[x] : x \in S}
           g == [x \in S |-> f[x]]
<1>1. g \in Surjection(S, T)
  BY DEF Surjection
<1> HIDE DEF g, T
<1>2. IsFiniteSet(T)
  BY <1>1, FS_Surjection
<1> QED  BY <1>2 DEF T

LEMMA ExtremesExist ==
    ASSUME NEW S \in SUBSET Int, IsFiniteSet(S), S # {}
    PROVE  /\ Max(S) \in S /\ \A x \in S : x <= Max(S)
           /\ Min(S) \in S /\ \A x \in S : Min(S) <= x
<1> DEFINE Good == {s \in SUBSET S : s # {} => /\ \E x \in s : \A y \in s : x >= y
                                               /\ \E x \in s : \A y \in s : x <= y}
<1>1. {} \in Good
  OBVIOUS
<1>2. ASSUME NEW s \in SUBSET S, s # {}, \A x \in s : s \ {x} \in Good
      PROVE  s \in Good
  <2>1. PICK x \in s : TRUE
    BY <1>2
  <2>2. x \in Int /\ s \in SUBSET Int
    BY <2>1
  <2>3. CASE s \ {x} = {}
    <3>1. \A y \in s : y = x
      BY <2>3
    <3> QED  BY <2>1, <2>2, <3>1
  <2>4. CASE s \ {x} # {}
    <3>1. PICK y \in s \ {x} : \A z \in s \ {x} : y >= z
      BY <1>2, <2>1, <2>4
    <3>2. PICK w \in s \ {x} : \A z \in s \ {x} : w <= z
      BY <1>2, <2>1, <2>4
    <3>3. \E v \in s : \A z \in s : v >= z
      <4>1. CASE x >= y
        <5>1. \A z \in s : x >= z
          BY <2>2, <3>1, <4>1
        <5> QED  BY <2>1, <5>1
      <4>2. CASE ~(x >= y)
        <5>1. \A z \in s : y >= z
          BY <2>2, <3>1, <4>2
        <5> QED  BY <5>1
      <4> QED  BY <4>1, <4>2
    <3>4. \E v \in s : \A z \in s : v <= z
      <4>1. CASE x <= w
        <5>1. \A z \in s : x <= z
          BY <2>2, <3>2, <4>1
        <5> QED  BY <2>1, <5>1
      <4>2. CASE ~(x <= w)
        <5>1. \A z \in s : w <= z
          BY <2>2, <3>2, <4>2
        <5> QED  BY <5>1
      <4> QED  BY <4>1, <4>2
    <3> QED  BY <3>3, <3>4
  <2> QED  BY <2>3, <2>4
<1>3. \A s \in SUBSET S : s \in Good
  <2> HIDE DEF Good
  <2> QED  BY <1>1, <1>2, PartsInduction
<1>4. S \in Good
  <2> HIDE DEF Good
  <2> QED  BY <1>3
<1>5. (\E x \in S : \A y \in S : x >= y) /\ (\E x \in S : \A y \in S : x <= y)
  BY <1>4
<1>6. Max(S) \in S /\ \A y \in S : Max(S) >= y
  BY <1>5, Zenon DEF Max
<1>7. Min(S) \in S /\ \A y \in S : Min(S) <= y
  BY <1>5, Zenon DEF Min
<1>8. \A y \in S : Max(S) \in Int /\ y \in Int
  BY <1>6
<1> QED  BY <1>6, <1>7, <1>8

Between(P, j, k) == {o \in P : o.x \in j..k}
ShareOf(P, j, k) == (100 * Hits(Between(P, j, k))) \div Cardinality(Between(P, j, k))

\* c is the level of x when no stretch that ends at hi is above c, and no stretch
\* that begins at lo is below.
LEMMA LevelIs ==
    ASSUME NEW P, ArePoints(P), NEW x \in Xs(P), NEW c \in Int, NEW lo \in Xs(P), NEW hi \in Xs(P),
           lo <= x, x <= hi,
           \A j \in Xs(P) : j <= x => ShareOf(P, j, hi) <= c,
           \A k \in Xs(P) : x <= k => c <= ShareOf(P, lo, k)
    PROVE  Level(P, x) = c
<1> DEFINE below == {i \in Xs(P) : i <= x}
           above == {i \in Xs(P) : i >= x}
           K(j) == {ShareOf(P, j, k) : k \in above}
           J == {Min(K(j)) : j \in below}
<1>1. Level(P, x) = Max(J)
  BY DEF Level, Xs, ShareOf, Between
<1>2. Xs(P) \in SUBSET (0..100) /\ IsFiniteSet(Xs(P))
  BY XsAreFew
<1>3. IsFiniteSet(below) /\ IsFiniteSet(above) /\ lo \in below /\ hi \in above
  <2>1. below \in SUBSET Xs(P) /\ above \in SUBSET Xs(P) /\ lo \in below /\ hi \in above
    BY <1>2
  <2> QED  BY <1>2, <2>1, FS_Subset
<1>4. ASSUME NEW j \in below, NEW k \in above
      PROVE  ShareOf(P, j, k) \in Int
  <2>1. PICK o \in P : o.x = x
    BY DEF Xs
  <2>2. Between(P, j, k) \in SUBSET P /\ o \in Between(P, j, k)
    BY <1>2, <2>1 DEF Between
  <2>3. PICK h \in Nat, n \in Nat : n > 0 /\ h = Hits(Between(P, j, k)) /\ n = Cardinality(Between(P, j, k))
    BY <2>2, PointsCount
  <2>4. (100 * h) \div n \in Int
    BY <2>3
  <2> QED  BY <2>3, <2>4 DEF ShareOf
<1>5. ASSUME NEW j \in below
      PROVE  Min(K(j)) \in K(j) /\ Min(K(j)) \in Int /\ \A k \in above : Min(K(j)) <= ShareOf(P, j, k)
  <2>1. K(j) \in SUBSET Int /\ K(j) # {}
    BY <1>3, <1>4
  <2>2. IsFiniteSet(K(j))
    <3> DEFINE f == [k \in above |-> ShareOf(P, j, k)]
    <3>1. K(j) = {f[k] : k \in above}
      OBVIOUS
    <3> HIDE DEF above, f, K
    <3> QED  BY <1>3, <3>1, ImageIsFinite
  <2> HIDE DEF above
  <2>3. PICK s : s = K(j)
    OBVIOUS
  <2>4. Min(s) \in s /\ \A y \in s : Min(s) <= y
    BY <2>1, <2>2, <2>3, ExtremesExist
  <2> QED  BY <2>1, <2>3, <2>4
<1>6. \A j \in below : Min(K(j)) <= c
  <2> TAKE j \in below
  <2>1. Min(K(j)) <= ShareOf(P, j, hi) /\ ShareOf(P, j, hi) <= c
    BY <1>3, <1>5
  <2>2. Min(K(j)) \in Int /\ ShareOf(P, j, hi) \in Int
    BY <1>3, <1>4, <1>5
  <2> HIDE DEF K
  <2> QED  BY <2>1, <2>2
<1>7. Min(K(lo)) = c
  <2>1. PICK k \in above : Min(K(lo)) = ShareOf(P, lo, k)
    BY <1>3, <1>5
  <2>2. c <= ShareOf(P, lo, k)
    BY <1>2
  <2>3. Min(K(lo)) <= c /\ ShareOf(P, lo, k) \in Int
    BY <1>3, <1>4, <1>6
  <2> HIDE DEF K
  <2> QED  BY <2>1, <2>2, <2>3
<1>8. J \in SUBSET Int /\ IsFiniteSet(J) /\ c \in J /\ \A y \in J : y <= c
  <2>1. IsFiniteSet(J)
    <3> DEFINE f == [j \in below |-> Min(K(j))]
    <3>1. J = {f[j] : j \in below}
      OBVIOUS
    <3> HIDE DEF below, f, J
    <3> QED  BY <1>3, <3>1, ImageIsFinite
  <2> HIDE DEF below, K
  <2> QED  BY <1>3, <1>5, <1>6, <1>7, <2>1
<1>9. Max(J) = c
  <2>1. PICK s : s = J
    OBVIOUS
  <2>2. Max(s) \in s /\ \A y \in s : y <= Max(s)
    BY <1>8, <2>1, ExtremesExist
  <2> HIDE DEF J
  <2>3. Max(s) <= c /\ c <= Max(s) /\ Max(s) \in Int
    BY <1>8, <2>1, <2>2
  <2> QED  BY <2>1, <2>3
<1> QED  BY <1>1, <1>9

-----------------------------------------------------------------------------
(* The blocks have the levels of their points.                             *)

LEMMA OrderFacts ==
    /\ \A x, y, z \in 0..100 : x < y /\ y <= z => x <= z
    /\ \A x, y, z \in 0..100 : x <= y /\ y < z => x <= z
    /\ \A x, y \in 0..100 : x <= y => ~(y < x)
    /\ \A x, y, z \in 0..100 : x <= y /\ y <= z => y \in x..z
    /\ \A x, y \in 0..100 : y >= x => x <= y
<1>1. \A x, y, z \in 0..100 : x < y /\ y <= z => x <= z
  OBVIOUS
<1>2. \A x, y, z \in 0..100 : x <= y /\ y < z => x <= z
  OBVIOUS
<1>3. \A x, y \in 0..100 : x <= y => ~(y < x)
  OBVIOUS
<1>4. \A x, y, z \in 0..100 : x <= y /\ y <= z => y \in x..z
  OBVIOUS
<1>5. \A x, y \in 0..100 : y >= x => x <= y
  OBVIOUS
<1> QED  BY <1>1, <1>2, <1>3, <1>4, <1>5

LEMMA BlockLevels ==
    ASSUME NEW P, ArePoints(P), NEW blocks, AreBlocks(blocks, P, Xs(P)), NEW i \in 1..Len(blocks),
           NEW p \in blocks[i]
    PROVE  Level(P, p.x) = (100 * Hits(blocks[i])) \div Cardinality(blocks[i])
<1> DEFINE n == Len(blocks)
           B == blocks[i]
<1>19. /\ \A x, y, z \in 0..100 : x < y /\ y <= z => x <= z
       /\ \A x, y, z \in 0..100 : x <= y /\ y < z => x <= z
       /\ \A x, y \in 0..100 : x <= y => ~(y < x)
       /\ \A x, y, z \in 0..100 : x <= y /\ y <= z => y \in x..z
       /\ \A x, y \in 0..100 : y >= x => x <= y
  BY OrderFacts
<1>1. /\ n \in Nat /\ \A j \in 1..n : blocks[j] \in SUBSET P /\ blocks[j] # {}
      /\ UNION {blocks[j] : j \in 1..n} = P
      /\ \A l, j \in 1..n : l < j => /\ \A o \in blocks[l], q \in blocks[j] : o.x < q.x
                                     /\ Low(blocks[l], blocks[j])
      /\ \A j \in 1..n, t \in Nat : Low({o \in blocks[j] : o.x >= t}, blocks[j])
  <2>1. {o \in P : o.x \in Xs(P)} = P
    BY DEF Xs
  <2> QED  BY <2>1, LenProperties, ElementOfSeq DEF AreBlocks
<1>2. /\ \A o \in P : o.x \in 0..100 /\ o.x \in Xs(P)
      /\ Xs(P) \in SUBSET (0..100)
  BY XsAreFew DEF ArePoints, Xs
<1> HIDE DEF n
<1>3. p \in P /\ B \in SUBSET P /\ B # {} /\ i \in 1..n
  BY <1>1 DEF n
<1> DEFINE bs == {o.x : o \in B}
           lo == Min(bs)
           hi == Max(bs)
<1>4. /\ lo \in bs /\ hi \in bs /\ lo \in 0..100 /\ hi \in 0..100 /\ lo \in Xs(P) /\ hi \in Xs(P)
      /\ \A o \in B : lo <= o.x /\ o.x <= hi
  <2>1. bs \in SUBSET Int /\ bs # {} /\ bs \in SUBSET Xs(P)
    BY <1>2, <1>3
  <2>2. IsFiniteSet(bs)
    BY <2>1, XsAreFew, FS_Subset
  <2>3. /\ Max(bs) \in bs /\ \A y \in bs : y <= Max(bs)
        /\ Min(bs) \in bs /\ \A y \in bs : Min(bs) <= y
    <3> HIDE DEF bs
    <3> QED  BY <2>1, <2>2, ExtremesExist
  <2>4. \A o \in B : o.x \in bs
    OBVIOUS
  <2> HIDE DEF bs
  <2> QED  BY <1>2, <2>1, <2>3, <2>4
<1> HIDE DEF lo, hi
<1>5. \A j \in 1..n : /\ j < i => Low(blocks[j], B)
                      /\ j = i => Low(blocks[j], B) /\ Low(B, blocks[j])
                      /\ i < j => Low(B, blocks[j])
  BY <1>1, <1>3, LowIsWeak
\* A stretch that ends at hi is no higher.
<1>6. ASSUME NEW j \in Xs(P)
      PROVE  Low(Between(P, j, hi), B)
  <2> DEFINE part(l) == {o \in blocks[l] : o.x >= j}
             Q == {part(l) : l \in 1..i}
  <2>1. j \in 0..100 /\ \A l \in 1..i : l \in 1..n
    BY <1>1, <1>2, <1>3
  <2>2. Q \in SUBSET SUBSET P
    BY <1>1, <2>1
  <2>0. \A l : part(l) \subseteq blocks[l] /\ \A o \in blocks[l] : o \in part(l) <=> o.x >= j
    OBVIOUS
  <2>3. IsFiniteSet(Q)
    <3> DEFINE f == [l \in 1..i |-> part(l)]
    <3>1. IsFiniteSet(1..i)
      BY <1>1, <1>3, FS_Interval
    <3>2. Q = {f[l] : l \in 1..i}
      OBVIOUS
    <3> HIDE DEF f, Q
    <3> QED  BY <3>1, <3>2, ImageIsFinite
  <2>4. \A a, c \in Q : a # c => a \cap c = {}
    <3> HIDE DEF part, B
    <3>1. ASSUME NEW l \in 1..i, NEW m \in 1..i, NEW o \in part(l), o \in part(m), l # m
          PROVE  FALSE
      <4>1. l \in 1..n /\ m \in 1..n /\ (l < m \/ m < l) /\ o \in blocks[l] /\ o \in blocks[m]
        BY <1>1, <1>3, <2>0, <2>1, <3>1
      <4>2. o.x < o.x /\ o.x \in 0..100
        BY <1>1, <1>2, <4>1
      <4>3. \A z \in 0..100 : ~(z < z)
        OBVIOUS
      <4> QED  BY <4>2, <4>3, Zenon
    <3> QED  BY <3>1
  <2>5. \A a \in Q : Low(a, B)
    <3> SUFFICES ASSUME NEW l \in 1..i
                 PROVE  Low(part(l), B)
      OBVIOUS
    <3>1. Low(part(l), blocks[l]) /\ Low(blocks[l], B)
      <4>1. l \in 1..n /\ j \in Nat /\ (l < i \/ l = i)
        BY <1>1, <1>3, <2>1
      <4> QED  BY <1>1, <1>5, <4>1
    <3>2. part(l) \in SUBSET P /\ blocks[l] \in SUBSET P /\ blocks[l] # {}
      BY <1>1, <2>1
    <3> HIDE DEF part
    <3> QED  BY <1>3, <3>1, <3>2, LowFollows
  <2>6. UNION Q = Between(P, j, hi)
    <3> HIDE DEF part, B, bs
    <3>1. ASSUME NEW l \in 1..i, NEW o \in part(l)
          PROVE  o \in Between(P, j, hi)
      <4>0. l \in 1..n /\ (l < i \/ l = i) /\ o \in blocks[l] /\ o.x >= j
        BY <1>1, <1>3, <2>0, <2>1
      <4>1. o \in P /\ o.x \in 0..100 /\ o.x >= j /\ l \in 1..n /\ (l < i \/ l = i)
        BY <1>1, <1>2, <4>0
      <4>2. o.x <= hi
        <5>1. CASE l = i
          BY <1>4, <4>0, <5>1 DEF B
        <5>2. CASE l < i
          <6>1. o.x < p.x /\ p.x <= hi /\ p.x \in 0..100
            BY <1>1, <1>2, <1>3, <1>4, <4>0, <5>2 DEF B
          <6> QED  BY <1>19, <1>4, <4>1, <6>1, Zenon
        <5> QED  BY <4>1, <5>1, <5>2
      <4>3. o.x \in j..hi
        BY <1>19, <1>4, <2>1, <4>1, <4>2, Zenon
      <4> QED  BY <4>1, <4>3 DEF Between
    <3>2. ASSUME NEW o \in Between(P, j, hi)
          PROVE  \E l \in 1..i : o \in part(l)
      <4>1. o \in P /\ o.x \in 0..100 /\ o.x >= j /\ o.x <= hi
        BY <1>2, <1>4, <2>1 DEF Between
      <4>2. PICK l \in 1..n : o \in blocks[l]
        BY <1>1, <4>1
      <4>3. ~(i < l)
        <5>1. PICK q \in B : q.x = hi
          BY <1>4 DEF bs
        <5>2. ~(hi < o.x)
          BY <1>19, <1>4, <4>1, Zenon
        <5> QED  BY <1>1, <1>3, <4>2, <5>1, <5>2 DEF B
      <4>4. l \in 1..i
        BY <1>1, <1>3, <4>3
      <4> QED  BY <2>0, <4>1, <4>2, <4>4
    <3> QED  BY <3>1, <3>2
  <2> HIDE DEF Q
  <2>7. Low(UNION Q, B)
    BY <1>3, <2>2, <2>3, <2>4, <2>5, LowOfParts
  <2> QED  BY <2>6, <2>7
\* A stretch that begins at lo is no lower.
<1>7. ASSUME NEW k \in Xs(P)
      PROVE  Low(B, Between(P, lo, k))
  <2> DEFINE part(l) == {o \in blocks[l] : o.x <= k}
             Q == {part(l) : l \in i..n}
  <2>1. k \in 0..100 /\ \A l \in i..n : l \in 1..n
    BY <1>1, <1>2, <1>3
  <2>2. Q \in SUBSET SUBSET P
    BY <1>1, <2>1
  <2>0. \A l : part(l) \subseteq blocks[l] /\ \A o \in blocks[l] : o \in part(l) <=> o.x <= k
    OBVIOUS
  <2>3. IsFiniteSet(Q)
    <3> DEFINE f == [l \in i..n |-> part(l)]
    <3>1. IsFiniteSet(i..n)
      BY <1>1, <1>3, FS_Interval
    <3>2. Q = {f[l] : l \in i..n}
      OBVIOUS
    <3> HIDE DEF f, Q
    <3> QED  BY <3>1, <3>2, ImageIsFinite
  <2>4. \A a, c \in Q : a # c => a \cap c = {}
    <3> HIDE DEF part, B
    <3>1. ASSUME NEW l \in i..n, NEW m \in i..n, NEW o \in part(l), o \in part(m), l # m
          PROVE  FALSE
      <4>1. l \in 1..n /\ m \in 1..n /\ (l < m \/ m < l) /\ o \in blocks[l] /\ o \in blocks[m]
        BY <1>1, <1>3, <2>0, <2>1, <3>1
      <4>2. o.x < o.x /\ o.x \in 0..100
        BY <1>1, <1>2, <4>1
      <4>3. \A z \in 0..100 : ~(z < z)
        OBVIOUS
      <4> QED  BY <4>2, <4>3, Zenon
    <3> QED  BY <3>1
  <2>5. \A a \in Q : Low(B, a)
    <3> SUFFICES ASSUME NEW l \in i..n
                 PROVE  Low(B, part(l))
      OBVIOUS
    <3> DEFINE top == {o \in blocks[l] : o.x >= k + 1}
    <3>1. l \in 1..n /\ k + 1 \in Nat /\ (i < l \/ l = i)
      BY <1>1, <1>3, <2>1
    <3>2. Low(top, blocks[l]) /\ Low(B, blocks[l])
      BY <1>1, <1>5, <3>1
    <3>3. /\ part(l) \in SUBSET P /\ top \in SUBSET P /\ blocks[l] \in SUBSET P /\ blocks[l] # {}
      BY <1>1, <3>1
    <3>4. \A o \in blocks[l] : o.x \in 0..100
      BY <1>2, <3>3
    <3>5. part(l) \cap top = {} /\ blocks[l] = part(l) \cup top
      <4> DEFINE b == blocks[l]
      <4>1. \A o \in b : (o.x <= k) <=> ~(o.x >= k + 1)
        <5> HIDE DEF part, top, Q, b
        <5>1. \A z \in 0..100 : (z <= k) <=> ~(z >= k + 1)
          BY <2>1
        <5> QED  BY <3>4, <5>1, Zenon DEF b
      <4> QED  BY <4>1
    <3> HIDE DEF part, top
    <3>6. Low(part(l) \cup top, part(l))
      BY <3>2, <3>3, <3>5, LowTogether
    <3>7. Low(blocks[l], part(l))
      BY <3>5, <3>6
    <3> QED  BY <1>3, <3>2, <3>3, <3>7, LowFollows
  <2>6. UNION Q = Between(P, lo, k)
    <3> HIDE DEF part, B, bs
    <3>1. ASSUME NEW l \in i..n, NEW o \in part(l)
          PROVE  o \in Between(P, lo, k)
      <4>0. l \in 1..n /\ (i < l \/ l = i) /\ o \in blocks[l] /\ o.x <= k
        BY <1>1, <1>3, <2>0, <2>1
      <4>1. o \in P /\ o.x \in 0..100 /\ o.x <= k /\ l \in 1..n /\ (i < l \/ l = i)
        BY <1>1, <1>2, <4>0
      <4>2. lo <= o.x
        <5>1. CASE l = i
          BY <1>4, <4>0, <5>1 DEF B
        <5>2. CASE i < l
          <6>1. p.x < o.x /\ lo <= p.x /\ p.x \in 0..100
            BY <1>1, <1>2, <1>3, <1>4, <4>0, <5>2 DEF B
          <6> QED  BY <1>19, <1>4, <4>1, <6>1, Zenon
        <5> QED  BY <4>1, <5>1, <5>2
      <4>3. o.x \in lo..k
        BY <1>19, <1>4, <2>1, <4>1, <4>2, Zenon
      <4> QED  BY <4>1, <4>3 DEF Between
    <3>2. ASSUME NEW o \in Between(P, lo, k)
          PROVE  \E l \in i..n : o \in part(l)
      <4>1. o \in P /\ o.x \in 0..100 /\ o.x <= k /\ lo <= o.x
        BY <1>2, <1>4, <2>1 DEF Between
      <4>2. PICK l \in 1..n : o \in blocks[l]
        BY <1>1, <4>1
      <4>3. ~(l < i)
        <5>1. PICK q \in B : q.x = lo
          BY <1>4 DEF bs
        <5>2. ~(o.x < lo)
          BY <1>19, <1>4, <4>1, Zenon
        <5> QED  BY <1>1, <1>3, <4>2, <5>1, <5>2 DEF B
      <4>4. l \in i..n
        BY <1>1, <1>3, <4>3
      <4> QED  BY <2>0, <4>1, <4>2, <4>4
    <3> QED  BY <3>1, <3>2
  <2> HIDE DEF Q
  <2>7. Low(B, UNION Q)
    BY <1>3, <2>2, <2>3, <2>4, <2>5, LowOfParts
  <2> QED  BY <2>6, <2>7
<1>8. ASSUME NEW S \in SUBSET P, NEW T \in SUBSET P, S # {}, T # {}, Low(S, T)
      PROVE  (100 * Hits(S)) \div Cardinality(S) <= (100 * Hits(T)) \div Cardinality(T)
  <2>1. /\ Hits(S) \in Nat /\ Cardinality(S) \in Nat /\ Cardinality(S) > 0
        /\ Hits(T) \in Nat /\ Cardinality(T) \in Nat /\ Cardinality(T) > 0
    BY <1>8, PointsCount
  <2>2. Hits(S) * Cardinality(T) <= Hits(T) * Cardinality(S) /\ 100 \in Nat
    BY <1>8 DEF Low
  <2> QED  BY <2>1, <2>2, PercentsFollow
<1> DEFINE c == (100 * Hits(B)) \div Cardinality(B)
<1>9. c \in Int
  <2>1. PICK h \in Nat, m \in Nat : m > 0 /\ h = Hits(B) /\ m = Cardinality(B)
    BY <1>3, PointsCount
  <2>2. (100 * h) \div m \in Int
    BY <2>1
  <2> QED  BY <2>1, <2>2
<1>10. p.x \in Xs(P) /\ p.x \in 0..100 /\ lo <= p.x /\ p.x <= hi
  BY <1>2, <1>3, <1>4
<1>11. ASSUME NEW j \in Xs(P), j <= p.x
       PROVE  ShareOf(P, j, hi) <= c
  <2>1. Between(P, j, hi) \in SUBSET P /\ p \in Between(P, j, hi)
    <3> HIDE DEF bs, B
    <3>1. p.x \in j..hi
      BY <1>19, <1>2, <1>4, <1>10, <1>11, Zenon
    <3> QED  BY <1>3, <3>1 DEF Between
  <2> QED  BY <1>3, <1>6, <1>8, <2>1 DEF ShareOf
<1>12. ASSUME NEW k \in Xs(P), p.x <= k
       PROVE  c <= ShareOf(P, lo, k)
  <2>1. Between(P, lo, k) \in SUBSET P /\ p \in Between(P, lo, k)
    <3> HIDE DEF bs, B
    <3>1. p.x \in lo..k
      BY <1>19, <1>2, <1>4, <1>10, <1>12, Zenon
    <3> QED  BY <1>3, <3>1 DEF Between
  <2> QED  BY <1>3, <1>7, <1>8, <2>1 DEF ShareOf
<1> HIDE DEF c, B
<1>13. PICK x : x = p.x
  OBVIOUS
<1>14. Level(P, x) = c
  BY <1>4, <1>9, <1>10, <1>11, <1>12, <1>13, LevelIs
<1> QED  BY <1>13, <1>14 DEF c, B

-----------------------------------------------------------------------------
(* Centroids.                                                              *)

LEMMA MassBetween ==
    ASSUME NEW P, ArePoints(P), NEW u \in Nat, NEW v \in Nat, NEW B \in SUBSET P,
           \A o \in B : u <= o.x /\ o.x <= v
    PROVE  u * Cardinality(B) <= Mass(B) /\ Mass(B) <= v * Cardinality(B)
<1> DEFINE xs == [o \in P |-> o.x]
           Good == {S \in SUBSET B : u * Cardinality(S) <= Sum(xs, S) /\ Sum(xs, S) <= v * Cardinality(S)}
<1>1. /\ Weighs(xs, P) /\ IsFiniteSet(P) /\ IsFiniteSet(B)
      /\ \A o \in P : xs[o] = o.x /\ xs[o] \in Nat
  <2>1. IsFiniteSet(P) /\ \A o \in P : xs[o] = o.x /\ xs[o] \in 0..100
    BY DEF ArePoints
  <2>2. IsFiniteSet(B)
    BY <2>1, FS_Subset
  <2> QED  BY <2>1, <2>2 DEF Weighs
<1>2. Mass(B) = Sum(xs, B)
  BY HitsIsSum
<1> HIDE DEF xs
<1>3. {} \in Good
  <2>1. Sum(xs, {}) = 0 /\ Cardinality({}) = 0
    BY SumOfNone, FS_EmptySet
  <2>2. u * 0 <= 0 /\ 0 <= v * 0
    OBVIOUS
  <2> QED  BY <2>1, <2>2
<1>4. ASSUME NEW S \in SUBSET B, S # {}, \A o \in S : S \ {o} \in Good
      PROVE  S \in Good
  <2>1. PICK o \in S : TRUE
    BY <1>4
  <2>2. PICK T : T = S \ {o}
    OBVIOUS
  <2>3. u * Cardinality(T) <= Sum(xs, T) /\ Sum(xs, T) <= v * Cardinality(T)
    BY <1>4, <2>1, <2>2
  <2>4. Sum(xs, S) = xs[o] + Sum(xs, T) /\ Sum(xs, T) \in Int
    BY <1>1, <2>1, <2>2, SumTakes, SumIsInt
  <2>5. Cardinality(S) = Cardinality(T) + 1 /\ Cardinality(T) \in Nat
    <3>1. IsFiniteSet(S) /\ IsFiniteSet(T) /\ S = T \cup {o} /\ o \notin T
      BY <1>1, <2>1, <2>2, FS_Subset
    <3> QED  BY <3>1, FS_AddElement, FS_CardinalityType
  <2>6. u <= xs[o] /\ xs[o] <= v /\ xs[o] \in Nat
    BY <1>1, <2>1
  <2>7. PICK n \in Nat, m \in Int, w \in Nat : n = Cardinality(T) /\ m = Sum(xs, T) /\ w = xs[o]
    BY <2>4, <2>5, <2>6
  <2>8. u * (n + 1) <= w + m /\ w + m <= v * (n + 1)
    <3>1. u * (n + 1) = u * n + u /\ v * (n + 1) = v * n + v /\ u * n \in Int /\ v * n \in Int
      BY <2>7
    <3>2. u * n <= m /\ m <= v * n /\ u <= w /\ w <= v
      BY <2>3, <2>6, <2>7
    <3> QED  BY <2>7, <3>1, <3>2
  <2> QED  BY <2>4, <2>5, <2>7, <2>8
<1>5. \A S \in SUBSET B : S \in Good
  <2> HIDE DEF Good
  <2> QED  BY <1>1, <1>3, <1>4, PartsInduction
<1> QED  BY <1>2, <1>5

LEMMA DivisionBetween ==
    ASSUME NEW m \in Nat, NEW n \in Nat, n > 0, NEW u \in Nat, NEW v \in Nat,
           u * n <= m, m <= v * n
    PROVE  m \div n \in Nat /\ u <= m \div n /\ m \div n <= v
<1>1. PICK q \in Int : q = m \div n /\ n * q <= m /\ m < n * q + n
  OBVIOUS
<1>2. n * q <= n * v
  <2>1. v * n = n * v /\ n * v \in Int /\ n * q \in Int
    OBVIOUS
  <2> QED  BY <1>1, <2>1
<1>3. q <= v
  BY <1>1, <1>2, ProductsOrder
<1>4. ~(n * (q + 1) <= n * u)
  <2>1. u * n = n * u /\ n * (q + 1) = n * q + n /\ n * u \in Int /\ n * q \in Int
    OBVIOUS
  <2> QED  BY <1>1, <2>1
<1>5. ~(q + 1 <= u)
  <2>1. q + 1 \in Int
    OBVIOUS
  <2> QED  BY <1>4, <2>1, ProductsOrder
<1> QED  BY <1>1, <1>3, <1>5

\* Knots in order, in both coordinates.
AreKnots(knots) ==
    /\ Len(knots) \in Nat \ {0}
    /\ \A i \in 1..Len(knots) : knots[i][1] \in Int /\ knots[i][2] \in Int
    /\ \A i, j \in 1..Len(knots) : i < j => knots[i][1] < knots[j][1] /\ knots[i][2] <= knots[j][2]

LEMMA IsotonicFits ==
    ASSUME NEW P, ArePoints(P), P # {}
    PROVE  /\ AreKnots(FitIsotonic(P))
           /\ {FitIsotonic(P)[i][2] : i \in DOMAIN FitIsotonic(P)} = {Level(P, o.x) : o \in P}
<1> DEFINE blocks == Blocks(P)
           n == Len(blocks)
           knots == FitIsotonic(P)
<1>1. AreBlocks(blocks, P, Xs(P))
  BY BlocksAreBlocks
<1> HIDE DEF blocks
<1>2. /\ blocks \in Seq(SUBSET P) /\ n \in Nat /\ DOMAIN blocks = 1..n
      /\ \A j \in 1..n : blocks[j] \in SUBSET P /\ blocks[j] # {}
      /\ UNION {blocks[j] : j \in 1..n} = P
      /\ \A l, j \in 1..n : l < j => /\ \A o \in blocks[l], q \in blocks[j] : o.x < q.x
                                     /\ Low(blocks[l], blocks[j])
  <2>1. {o \in P : o.x \in Xs(P)} = P
    BY DEF Xs
  <2> QED  BY <1>1, <2>1, LenProperties, ElementOfSeq DEF AreBlocks
<1>3. knots = [i \in 1..n |-> Centroid(blocks[i])]
  BY <1>2 DEF FitIsotonic, blocks
<1> HIDE DEF knots
<1>4. n > 0
  <2>1. PICK o \in P : TRUE
    OBVIOUS
  <2>2. PICK j \in 1..n : o \in blocks[j]
    BY <1>2, <2>1
  <2> HIDE DEF n
  <2> QED  BY <1>2, <2>2
<1>5. Len(knots) = n /\ DOMAIN knots = 1..n
  <2> HIDE DEF n
  <2>1. knots \in [1..n -> {Centroid(blocks[i]) : i \in 1..n}]
    BY <1>3
  <2>2. PICK k, S : k = n /\ k \in Nat /\ S = {Centroid(blocks[i]) : i \in 1..n}
    BY <1>2
  <2>3. knots \in [1..k -> S]
    BY <2>1, <2>2
  <2>4. knots \in Seq(S)
    BY ONLY <2>2, <2>3, SeqDef
  <2>5. Len(knots) = k /\ DOMAIN knots = 1..k
    BY ONLY <2>2, <2>3, <2>4, LenProperties
  <2> QED  BY <2>2, <2>5
<1> HIDE DEF n
<1>6. \A i \in 1..n : /\ knots[i][1] = Mass(blocks[i]) \div Cardinality(blocks[i])
                      /\ knots[i][2] = (100 * Hits(blocks[i])) \div Cardinality(blocks[i])
  BY <1>3 DEF Centroid
<1>7. \A i \in 1..n : /\ Hits(blocks[i]) \in Nat /\ Mass(blocks[i]) \in Nat
                      /\ Cardinality(blocks[i]) \in Nat /\ Cardinality(blocks[i]) > 0
  BY <1>2, PointsCount
<1>8. ASSUME NEW i \in 1..n
      PROVE  \E u, v \in 0..100 : /\ (\E o \in blocks[i] : o.x = u) /\ (\E o \in blocks[i] : o.x = v)
                                  /\ u <= knots[i][1] /\ knots[i][1] <= v /\ knots[i][1] \in Int
  <2> DEFINE bs == {o.x : o \in blocks[i]}
  <2>1. bs \in SUBSET (0..100) /\ bs # {} /\ IsFiniteSet(bs)
    <3>1. bs \in SUBSET Xs(P) /\ bs # {}
      BY <1>2 DEF Xs
    <3> QED  BY <3>1, XsAreFew, FS_Subset
  <2>2. PICK u \in bs, v \in bs : \A y \in bs : u <= y /\ y <= v
    <3>1. bs \in SUBSET Int
      BY <2>1
    <3> HIDE DEF bs
    <3> QED  BY <2>1, <3>1, ExtremesExist
  <2>3. u \in 0..100 /\ v \in 0..100 /\ u \in Nat /\ v \in Nat
    BY <2>1
  <2>4. \A o \in blocks[i] : u <= o.x /\ o.x <= v
    BY <2>2
  <2>5. u * Cardinality(blocks[i]) <= Mass(blocks[i]) /\ Mass(blocks[i]) <= v * Cardinality(blocks[i])
    BY <1>2, <2>3, <2>4, MassBetween
  <2>6. PICK m \in Nat, c \in Nat : c > 0 /\ m = Mass(blocks[i]) /\ c = Cardinality(blocks[i])
    BY <1>7
  <2>7. m \div c \in Nat /\ u <= m \div c /\ m \div c <= v
    BY <2>3, <2>5, <2>6, DivisionBetween
  <2>8. knots[i][1] \in Int /\ u <= knots[i][1] /\ knots[i][1] <= v
    BY <1>6, <2>6, <2>7
  <2> QED  BY <2>3, <2>8
<1>9. \A i \in 1..n : knots[i][2] \in Int
  <2> TAKE i \in 1..n
  <2>1. PICK h \in Nat, c \in Nat : c > 0 /\ h = Hits(blocks[i]) /\ c = Cardinality(blocks[i])
    BY <1>7
  <2>2. (100 * h) \div c \in Int
    BY <2>1
  <2> QED  BY <1>6, <2>1, <2>2
<1>10. ASSUME NEW i \in 1..n, NEW j \in 1..n, i < j
       PROVE  knots[i][1] < knots[j][1] /\ knots[i][2] <= knots[j][2]
  <2>1. PICK v \in 0..100 : (\E o \in blocks[i] : o.x = v) /\ knots[i][1] <= v /\ knots[i][1] \in Int
    BY <1>8
  <2>2. PICK u \in 0..100 : (\E o \in blocks[j] : o.x = u) /\ u <= knots[j][1] /\ knots[j][1] \in Int
    BY <1>8
  <2>3. v < u
    BY <1>2, <1>10, <2>1, <2>2
  <2>4. knots[i][1] < knots[j][1]
    <3>1. PICK a \in Int, b \in Int : a = knots[i][1] /\ b = knots[j][1]
      BY <2>1, <2>2
    <3>2. a <= v /\ u <= b
      BY <2>1, <2>2, <3>1
    <3>3. a < b
      BY <2>3, <3>2
    <3> QED  BY <3>1, <3>3
  <2>5. Hits(blocks[i]) * Cardinality(blocks[j]) <= Hits(blocks[j]) * Cardinality(blocks[i])
    BY <1>2, <1>10 DEF Low
  <2>6. (100 * Hits(blocks[i])) \div Cardinality(blocks[i]) <= (100 * Hits(blocks[j])) \div Cardinality(blocks[j])
    <3>1. 100 \in Nat
      OBVIOUS
    <3> QED  BY <1>7, <2>5, <3>1, PercentsFollow
  <2> QED  BY <1>6, <2>4, <2>6
<1>11. AreKnots(knots)
  <2>1. \A i \in 1..n : knots[i][1] \in Int
    BY <1>8
  <2>2. n = Len(knots) /\ n \in Nat \ {0}
    BY <1>2, <1>4, <1>5 DEF n
  <2>3. \A i, j \in 1..n : i < j => knots[i][1] < knots[j][1] /\ knots[i][2] <= knots[j][2]
    BY <1>10
  <2>4. \A i \in 1..n : knots[i][1] \in Int /\ knots[i][2] \in Int
    BY <1>9, <2>1
  <2> QED  BY <2>2, <2>3, <2>4 DEF AreKnots
<1>12. \A i \in 1..n : \A o \in blocks[i] : Level(P, o.x) = knots[i][2]
  <2> TAKE i \in 1..n
  <2> TAKE o \in blocks[i]
  <2>1. Level(P, o.x) = (100 * Hits(blocks[i])) \div Cardinality(blocks[i])
    BY <1>1, BlockLevels DEF n
  <2> QED  BY <1>6, <2>1
<1>13. {knots[i][2] : i \in 1..n} = {Level(P, o.x) : o \in P}
  <2>1. ASSUME NEW i \in 1..n
        PROVE  \E o \in P : Level(P, o.x) = knots[i][2]
    BY <1>2, <1>12
  <2>2. ASSUME NEW o \in P
        PROVE  \E i \in 1..n : Level(P, o.x) = knots[i][2]
    <3>1. PICK i \in 1..n : o \in blocks[i]
      BY <1>2
    <3> QED  BY <1>12, <3>1
  <2> QED  BY <2>1, <2>2
<1> QED  BY <1>5, <1>11, <1>13 DEF knots

-----------------------------------------------------------------------------
(* A map never swaps two forecasts.                                        *)

LEMMA MaxOfTwo ==
    ASSUME NEW a \in Int, NEW b \in Int
    PROVE  Max({a, b}) = IF a >= b THEN a ELSE b
<1> DEFINE m == IF a >= b THEN a ELSE b
<1>1. m \in {a, b} /\ \A y \in {a, b} : m >= y
  OBVIOUS
<1>2. \A x \in {a, b} : (\A y \in {a, b} : x >= y) => x = m
  OBVIOUS
<1>3. \E x \in {a, b} : \A y \in {a, b} : x >= y
  BY <1>1
<1> QED  BY <1>2, <1>3 DEF Max

LEMMA MinOfTwo ==
    ASSUME NEW a \in Int, NEW b \in Int
    PROVE  Min({a, b}) = IF a <= b THEN a ELSE b
<1> DEFINE m == IF a <= b THEN a ELSE b
<1>1. m \in {a, b} /\ \A y \in {a, b} : m <= y
  OBVIOUS
<1>2. \A x \in {a, b} : (\A y \in {a, b} : x <= y) => x = m
  OBVIOUS
<1>3. \E x \in {a, b} : \A y \in {a, b} : x <= y
  BY <1>1
<1> QED  BY <1>2, <1>3 DEF Min

LEMMA ClipFollows ==
    ASSUME NEW m \in Int, NEW n \in Int, m <= n
    PROVE  Clip(m, 1, 99) <= Clip(n, 1, 99)
<1>1. ASSUME NEW x \in Int
      PROVE  Clip(x, 1, 99) = IF x < 1 THEN 1 ELSE IF x > 99 THEN 99 ELSE x
  <2>1. Min({99, x}) = IF 99 <= x THEN 99 ELSE x
    BY MinOfTwo
  <2>2. PICK y \in Int : y = Min({99, x})
    BY <2>1
  <2>3. Max({1, y}) = IF 1 >= y THEN 1 ELSE y
    BY MaxOfTwo
  <2> QED  BY <2>1, <2>2, <2>3 DEF Clip
<1> QED  BY <1>1

LEMMA DivisionFollows ==
    ASSUME NEW m \in Int, NEW k \in Int, m <= k, NEW n \in Nat, n > 0
    PROVE  m \div n \in Int /\ m \div n <= k \div n
<1>1. PICK i \in Int, j \in Int : /\ i = m \div n /\ j = k \div n
                                  /\ n * i <= m /\ k < n * j + n
  OBVIOUS
<1>2. ~(n * (j + 1) <= n * i)
  <2>1. n * (j + 1) = n * j + n /\ n * j \in Int /\ n * i \in Int
    OBVIOUS
  <2> QED  BY <1>1, <2>1
<1>3. ~(j + 1 <= i)
  <2>1. j + 1 \in Int
    OBVIOUS
  <2> QED  BY <1>2, <2>1, ProductsOrder
<1> QED  BY <1>1, <1>3

\* A way along a segment.
LEMMA SegmentRises ==
    ASSUME NEW d \in Nat, d > 0, NEW e \in Nat, NEW r \in 0..d, NEW s \in 0..d, r <= s
    PROVE  /\ (r * e) \div d \in Int /\ (s * e) \div d \in Int
           /\ 0 <= (r * e) \div d /\ (r * e) \div d <= (s * e) \div d /\ (s * e) \div d <= e
<1>1. r * e <= s * e /\ s * e <= e * d /\ 0 <= r * e /\ r * e \in Int /\ s * e \in Int
  <2>1. CASE e = 0
    BY <2>1
  <2>2. CASE e > 0
    <3>1. e * r <= e * s /\ e * s <= e * d /\ e * 0 <= e * r
      BY <2>2, ProductsOrder
    <3>2. e * r = r * e /\ e * s = s * e /\ e * 0 = 0
      OBVIOUS
    <3> QED  BY <3>1, <3>2
  <2> QED  BY <2>1, <2>2
<1>2. PICK m \in Nat, n \in Nat : m = r * e /\ n = s * e
  BY <1>1
<1>3. m \div d \in Int /\ m \div d <= n \div d
  BY <1>1, <1>2, DivisionFollows
<1>4. n \div d \in Nat /\ n \div d <= e /\ m \div d \in Nat
  <2>1. 0 * d <= n /\ 0 * d <= m /\ n <= e * d /\ m <= e * d
    BY <1>1, <1>2
  <2> QED  BY <2>1, DivisionBetween
<1> QED  BY <1>2, <1>3, <1>4

\* Where p is among the knots.
Along(knots, i, p) ==
    /\ i \in 2..Len(knots) /\ knots[i - 1][1] < p /\ p <= knots[i][1]
    /\ Interpolate(knots, p) =
         knots[i - 1][2] + ((p - knots[i - 1][1]) * (knots[i][2] - knots[i - 1][2]))
                                \div (knots[i][1] - knots[i - 1][1])

LEMMA InterpolateIs ==
    ASSUME NEW knots, AreKnots(knots), NEW p \in Int
    PROVE  \/ p <= knots[1][1] /\ Interpolate(knots, p) = knots[1][2]
           \/ p >= knots[Len(knots)][1] /\ Interpolate(knots, p) = knots[Len(knots)][2]
           \/ \E i \in 2..Len(knots) : Along(knots, i, p)
<1> DEFINE n == Len(knots)
           S == {j \in 1..n : p <= knots[j][1]}
           i == Min(S)
<1>1. n \in Nat /\ n > 0 /\ 1 \in 1..n /\ n \in 1..n /\ \A j \in 1..n : knots[j][1] \in Int /\ knots[j][2] \in Int
  BY DEF AreKnots
<1>2. SUFFICES ASSUME ~(p <= knots[1][1]), ~(p >= knots[n][1])
               PROVE  \E j \in 2..n : Along(knots, j, p)
  BY DEF Interpolate
<1>3. i \in S /\ \A j \in S : i <= j
  <2>1. S \in SUBSET Int /\ n \in S
    <3>1. p <= knots[n][1]
      BY <1>1, <1>2
    <3> QED  BY <1>1, <3>1
  <2>2. IsFiniteSet(S)
    <3>1. IsFiniteSet(1..n) /\ S \in SUBSET (1..n)
      BY <1>1, FS_Interval
    <3> QED  BY <3>1, FS_Subset
  <2> HIDE DEF S
  <2> QED  BY <2>1, <2>2, ExtremesExist
<1> HIDE DEF i
<1>4. i \in 1..n /\ p <= knots[i][1]
  BY <1>3
<1>5. i # 1
  BY <1>2, <1>4
<1> HIDE DEF n
<1>6. i \in 2..n /\ i - 1 \in 1..n /\ ~(i <= i - 1) /\ i - 1 < i
  BY <1>1, <1>4, <1>5
<1>7. knots[i - 1][1] < p
  <2>1. i - 1 \notin S
    BY <1>3, <1>6
  <2>2. ~(p <= knots[i - 1][1]) /\ knots[i - 1][1] \in Int
    BY <1>1, <1>6, <2>1
  <2> QED  BY <2>2
<1>8. knots[i][1] # knots[i - 1][1]
  <2>1. knots[i - 1][1] < knots[i][1] /\ knots[i - 1][1] \in Int
    BY <1>1, <1>4, <1>6 DEF AreKnots, n
  <2> QED  BY <2>1
<1>9. Interpolate(knots, p) =
         knots[i - 1][2] + ((p - knots[i - 1][1]) * (knots[i][2] - knots[i - 1][2]))
                                \div (knots[i][1] - knots[i - 1][1])
  BY <1>2, <1>8 DEF Interpolate, n, i
<1>10. Along(knots, i, p)
  BY <1>4, <1>6, <1>7, <1>9 DEF Along, n
<1> QED  BY <1>6, <1>10

LEMMA AlongRises ==
    ASSUME NEW knots, AreKnots(knots), NEW i \in 2..Len(knots), NEW p \in Int, NEW q \in Int, p <= q,
           Along(knots, i, p), Along(knots, i, q)
    PROVE  /\ Interpolate(knots, p) \in Int /\ Interpolate(knots, q) \in Int
           /\ knots[i - 1][2] <= Interpolate(knots, p)
           /\ Interpolate(knots, p) <= Interpolate(knots, q)
           /\ Interpolate(knots, q) <= knots[i][2]
<1>1. Len(knots) \in Nat /\ i \in 1..Len(knots) /\ i - 1 \in 1..Len(knots) /\ i - 1 < i
  BY DEF AreKnots
<1>2. PICK a \in Int, b \in Int, c \in Int, f \in Int :
        /\ a = knots[i - 1][1] /\ b = knots[i - 1][2] /\ c = knots[i][1] /\ f = knots[i][2]
        /\ a < c /\ b <= f
  BY <1>1 DEF AreKnots
<1>3. /\ a < p /\ p <= c /\ a < q /\ q <= c
      /\ Interpolate(knots, p) = b + ((p - a) * (f - b)) \div (c - a)
      /\ Interpolate(knots, q) = b + ((q - a) * (f - b)) \div (c - a)
  BY <1>2 DEF Along
<1>21. a \in Int /\ b \in Int /\ c \in Int /\ f \in Int /\ a < c /\ b <= f
  BY <1>2
<1>31. a < p /\ p <= c /\ a < q /\ q <= c
  BY <1>3
<1>4. PICK d \in Nat, e \in Nat : d = c - a /\ e = f - b
  BY <1>21
<1>41. PICK r \in 0..d, s \in 0..d : r = p - a /\ s = q - a
  <2>1. p - a \in 0..d /\ q - a \in 0..d
    BY <1>21, <1>31, <1>4
  <2> QED  BY <2>1
<1>5. d > 0 /\ r <= s
  BY <1>21, <1>4, <1>41
<1>6. /\ (r * e) \div d \in Int /\ (s * e) \div d \in Int
      /\ 0 <= (r * e) \div d /\ (r * e) \div d <= (s * e) \div d /\ (s * e) \div d <= e
  BY <1>5, SegmentRises
<1>7. PICK y \in Int, z \in Int : y = (r * e) \div d /\ z = (s * e) \div d
  BY <1>6
<1>8. Interpolate(knots, p) = b + y /\ Interpolate(knots, q) = b + z
  BY <1>3, <1>4, <1>41, <1>7
<1>9. 0 <= y /\ y <= z /\ z <= e
  BY <1>6, <1>7
<1>10. b <= b + y /\ b + y <= b + z /\ b + z <= f
  BY <1>21, <1>4, <1>7, <1>9
<1>11. b + y \in Int /\ b + z \in Int
  BY <1>21, <1>7
<1> QED  BY <1>2, <1>8, <1>10, <1>11, Zenon

LEMMA InterpolateRises ==
    ASSUME NEW knots, AreKnots(knots), NEW p \in Int, NEW q \in Int, p <= q
    PROVE  /\ Interpolate(knots, p) \in Int
           /\ Interpolate(knots, p) <= Interpolate(knots, q)
<1> DEFINE n == Len(knots)
           I(x) == Interpolate(knots, x)
           a(j) == knots[j][1]
           b(j) == knots[j][2]
<1>1. /\ n \in Nat /\ n > 0 /\ 1 \in 1..n /\ n \in 1..n
      /\ \A j \in 1..n : a(j) \in Int /\ b(j) \in Int
      /\ \A i, j \in 1..n : i < j => a(i) < a(j) /\ b(i) <= b(j)
  BY DEF AreKnots
<1>2. \A x \in Int : \/ x <= a(1) /\ I(x) = b(1)
                     \/ x >= a(n) /\ I(x) = b(n)
                     \/ \E i \in 2..n : Along(knots, i, x)
  BY InterpolateIs
<1>3. \A x \in Int, i \in 2..n : Along(knots, i, x) =>
         /\ I(x) \in Int /\ b(i - 1) <= I(x) /\ I(x) <= b(i) /\ a(i - 1) < x /\ x <= a(i)
  <2> TAKE x \in Int, i \in 2..n
  <2> HAVE Along(knots, i, x)
  <2>1. I(x) \in Int /\ b(i - 1) <= I(x) /\ I(x) <= b(i)
    BY AlongRises
  <2>2. a(i - 1) < x /\ x <= a(i)
    BY DEF Along
  <2> QED  BY <2>1, <2>2
<1>4. \A i \in 2..n, x \in Int, y \in Int : x <= y /\ Along(knots, i, x) /\ Along(knots, i, y) => I(x) <= I(y)
  BY AlongRises
<1> HIDE DEF n, I, a, b
<1>5. \A j \in 1..n : b(1) <= b(j) /\ b(j) <= b(n) /\ a(1) <= a(j) /\ a(j) <= a(n)
  <2> TAKE j \in 1..n
  <2>1. (1 = j \/ 1 < j) /\ (j = n \/ j < n)
    BY <1>1
  <2>2. b(1) \in Int /\ b(j) \in Int /\ b(n) \in Int /\ a(1) \in Int /\ a(j) \in Int /\ a(n) \in Int
    BY <1>1
  <2>3. 1 < j => a(1) < a(j) /\ b(1) <= b(j)
    BY <1>1
  <2>4. j < n => a(j) < a(n) /\ b(j) <= b(n)
    BY <1>1
  <2> QED  BY <2>1, <2>2, <2>3, <2>4
<1>6. \A i \in 2..n : i \in 1..n /\ i - 1 \in 1..n
  BY <1>1
<1>7. \A x \in Int : I(x) \in Int /\ b(1) <= I(x) /\ I(x) <= b(n)
  <2> TAKE x \in Int
  <2>1. CASE I(x) = b(1) \/ I(x) = b(n)
    BY <1>1, <1>5, <2>1
  <2>2. CASE \E i \in 2..n : Along(knots, i, x)
    <3>1. PICK i \in 2..n : Along(knots, i, x)
      BY <2>2
    <3>2. PICK u \in Int, v \in Int : u = b(i - 1) /\ v = b(i)
      BY <1>1, <1>6
    <3>3. I(x) \in Int /\ u <= I(x) /\ I(x) <= v /\ b(1) <= u /\ v <= b(n) /\ b(1) \in Int /\ b(n) \in Int
      BY <1>1, <1>3, <1>5, <1>6, <3>1, <3>2
    <3> QED  BY <3>3
  <2> QED  BY <1>2, <2>1, <2>2
<1>8. I(p) <= I(q)
  <2>1. CASE p <= a(1) /\ I(p) = b(1)
    BY <1>7, <2>1
  <2>2. CASE q >= a(n) /\ I(q) = b(n)
    BY <1>7, <2>2
  <2>3. CASE p >= a(n) /\ I(p) = b(n)
    <3>1. q >= a(n)
      BY <1>1, <2>3
    <3>2. CASE q <= a(1) /\ I(q) = b(1)
      <4>1. a(1) \in Int /\ a(n) \in Int /\ a(1) <= a(n)
        BY <1>1, <1>5
      <4>2. a(n) <= a(1)
        BY <3>1, <3>2, <4>1
      <4>3. ~(1 < n)
        <5>1. 1 < n => a(1) < a(n)
          BY <1>1
        <5> QED  BY <4>1, <4>2, <5>1
      <4>4. n = 1
        BY <1>1, <4>3
      <4> QED  BY <1>7, <2>3, <3>2, <4>4
    <3>3. CASE \E i \in 2..n : Along(knots, i, q)
      <4>1. PICK i \in 2..n : Along(knots, i, q)
        BY <3>3
      <4>2. q <= a(i) /\ i \in 1..n /\ i - 1 \in 1..n /\ a(i) <= a(n) /\ I(q) <= b(i) /\ a(i) \in Int /\ a(n) \in Int
        BY <1>1, <1>3, <1>5, <1>6, <4>1
      <4>3. i = n
        <5>1. i < n => a(i) < a(n)
          BY <1>1, <4>2
        <5>2. ~(a(i) < a(n))
          BY <3>1, <4>2
        <5>3. ~(i < n) /\ i \in 1..n
          BY <4>2, <5>1, <5>2
        <5> QED  BY <1>1, <5>3
      <4>4. q = a(n) /\ p = a(n)
        <5>1. q = a(n)
          BY <3>1, <4>2
        <5> QED  BY <2>3, <4>2, <5>1
      <4> QED  BY <1>7, <4>4
    <3>4. CASE q >= a(n) /\ I(q) = b(n)
      BY <1>7, <2>3, <3>4
    <3> QED  BY <1>2, <3>2, <3>3, <3>4
  <2>4. CASE /\ \E i \in 2..n : Along(knots, i, p)
             /\ q <= a(1) /\ I(q) = b(1)
    <3>1. PICK i \in 2..n : Along(knots, i, p)
      BY <2>4
    <3>2. a(i - 1) < p /\ a(1) <= a(i - 1) /\ a(i - 1) \in Int /\ a(1) \in Int
      BY <1>1, <1>3, <1>5, <1>6, <3>1
    <3> QED  BY <2>4, <3>2
  <2>5. CASE (\E i \in 2..n : Along(knots, i, p)) /\ \E i \in 2..n : Along(knots, i, q)
    <3>1. PICK i \in 2..n, j \in 2..n : Along(knots, i, p) /\ Along(knots, j, q)
      BY <2>5
    <3>2. CASE i = j
      BY <1>4, <3>1, <3>2
    <3>3. CASE i < j
      <4>1. I(p) <= b(i) /\ b(j - 1) <= I(q)
        BY <1>3, <3>1
      <4>2. i \in 1..n /\ j - 1 \in 1..n /\ (i = j - 1 \/ i < j - 1)
        BY <1>1, <3>3
      <4>3. b(i) <= b(j - 1) /\ b(i) \in Int /\ b(j - 1) \in Int
        BY <1>1, <4>2
      <4>4. I(p) \in Int /\ I(q) \in Int
        BY <1>7
      <4> QED  BY <4>1, <4>3, <4>4
    <3>4. CASE j < i
      <4>1. a(i - 1) < p /\ q <= a(j)
        BY <1>3, <3>1
      <4>2. j \in 1..n /\ i - 1 \in 1..n /\ (j = i - 1 \/ j < i - 1)
        BY <1>1, <3>4
      <4>3. a(j) <= a(i - 1) /\ a(j) \in Int /\ a(i - 1) \in Int
        BY <1>1, <4>2
      <4> QED  BY <4>1, <4>3
    <3>5. i \in Int /\ j \in Int
      BY <1>1
    <3> QED  BY <3>2, <3>3, <3>4, <3>5
  <2> QED  BY <1>2, <2>1, <2>2, <2>3, <2>4, <2>5
<1> QED  BY <1>7, <1>8 DEF I

LEMMA BlendFollows ==
    ASSUME NEW n \in Nat, n > 0, NEW s \in Nat, NEW f \in Int, NEW g \in Int, f <= g,
           NEW p \in Int, NEW q \in Int, p <= q
    PROVE  Clip((n * f + s * p) \div (n + s), 1, 99) <= Clip((n * g + s * q) \div (n + s), 1, 99)
<1>1. n * f <= n * g /\ n * f \in Int /\ n * g \in Int
  BY ProductsOrder
<1>2. s * p <= s * q /\ s * p \in Int /\ s * q \in Int
  <2>1. CASE s = 0
    BY <2>1
  <2>2. CASE s > 0
    BY <2>2, ProductsOrder
  <2> QED  BY <2>1, <2>2
<1>3. PICK a \in Int, b \in Int, c \in Nat : a = n * f + s * p /\ b = n * g + s * q /\ c = n + s /\ c > 0 /\ a <= b
  BY <1>1, <1>2
<1>4. a \div c \in Int /\ b \div c \in Int /\ a \div c <= b \div c
  BY <1>3, DivisionFollows
<1>5. Clip(a \div c, 1, 99) <= Clip(b \div c, 1, 99)
  BY <1>4, ClipFollows
<1> QED  BY <1>3, <1>5

\* A curve that never falls over one percent never falls over five.
LEMMA CurveRises ==
    ASSUME NEW c \in Curves, NEW p \in 0..95
    PROVE  /\ ReadCurve(c, p) \in Int /\ ReadCurve(c, p + 5) \in Int
           /\ ReadCurve(c, p) <= ReadCurve(c, p + 5)
<1>1. \A x \in 0..100 : ReadCurve(c, x) \in 0..100
  BY EstimatorsAssumption
<1>2. \A x \in 0..99 : ReadCurve(c, x) <= ReadCurve(c, x + 1)
  <2> TAKE x \in 0..99
  <2>1. \A y \in 1..100 : ReadCurve(c, y - 1) <= ReadCurve(c, y)
    BY EstimatorsAssumption
  <2>2. PICK y : y = x + 1
    OBVIOUS
  <2>3. y \in 1..100 /\ y - 1 = x
    BY <2>2
  <2>4. ReadCurve(c, y - 1) <= ReadCurve(c, y)
    BY <2>1, <2>3
  <2> QED  BY <2>2, <2>3, <2>4
<1>3. /\ p + 1 \in 0..99 /\ p + 2 \in 0..99 /\ p + 3 \in 0..99 /\ p + 4 \in 0..99 /\ p \in 0..99 /\ p + 5 \in 0..100
      /\ (p + 1) + 1 = p + 2 /\ (p + 2) + 1 = p + 3 /\ (p + 3) + 1 = p + 4 /\ (p + 4) + 1 = p + 5
  OBVIOUS
<1>4. /\ ReadCurve(c, p) <= ReadCurve(c, p + 1)
      /\ ReadCurve(c, p + 1) <= ReadCurve(c, p + 2)
      /\ ReadCurve(c, p + 2) <= ReadCurve(c, p + 3)
      /\ ReadCurve(c, p + 3) <= ReadCurve(c, p + 4)
      /\ ReadCurve(c, p + 4) <= ReadCurve(c, p + 5)
  BY <1>2, <1>3
<1>5. /\ ReadCurve(c, p) \in 0..100 /\ ReadCurve(c, p + 1) \in 0..100 /\ ReadCurve(c, p + 2) \in 0..100
      /\ ReadCurve(c, p + 3) \in 0..100 /\ ReadCurve(c, p + 4) \in 0..100 /\ ReadCurve(c, p + 5) \in 0..100
  BY <1>1, <1>3
<1> QED  BY <1>4, <1>5, SMTT(30)

LEMMA CalibrationsHold ==
    ASSUME NEW P, ArePoints(P), NEW map \in Calibrations(P)
    PROVE  CalibrationHolds(map, P)
<1> DEFINE n == Cardinality(P)
<1>1. n \in Nat /\ (n > 0 => P # {})
  <2>1. P \in SUBSET P
    OBVIOUS
  <2> QED  BY <2>1, PointsCount
<1>2. MinimumCalibration \in Nat \ {0} /\ ShrinkPrior \in Nat
  BY EstimatorsAssumption
<1>3. \/ map = Identity(n)
      \/ n > 0 /\ map = [Identity(n) EXCEPT !.method = "isotonic", !.knots = FitIsotonic(P)]
      \/ n > 0 /\ \E c \in Curves : map = [Identity(n) EXCEPT !.method = c]
  <2>1. ~(n < MinimumCalibration) => n > 0
    BY <1>1, <1>2
  <2>2. \/ map = Identity(n)
        \/ ~(n < MinimumCalibration) /\ map = [Identity(n) EXCEPT !.method = "isotonic", !.knots = FitIsotonic(P)]
        \/ ~(n < MinimumCalibration) /\ \E c \in Curves : map = [Identity(n) EXCEPT !.method = c]
    BY DEF Calibrations
  <2> QED  BY <2>1, <2>2
<1>4. ASSUME NEW m \in 1..20
      PROVE  /\ 5 * (m - 1) \in Int /\ 5 * m \in Int /\ 5 * (m - 1) <= 5 * m
             /\ 5 * (m - 1) \in 0..95 /\ 5 * m = 5 * (m - 1) + 5
  OBVIOUS
<1> HIDE DEF n
<1>5. CASE map = Identity(n)
  <2>1. map.method = "identity"
    BY <1>5 DEF Identity
  <2>2. \A p : Apply(map, p) = p
    BY <2>1 DEF Apply
  <2> QED  BY <1>4, <2>1, <2>2 DEF CalibrationHolds
<1>6. CASE n > 0 /\ map = [Identity(n) EXCEPT !.method = "isotonic", !.knots = FitIsotonic(P)]
  <2>1. map.method = "isotonic" /\ map.size = n /\ map.knots = FitIsotonic(P)
    BY <1>6 DEF Identity
  <2>2. /\ AreKnots(map.knots)
        /\ {map.knots[i][2] : i \in DOMAIN map.knots} = {Level(P, o.x) : o \in P}
    <3>1. /\ AreKnots(FitIsotonic(P))
          /\ {FitIsotonic(P)[i][2] : i \in DOMAIN FitIsotonic(P)} = {Level(P, o.x) : o \in P}
      BY <1>1, <1>6, IsotonicFits
    <3>2. PICK knots : knots = FitIsotonic(P)
      OBVIOUS
    <3>3. AreKnots(knots) /\ {knots[i][2] : i \in DOMAIN knots} = {Level(P, o.x) : o \in P}
      BY <3>1, <3>2
    <3>4. map.knots = knots
      BY <2>1, <3>2
    <3> QED  BY <3>3, <3>4
  <2>3. ASSUME NEW p \in Int, NEW q \in Int, p <= q
        PROVE  Apply(map, p) <= Apply(map, q)
    <3>1. \A x : Apply(map, x) = Clip((n * Interpolate(map.knots, x) + ShrinkPrior * x) \div (n + ShrinkPrior), 1, 99)
      BY <2>1 DEF Apply
    <3>2. PICK f \in Int, g \in Int : f = Interpolate(map.knots, p) /\ g = Interpolate(map.knots, q) /\ f <= g
      <4>1. q <= q
        OBVIOUS
      <4>2. Interpolate(map.knots, p) \in Int /\ Interpolate(map.knots, p) <= Interpolate(map.knots, q)
        BY <2>2, <2>3, InterpolateRises
      <4>3. Interpolate(map.knots, q) \in Int
        BY <2>2, <4>1, InterpolateRises
      <4> QED  BY <4>2, <4>3
    <3>3. Clip((n * f + ShrinkPrior * p) \div (n + ShrinkPrior), 1, 99)
             <= Clip((n * g + ShrinkPrior * q) \div (n + ShrinkPrior), 1, 99)
      BY <1>1, <1>2, <1>6, <2>3, <3>2, BlendFollows
    <3> QED  BY <3>1, <3>2, <3>3
  <2>4. \A m \in 1..20 : Apply(map, 5 * (m - 1)) <= Apply(map, 5 * m)
    BY <1>4, <2>3
  <2> QED  BY <2>2, <2>4 DEF CalibrationHolds
<1>7. CASE n > 0 /\ \E c \in Curves : map = [Identity(n) EXCEPT !.method = c]
  <2>1. PICK c \in Curves : map = [Identity(n) EXCEPT !.method = c]
    BY <1>7
  <2>2. c # "identity" /\ c # "isotonic"
    BY EstimatorsAssumption
  <2>3. map.method = c /\ map.size = n
    BY <2>1 DEF Identity
  <2>4. \A x : Apply(map, x) = Clip((n * ReadCurve(c, x) + ShrinkPrior * x) \div (n + ShrinkPrior), 1, 99)
    BY <2>2, <2>3 DEF Apply
  <2>5. \A m \in 1..20 : Apply(map, 5 * (m - 1)) <= Apply(map, 5 * m)
    <3> TAKE m \in 1..20
    <3>1. PICK p \in 0..95 : p = 5 * (m - 1) /\ 5 * m = p + 5
      BY <1>4
    <3>2. PICK f \in Int, g \in Int : f = ReadCurve(c, p) /\ g = ReadCurve(c, p + 5) /\ f <= g
      BY CurveRises
    <3>3. p \in Int /\ p + 5 \in Int /\ p <= p + 5
      OBVIOUS
    <3>4. Clip((n * f + ShrinkPrior * p) \div (n + ShrinkPrior), 1, 99)
             <= Clip((n * g + ShrinkPrior * (p + 5)) \div (n + ShrinkPrior), 1, 99)
      BY <1>1, <1>2, <1>7, <3>2, <3>3, BlendFollows
    <3>5. Apply(map, p) <= Apply(map, p + 5)
      BY <2>4, <3>2, <3>4
    <3> QED  BY <3>1, <3>5
  <2> QED  BY <2>2, <2>3, <2>5 DEF CalibrationHolds
<1> QED  BY <1>3, <1>5, <1>6, <1>7

-----------------------------------------------------------------------------
(* What a fit stores.                                                      *)

LEMMA RawPointsArePoints ==
    ASSUME NEW S \in SUBSET Episode
    PROVE  ArePoints(RawPoints(S))
<1> DEFINE f == [e \in Latest(S) |-> [e |-> e, x |-> RawOf[e], y |-> Bit(OverLanded(e))]]
           R == {f[e] : e \in Latest(S)}
<1>1. Latest(S) \in SUBSET S
  BY DEF Latest
<1>2. IsFiniteSet(Latest(S))
  BY <1>1, SampleAssumption, FS_Subset
<1>3. RawPoints(S) = R
  BY DEF RawPoints
<1>4. IsFiniteSet(R)
  <2> HIDE DEF f
  <2> QED  BY <1>2, ImageIsFinite
<1>5. ASSUME NEW o \in R
      PROVE  o.x \in 0..100 /\ o.y \in {0, 1}
  <2>1. PICK e \in Latest(S) : o = [e |-> e, x |-> RawOf[e], y |-> Bit(OverLanded(e))]
    OBVIOUS
  <2>2. e \in Episode /\ RawOf[e] \in 0..100
    BY <1>1, <2>1, LearningAssumption
  <2>3. Bit(OverLanded(e)) \in {0, 1}
    BY DEF Bit
  <2> QED  BY <2>1, <2>2, <2>3
<1> HIDE DEF R
<1> QED  BY <1>3, <1>4, <1>5 DEF ArePoints

LEMMA WeightFitsHold ==
    ASSUME NEW n, NEW fit \in WeightFits(n, Found)
    PROVE  WeightsHold(fit)
<1>1. CASE fit = [size |-> n, weights |-> Prior, pairs |-> {}]
  <2>1. fit.weights = Prior /\ fit.pairs = {}
    BY <1>1
  <2>2. Sum(Prior, Name) = 100
    BY PriorFacts
  <2>3. Sum(Prior, UNION {}) <= Sum(Prior, UNION {})
    <3>1. UNION {} = {}
      OBVIOUS
    <3>2. Sum(Prior, {}) = 0
      BY SumOfNone
    <3>3. Sum(Prior, UNION {}) = 0
      BY <3>1, <3>2, Zenon
    <3> QED  BY <3>3
  <2> QED  BY <2>1, <2>2, <2>3 DEF WeightsHold
<1>2. CASE \E f \in Found : fit = [size |-> n, weights |-> Capped(f.v, f.pairs), pairs |-> f.pairs]
  <2>1. PICK f \in Found : fit = [size |-> n, weights |-> Capped(f.v, f.pairs), pairs |-> f.pairs]
    BY <1>2
  <2>2. PICK v, pairs : v = f.v /\ pairs = f.pairs
    OBVIOUS
  <2>3. /\ v \in [Name -> Nat] /\ Sum(v, Name) = 100
        /\ pairs \subseteq {pair \in SUBSET Name : Cardinality(pair) = 2}
    BY <2>2, LearningAssumption
  <2>4. pairs \in SUBSET SUBSET Name /\ {} \notin pairs
    <3>1. Cardinality({}) = 0
      BY FS_EmptySet
    <3> QED  BY <2>3, <3>1
  <2>5. IsFiniteSet(pairs)
    <3>1. IsFiniteSet(SUBSET Name)
      BY PriorFacts, FS_SUBSET
    <3> QED  BY <2>4, <3>1, FS_Subset
  <2>6. /\ Sum(Capped(v, pairs), Name) \in 95..100
        /\ Connected(pairs) => Sum(Capped(v, pairs), UNION pairs) <= Sum(Prior, UNION pairs)
    BY <2>3, <2>4, <2>5, CapHolds
  <2>7. fit.weights = Capped(v, pairs) /\ fit.pairs = pairs
    BY <2>1, <2>2
  <2> QED  BY <2>6, <2>7 DEF WeightsHold
<1> QED  BY <1>1, <1>2 DEF WeightFits

LEMMA FittedHolds ==
    ASSUME NEW S \in SUBSET Episode, NEW kind, NEW v \in Fitted(kind, S)
    PROVE  /\ kind = "calibration_map" => CalibrationHolds(v, RawPoints(S))
           /\ kind = "ensemble_weights" => WeightsHold(v)
<1>1. ASSUME kind = "calibration_map"
      PROVE  CalibrationHolds(v, RawPoints(S))
  <2>1. v \in Calibrations(RawPoints(S))
    BY <1>1 DEF Fitted
  <2> QED  BY <2>1, RawPointsArePoints, CalibrationsHold
<1>2. ASSUME kind = "ensemble_weights"
      PROVE  WeightsHold(v)
  <2>1. v \in WeightFits(Cardinality(Latest(S)), Found)
    BY <1>2 DEF Fitted
  <2> QED  BY <2>1, WeightFitsHold
<1> QED  BY <1>1, <1>2

\* What Parameters recurses over.
Choosing(iter, S, keys) ==
    iter = [s \in SUBSET keys |->
              IF s = {} THEN {<<>>}
              ELSE LET k == CHOOSE i \in s : TRUE
                   IN  Extended(iter[s \ {k}], k, Fitted(k[1], OfMarket(S, k[2])))]

\* The same, with the values of each key as a function.
First(s) == CHOOSE i \in s : TRUE
Extending(iter, of, nil, keys) ==
    \A s \in SUBSET keys :
        iter[s] = IF s = {} THEN {nil} ELSE Extended(iter[s \ {First(s)}], First(s), of[First(s)])

LEMMA FirstIsIn ==
    ASSUME NEW s, s # {}
    PROVE  First(s) \in s
<1>1. \E i : i \in s
  OBVIOUS
<1> QED  BY <1>1 DEF First

LEMMA ExtendingExists ==
    ASSUME NEW keys, IsFiniteSet(keys), NEW of, NEW nil, DOMAIN nil = {}, nil = [x \in {} |-> x]
    PROVE  \E iter : /\ iter = [s \in SUBSET keys |-> iter[s]]
                     /\ Extending(iter, of, nil, keys)
<1> DEFINE Values == UNION {of[k] : k \in keys}
           Partial == UNION {[d -> Values] : d \in SUBSET keys}
           V == SUBSET Partial
           pick == [s \in SUBSET keys |-> First(s)]
           st == [k \in keys |-> [F \in V |-> Extended(F, k, of[k])]]
<1>1. \A s \in SUBSET keys : s # {} => pick[s] \in s
  BY FirstIsIn
<1>2. {nil} \in V
  <2>1. nil \in [{} -> Values]
    OBVIOUS
  <2>2. {} \in SUBSET keys
    OBVIOUS
  <2> HIDE DEF Values
  <2>3. nil \in Partial
    BY <2>1, <2>2
  <2> QED  BY <2>3
<1>3. \A k \in keys : of[k] \subseteq Values
  OBVIOUS
<1>4. \A f : f \in Partial => DOMAIN f \subseteq keys /\ \A x \in DOMAIN f : f[x] \in Values
  <2> HIDE DEF Values
  <2> SUFFICES ASSUME NEW f \in Partial
               PROVE  DOMAIN f \subseteq keys /\ \A x \in DOMAIN f : f[x] \in Values
    OBVIOUS
  <2>1. PICK d \in SUBSET keys : f \in [d -> Values]
    OBVIOUS
  <2> QED  BY <2>1
<1>5. \A g : /\ DOMAIN g \subseteq keys
             /\ \A x \in DOMAIN g : g[x] \in Values
             /\ g = [x \in DOMAIN g |-> g[x]]
             => g \in Partial
  <2> HIDE DEF Values
  <2> SUFFICES ASSUME NEW g, DOMAIN g \subseteq keys,
                      \A x \in DOMAIN g : g[x] \in Values, g = [x \in DOMAIN g |-> g[x]]
               PROVE  g \in Partial
    BY Zenon
  <2>1. g \in [DOMAIN g -> Values]
    OBVIOUS
  <2> QED  BY <2>1
<1> HIDE DEF Values, Partial
<1>6. ASSUME NEW k \in keys, NEW F \in V
      PROVE  Extended(F, k, of[k]) \in V
  <2>1. \A f \in F : DOMAIN f \subseteq keys /\ \A x \in DOMAIN f : f[x] \in Values
    BY <1>4
  <2>2. ASSUME NEW g \in Extended(F, k, of[k])
        PROVE  g \in Partial
    <3>1. PICK f \in F, v \in of[k] : g = With(f, k, v)
      BY DEF Extended
    <3>2. v \in Values
      BY <1>3
    <3>3. g = [j \in {k} \cup DOMAIN f |-> IF j = k THEN v ELSE f[j]]
      BY <3>1 DEF With
    <3>4. g = [x \in DOMAIN g |-> g[x]]
      BY <3>3
    <3>5. /\ DOMAIN g = {k} \cup DOMAIN f
          /\ g[k] = v
          /\ \A x \in DOMAIN f : x # k => g[x] = f[x]
      BY <3>3
    <3>6. DOMAIN f \subseteq keys /\ \A x \in DOMAIN f : f[x] \in Values
      BY <2>1
    <3>7. \A x \in DOMAIN g : g[x] \in Values
      BY <3>2, <3>5, <3>6
    <3>8. DOMAIN g \subseteq keys
      BY <3>5, <3>6
    <3> QED  BY <1>5, <3>4, <3>7, <3>8
  <2> QED  BY <2>2
<1>7. \A k \in keys : \A F \in V : st[k][F] \in V /\ st[k][F] = Extended(F, k, of[k])
  <2> HIDE DEF V
  <2> QED  BY <1>6
<1>8. PICK iter \in [SUBSET keys -> V] : IsFold(iter, keys, {nil}, pick, st)
  <2> HIDE DEF V, pick, st
  <2>1. \A k \in keys : \A F \in V : st[k][F] \in V
    BY <1>7
  <2> QED  BY <1>1, <1>2, <2>1, FoldExists
<1>9. iter = [s \in SUBSET keys |-> iter[s]]
  <2> HIDE DEF V
  <2> QED  BY <1>8
<1>10. ASSUME NEW s \in SUBSET keys
       PROVE  iter[s] = IF s = {} THEN {nil} ELSE Extended(iter[s \ {First(s)}], First(s), of[First(s)])
  <2>1. iter[s] = IF s = {} THEN {nil} ELSE st[pick[s]][iter[s \ {pick[s]}]]
    BY <1>8 DEF IsFold
  <2>2. CASE s = {}
    BY <2>1, <2>2
  <2>3. CASE s # {}
    <3>1. PICK k : k = First(s)
      OBVIOUS
    <3>2. pick[s] = k /\ k \in keys
      BY <1>1, <2>3, <3>1
    <3>3. iter[s \ {k}] \in V
      <4> HIDE DEF V
      <4>1. s \ {k} \in SUBSET keys
        OBVIOUS
      <4> QED  BY <1>8, <4>1
    <3> HIDE DEF V, pick, st
    <3>4. iter[s] = st[k][iter[s \ {k}]]
      BY <2>1, <2>3, <3>2
    <3>5. iter[s] = Extended(iter[s \ {k}], k, of[k])
      BY <1>7, <3>2, <3>3, <3>4
    <3> QED  BY <2>3, <3>1, <3>5
  <2> QED  BY <2>2, <2>3
<1> QED  BY <1>9, <1>10 DEF Extending

LEMMA ChoosingExists ==
    ASSUME NEW S, NEW keys, IsFiniteSet(keys)
    PROVE  \E iter : Choosing(iter, S, keys)
<1> DEFINE of == [k \in keys |-> Fitted(k[1], OfMarket(S, k[2]))]
<1>1. PICK nil : nil = <<>>
  OBVIOUS
<1>2. DOMAIN nil = {} /\ nil = [x \in {} |-> x]
  BY <1>1
<1>3. PICK iter : iter = [s \in SUBSET keys |-> iter[s]] /\ Extending(iter, of, nil, keys)
  <2> HIDE DEF of
  <2> QED  BY <1>2, ExtendingExists
<1>4. ASSUME NEW s \in SUBSET keys
      PROVE  iter[s] = IF s = {} THEN {<<>>}
                       ELSE LET k == CHOOSE i \in s : TRUE
                            IN  Extended(iter[s \ {k}], k, Fitted(k[1], OfMarket(S, k[2])))
  <2>1. CASE s = {}
    <3>1. iter[s] = {nil}
      BY <1>3, <2>1 DEF Extending
    <3> QED  BY <1>1, <2>1, <3>1, Zenon
  <2>2. CASE s # {}
    <3>1. PICK k : k = First(s)
      OBVIOUS
    <3>2. k \in keys
      BY <2>2, <3>1, FirstIsIn
    <3>3. iter[s] = Extended(iter[s \ {k}], k, of[k])
      BY <1>3, <2>2, <3>1 DEF Extending
    <3>4. of[k] = Fitted(k[1], OfMarket(S, k[2]))
      BY <3>2
    <3>5. iter[s] = Extended(iter[s \ {k}], k, Fitted(k[1], OfMarket(S, k[2])))
      <4> HIDE DEF of
      <4> QED  BY <3>3, <3>4, Zenon
    <3>6. k = CHOOSE i \in s : TRUE
      BY <3>1 DEF First
    <3> QED  BY <2>2, <3>5, <3>6, Zenon
  <2> QED  BY <2>1, <2>2
<1>5. iter = [s \in SUBSET keys |->
                IF s = {} THEN {<<>>}
                ELSE LET k == CHOOSE i \in s : TRUE
                     IN  Extended(iter[s \ {k}], k, Fitted(k[1], OfMarket(S, k[2])))]
  BY <1>3, <1>4, Zenon
<1> QED  BY <1>5, Zenon DEF Choosing

\* A fit gives each key a value its kind allows.
LEMMA ParametersFit ==
    ASSUME NEW S, NEW keys, IsFiniteSet(keys), NEW new \in Parameters(S, keys)
    PROVE  \A k \in keys : new[k] \in Fitted(k[1], OfMarket(S, k[2]))
<1> DEFINE of == [k \in keys |-> Fitted(k[1], OfMarket(S, k[2]))]
           g == CHOOSE iter : Choosing(iter, S, keys)
<1>1. Parameters(S, keys) = g[keys]
  BY DEF Parameters, FoldSet, MapThenFoldSet, Choosing
<1>2. Choosing(g, S, keys)
  <2>1. \E iter : Choosing(iter, S, keys)
    BY ChoosingExists
  <2> QED  BY <2>1, Zenon
<1> HIDE DEF g
<1>3. ASSUME NEW s \in SUBSET keys
      PROVE  g[s] = IF s = {} THEN {<<>>}
                    ELSE LET k == CHOOSE i \in s : TRUE
                         IN  Extended(g[s \ {k}], k, Fitted(k[1], OfMarket(S, k[2])))
  BY <1>2, Zenon DEF Choosing
<1> DEFINE Good == {s \in SUBSET keys : \A f \in g[s] : DOMAIN f = s /\ \A k \in s : f[k] \in of[k]}
<1> HIDE DEF of
<1>4. {} \in Good
  <2>1. \A s \in SUBSET keys : s = {} => g[s] = {<<>>}
    BY <1>3
  <2>2. PICK nil : nil = <<>>
    OBVIOUS
  <2>3. DOMAIN nil = {}
    BY <2>2
  <2>4. g[{}] = {nil}
    BY <2>1, <2>2, Zenon
  <2> QED  BY <2>3, <2>4
<1>5. ASSUME NEW s \in SUBSET keys, s # {}, \A x \in s : s \ {x} \in Good
      PROVE  s \in Good
  <2>1. PICK k : k = CHOOSE i \in s : TRUE
    OBVIOUS
  <2>2. k \in s
    BY <1>5, <2>1, FirstIsIn DEF First
  <2>3. g[s] = Extended(g[s \ {k}], k, Fitted(k[1], OfMarket(S, k[2])))
    BY <1>3, <1>5, <2>1, Zenon
  <2>4. of[k] = Fitted(k[1], OfMarket(S, k[2]))
    BY <2>2 DEF of
  <2>5. ASSUME NEW h \in g[s]
        PROVE  DOMAIN h = s /\ \A x \in s : h[x] \in of[x]
    <3>1. PICK f \in g[s \ {k}], v \in of[k] : h = With(f, k, v)
      <4>1. h \in Extended(g[s \ {k}], k, of[k])
        BY <2>3, <2>4, Zenon
      <4> QED  BY <4>1 DEF Extended
    <3>2. DOMAIN f = s \ {k} /\ \A x \in s \ {k} : f[x] \in of[x]
      <4>1. s \ {k} \in Good
        BY <1>5, <2>2
      <4> QED  BY <4>1, <3>1
    <3>3. /\ DOMAIN h = {k} \cup DOMAIN f
          /\ \A x \in DOMAIN f : x # k => h[x] = f[x]
          /\ h[k] = v
      BY <3>1 DEF With
    <3>4. DOMAIN h = s
      BY <2>2, <3>2, <3>3
    <3>5. \A x \in s : h[x] \in of[x]
      BY <3>1, <3>2, <3>3
    <3> QED  BY <3>4, <3>5
  <2> QED  BY <2>5
<1>6. \A s \in SUBSET keys : s \in Good
  <2> HIDE DEF Good
  <2> QED  BY <1>4, <1>5, PartsInduction
<1>7. keys \in Good
  <2> HIDE DEF Good
  <2> QED  BY <1>6
<1>8. \A k \in keys : of[k] = Fitted(k[1], OfMarket(S, k[2]))
  BY DEF of
<1> QED  BY <1>1, <1>7, <1>8

-----------------------------------------------------------------------------
(* A fit stays true to its record: what it read is over, and no box score  *)
(* ever changes.                                                           *)

\* The games of these episodes are over.
Played(S) == \A e \in S : e \in Episode /\ box[MarketOf[e]] # None

\* A row holds what its fit promised of the episodes it was fitted on.
RowHolds(k, row) ==
    /\ Played(row.of)
    /\ k[1] = "calibration_map" => CalibrationHolds(row.value, RawPoints(OfMarket(row.of, k[2])))
    /\ k[1] = "ensemble_weights" => WeightsHold(row.value)

SeenInv == \A p \in Process : Played(job[p].seen)
FitsInv == \A k \in Key : rows[k] # <<>> => RowHolds(k, Last(rows[k]))
RecordInv == DOMAIN box = Market /\ SeenInv /\ FitsInv

BoxesStay ==
    /\ DOMAIN box' = DOMAIN box
    /\ \A m \in Market : box[m] # None => box'[m] = box[m]

LEMMA BoxStep ==
    ASSUME DOMAIN box = Market, [Next]_vars
    PROVE  BoxesStay
<1>1. CASE \E m \in Market : Play(m)
  <2>1. PICK m \in Market : Play(m)
    BY <1>1
  <2>2. PICK r : box' = [box EXCEPT ![m] = r]
    BY <2>1 DEF Play
  <2>3. box[m] = None
    BY <2>1 DEF Play
  <2> QED  BY <2>2, <2>3 DEF BoxesStay
<1>2. CASE box' = box
  BY <1>2 DEF BoxesStay
<1>3. (\E m \in Market : Play(m)) \/ box' = box
  BY DEF Next, vars, NightlyStep, FitStep, Load, Record, ReadRecord, Evaluate, SkipFit, BeginFit,
         ReadPoints, Store, Wait, CommitFit, Kill
<1> QED  BY <1>1, <1>2, <1>3

\* What was read stays over, and says the same.
LEMMA PlayedStays ==
    ASSUME BoxesStay, NEW S, Played(S)
    PROVE  /\ Played(S)'
           /\ \A q : RawPoints(OfMarket(S, q))' = RawPoints(OfMarket(S, q))
<1>1. \A e \in S : e \in Episode /\ MarketOf[e] \in Market
  BY SampleAssumption DEF Played
<1>2. \A e \in S : box'[MarketOf[e]] = box[MarketOf[e]]
  BY <1>1 DEF BoxesStay, Played
<1>3. Played(S)'
  BY <1>2 DEF Played
<1>4. ASSUME NEW q
      PROVE  RawPoints(OfMarket(S, q))' = RawPoints(OfMarket(S, q))
  <2>1. PICK T : T = OfMarket(S, q)
    OBVIOUS
  <2>2. OfMarket(S, q)' = T
    BY <2>1 DEF OfMarket
  <2>3. T \subseteq S
    BY <2>1 DEF OfMarket
  <2>4. Latest(T) \subseteq T
    BY DEF Latest
  <2>5. \A e \in Latest(T) : OverLanded(e)' = OverLanded(e)
    BY <1>2, <2>3, <2>4 DEF OverLanded
  <2>6. RawPoints(T)' = RawPoints(T)
    BY <2>5 DEF RawPoints, Latest, Bit
  <2> QED  BY <2>1, <2>2, <2>6
<1> QED  BY <1>3, <1>4

LEMMA RowsStay ==
    ASSUME BoxesStay, NEW k, NEW row, RowHolds(k, row)
    PROVE  RowHolds(k, row)'
<1>1. PICK S : S = row.of
  OBVIOUS
<1>2. Played(S)' /\ RawPoints(OfMarket(S, k[2]))' = RawPoints(OfMarket(S, k[2]))
  BY <1>1, PlayedStays DEF RowHolds
<1> QED  BY <1>1, <1>2 DEF RowHolds

\* The episodes a job has read: none, the settled ones, or what a job had.
LEMMA SeenIsRead ==
    ASSUME FitInv, [Next]_vars, NEW q \in Process
    PROVE  job'[q].seen \in {{}, Settled, job[q].seen}
<1>1. \A p \in Process : IsJob(job[p])
  BY DEF FitInv, JobsInv
<1>2. DOMAIN job = Process
  BY DEF FitInv, JobsInv
<1>3. ASSUME NEW p \in Process, NEW j, job' = [job EXCEPT ![p] = j],
             j.seen \in {{}, Settled, job[p].seen}
      PROVE  job'[q].seen \in {{}, Settled, job[q].seen}
  BY <1>2, <1>3
<1>4. CASE Load
  <2> DEFINE m == CalibrationFor(PropOf[MarketOf[Ahead]])
             j == [Idle EXCEPT !.cmd = "forecast", !.stage = "read", !.map = m, !.guard = DriftGuard]
  <2>1. job' = [job EXCEPT ![Timer] = j]
    BY <1>4 DEF Load, Ahead
  <2>2. j.seen = {}
    <3> HIDE DEF m
    <3>1. j = [cmd |-> "forecast", stage |-> "read", seen |-> {}, at |-> 0, map |-> m, guard |-> DriftGuard]
      BY ForecastJob
    <3> QED  BY <3>1
  <2> HIDE DEF j
  <2> QED  BY <1>3, <2>1, <2>2, ProcessesKnown
<1>5. CASE Record
  BY <1>3, <1>5, IdleIsJob, ProcessesKnown DEF Record, End
<1>6. CASE ReadRecord
  <2> DEFINE j == [Idle EXCEPT !.cmd = "evaluate", !.stage = "read", !.seen = Settled]
  <2>1. job' = [job EXCEPT ![Nightly] = j]
    BY <1>6 DEF ReadRecord, Start
  <2>2. j.seen = Settled
    <3>1. j = [cmd |-> "evaluate", stage |-> "read", seen |-> Settled, at |-> 0,
               map |-> Identity(0), guard |-> 0]
      BY ReadingJob
    <3> HIDE DEF j
    <3> QED  BY <3>1
  <2> HIDE DEF j
  <2> QED  BY <1>3, <2>1, <2>2, ProcessesKnown
<1>7. CASE Evaluate
  <2> DEFINE j == [Idle EXCEPT !.cmd = "fit"]
  <2>1. job' = [job EXCEPT ![Nightly] = j]
    BY <1>7 DEF Evaluate
  <2>2. j.seen = {}
    BY DEF Idle
  <2> HIDE DEF j
  <2> QED  BY <1>3, <2>1, <2>2, ProcessesKnown
<1>8. CASE SkipFit
  BY <1>3, <1>8, IdleIsJob, ProcessesKnown DEF SkipFit, End
<1>9. ASSUME NEW p \in {Nightly, Cli}, BeginFit(p)
      PROVE  job'[q].seen \in {{}, Settled, job[q].seen}
  <2> DEFINE j == [Idle EXCEPT !.cmd = "fit", !.stage = "begun", !.at = fits + 1]
  <2>1. job' = [job EXCEPT ![p] = j]
    BY <1>9 DEF BeginFit
  <2>2. j.seen = {}
    <3>1. j = [cmd |-> "fit", stage |-> "begun", seen |-> {}, at |-> fits + 1,
               map |-> Identity(0), guard |-> 0]
      BY BegunJob
    <3> HIDE DEF j
    <3> QED  BY <3>1
  <2>3. p \in Process
    BY DEF Process
  <2> HIDE DEF j
  <2> QED  BY <1>3, <2>1, <2>2, <2>3
<1>10. ASSUME NEW p \in {Nightly, Cli}, ReadPoints(p)
       PROVE  job'[q].seen \in {{}, Settled, job[q].seen}
  <2>1. p \in Process
    BY DEF Process
  <2>2. CASE Settled = {}
    BY <1>3, <1>10, <2>1, <2>2, IdleIsJob DEF ReadPoints, End
  <2>3. CASE Settled # {}
    <3> DEFINE j == [job[p] EXCEPT !.stage = "read", !.seen = Settled]
    <3>1. job' = [job EXCEPT ![p].stage = "read", ![p].seen = Settled]
      BY <1>10, <2>3 DEF ReadPoints
    <3>2. job' = [job EXCEPT ![p] = j]
      BY <1>2, <2>1, <3>1
    <3>3. j.seen = Settled
      <4>1. IsJob(job[p])
        BY <1>1, <2>1
      <4>2. PICK S : S = Settled
        OBVIOUS
      <4>3. PICK old : old = job[p]
        OBVIOUS
      <4>4. PICK i : i = j
        OBVIOUS
      <4>5. i = [old EXCEPT !.stage = "read", !.seen = S]
        BY <4>2, <4>3, <4>4
      <4>6. IsJob(old) /\ S \subseteq Episode
        BY <4>1, <4>2, <4>3, SettledAreEpisodes
      <4>7. i.seen = S
        <5>1. i = [cmd |-> old.cmd, stage |-> "read", seen |-> S, at |-> old.at,
                   map |-> old.map, guard |-> old.guard]
          BY <4>5, <4>6 DEF IsJob
        <5> QED  BY <5>1
      <4> QED  BY <4>2, <4>4, <4>7
    <3> HIDE DEF j
    <3> QED  BY <1>3, <2>1, <3>2, <3>3
  <2> QED  BY <2>2, <2>3
<1>11. ASSUME NEW p \in {Nightly, Cli}, Store(p) \/ Wait(p)
       PROVE  job'[q].seen \in {{}, Settled, job[q].seen}
  <2>1. p \in Process
    BY DEF Process
  <2>2. CASE job' = [job EXCEPT ![p] = Idle]
    BY <1>3, <2>1, <2>2, IdleIsJob
  <2>3. ASSUME NEW s, job' = [job EXCEPT ![p].stage = s]
        PROVE  job'[q].seen \in {{}, Settled, job[q].seen}
    <3> DEFINE j == [job[p] EXCEPT !.stage = s]
    <3>1. job' = [job EXCEPT ![p] = j]
      BY <1>2, <2>1, <2>3
    <3>2. j.seen = job[p].seen
      BY <1>1, <2>1, StageMoves
    <3> HIDE DEF j
    <3> QED  BY <1>3, <2>1, <3>1, <3>2
  <2>4. \/ job' = [job EXCEPT ![p] = Idle]
        \/ job' = [job EXCEPT ![p].stage = "stored"]
        \/ job' = [job EXCEPT ![p].stage = "waiting"]
    BY <1>11 DEF Store, Wait, End
  <2> QED  BY <2>2, <2>3, <2>4
<1>12. ASSUME NEW p \in {Nightly, Cli}, CommitFit(p)
       PROVE  job'[q].seen \in {{}, Settled, job[q].seen}
  <2>1. job'[q] = Idle \/ job'[q] = job[q]
    BY <1>12 DEF CommitFit, Beaten
  <2> QED  BY <2>1, IdleIsJob
<1>13. ASSUME NEW p \in {Nightly, Cli}, Kill(p)
       PROVE  job'[q].seen \in {{}, Settled, job[q].seen}
  <2>1. \/ job'[q] = Idle \/ job'[q] = job[q]
        \/ job'[q] = [job[q] EXCEPT !.stage = "read"]
    BY <1>13 DEF Kill
  <2>2. CASE job'[q] = [job[q] EXCEPT !.stage = "read"]
    BY <1>1, <2>2, StageMoves
  <2> QED  BY <2>1, <2>2, IdleIsJob
<1>14. CASE job' = job
  BY <1>14
<1>15. ASSUME NEW m \in Market, Play(m)
       PROVE  job' = job
  BY <1>15 DEF Play
<1> QED  BY <1>4, <1>5, <1>6, <1>7, <1>8, <1>9, <1>10, <1>11, <1>12, <1>13, <1>14, <1>15
         DEF Next, vars, NightlyStep, FitStep

LEMMA SettledIsPlayed == Played(Settled)
  BY DEF Played, Settled, Made

LEMMA SeenStays ==
    ASSUME RecordInv, FitInv, [Next]_vars
    PROVE  SeenInv'
<1>1. BoxesStay
  BY BoxStep DEF RecordInv
<1>2. ASSUME NEW q \in Process
      PROVE  Played(job[q].seen)'
  <2>1. PICK S : S = job'[q].seen
    OBVIOUS
  <2>2. S \in {{}, Settled, job[q].seen}
    BY <2>1, SeenIsRead
  <2>3. Played({}) /\ Played(Settled) /\ Played(job[q].seen)
    BY SettledIsPlayed DEF Played, RecordInv, SeenInv
  <2>4. Played(S)
    BY <2>2, <2>3
  <2>5. Played(S)'
    BY <1>1, <2>4, PlayedStays
  <2> QED  BY <2>1, <2>5
<1> QED  BY <1>2 DEF SeenInv, Process

LEMMA SupersedeLast ==
    ASSUME NEW h, IsHistory(h), NEW row
    PROVE  Supersede(h, row) # <<>> /\ Last(Supersede(h, row)) = row
<1> DEFINE R == {[h[i] EXCEPT !.live = FALSE] : i \in DOMAIN h} \cup {row}
           c == [i \in DOMAIN h |-> [h[i] EXCEPT !.live = FALSE]]
<1>1. DOMAIN h = 1..Len(h) /\ Len(h) \in Nat
  BY LenProperties DEF IsHistory
<1>2. c \in Seq(R)
  <2>1. c \in [1..Len(h) -> R]
    BY <1>1
  <2> HIDE DEF c, R
  <2> QED  BY <1>1, <2>1
<1>3. row \in R
  OBVIOUS
<1>4. Supersede(h, row) = Append(c, row)
  BY DEF Supersede
<1> HIDE DEF c, R
<1>5. /\ Append(c, row) # <<>> /\ Len(Append(c, row)) = Len(c) + 1
      /\ Append(c, row)[Len(c) + 1] = row
  BY <1>2, <1>3, AppendProperties
<1> QED  BY <1>4, <1>5 DEF Last

LEMMA CommitHolds ==
    ASSUME RecordInv, FitInv, NEW p \in {Nightly, Cli}, CommitFit(p), NEW k \in Key, rows'[k] # <<>>
    PROVE  RowHolds(k, Last(rows'[k]))
<1>1. PICK S : S = job[p].seen
  OBVIOUS
<1> DEFINE keys == Kind \X Markets(S)
           Row(v) == [value |-> v, at |-> job[p].at, of |-> S, live |-> TRUE]
<1>2. PICK new \in Parameters(S, keys) :
        rows' = [j \in Key |-> IF j \in keys THEN Supersede(rows[j], Row(new[j])) ELSE rows[j]]
  BY <1>1 DEF CommitFit
<1>3. S \in SUBSET Episode /\ Played(S)
  BY <1>1 DEF FitInv, JobsInv, IsJob, Process, RecordInv, SeenInv
<1>4. IsFiniteSet(keys)
  <2>1. IsFiniteSet(S)
    BY <1>3, SampleAssumption, FS_Subset
  <2>2. IsFiniteSet(Markets(S))
    <3> DEFINE f == [e \in S |-> PropOf[MarketOf[e]]]
    <3>1. IsFiniteSet({f[e] : e \in S})
      <4> HIDE DEF f
      <4> QED  BY <2>1, ImageIsFinite
    <3>2. {f[e] : e \in S} = {PropOf[MarketOf[e]] : e \in S}
      OBVIOUS
    <3>3. IsFiniteSet({All} \cup {PropOf[MarketOf[e]] : e \in S})
      BY <3>1, <3>2, FS_Singleton, FS_Union
    <3> QED  BY <3>3, FS_EmptySet DEF Markets
  <2>3. IsFiniteSet(Kind)
    <3>1. Kind = {"calibration_map"} \cup ({"ensemble_weights"} \cup {"edge_shrinkage"})
      BY DEF Kind
    <3>2. IsFiniteSet({"ensemble_weights"} \cup {"edge_shrinkage"})
      BY FS_Singleton, FS_Union
    <3> QED  BY <3>1, <3>2, FS_Singleton, FS_Union
  <2> QED  BY <2>2, <2>3, FS_Product
<1>5. CASE k \notin keys
  <2>1. rows'[k] = rows[k]
    BY <1>2, <1>5
  <2> QED  BY <2>1 DEF RecordInv, FitsInv
<1>6. CASE k \in keys
  <2>1. PICK v : v = new[k]
    OBVIOUS
  <2>2. v \in Fitted(k[1], OfMarket(S, k[2]))
    <3> HIDE DEF keys
    <3> QED  BY <1>2, <1>4, <1>6, <2>1, ParametersFit
  <2>3. OfMarket(S, k[2]) \in SUBSET Episode
    BY <1>3 DEF OfMarket
  <2>4. /\ k[1] = "calibration_map" => CalibrationHolds(v, RawPoints(OfMarket(S, k[2])))
        /\ k[1] = "ensemble_weights" => WeightsHold(v)
    BY <2>2, <2>3, FittedHolds
  <2>5. PICK row : row = Row(v)
    OBVIOUS
  <2>6. row.of = S /\ row.value = v
    BY <2>5
  <2>7. rows'[k] = Supersede(rows[k], row)
    BY <1>2, <1>6, <2>1, <2>5
  <2>8. Last(rows'[k]) = row
    BY <2>7, SupersedeLast DEF FitInv, RowsInv
  <2> QED  BY <1>3, <2>4, <2>6, <2>8 DEF RowHolds
<1> QED  BY <1>5, <1>6

LEMMA RecordKept ==
    ASSUME RecordInv, FitInv, [Next]_vars
    PROVE  RecordInv'
<1>1. BoxesStay
  BY BoxStep DEF RecordInv
<1>2. SeenInv'
  BY SeenStays
<1>3. ASSUME NEW k \in Key, rows'[k] # <<>>
      PROVE  RowHolds(k, Last(rows[k]))'
  <2>1. PICK row : row = Last(rows'[k])
    OBVIOUS
  <2>2. RowHolds(k, row)
    <3>1. CASE \E p \in {Nightly, Cli} : CommitFit(p)
      BY <1>3, <2>1, <3>1, CommitHolds
    <3>2. CASE rows' = rows
      BY <1>3, <2>1, <3>2 DEF RecordInv, FitsInv
    <3>3. (\E p \in {Nightly, Cli} : CommitFit(p)) \/ rows' = rows
      BY DEF Next, vars, tables, NightlyStep, FitStep, Load, Record, Play, ReadRecord, Evaluate,
             SkipFit, BeginFit, ReadPoints, Store, Wait, Kill
    <3> QED  BY <3>1, <3>2, <3>3
  <2>3. RowHolds(k, row)'
    BY <1>1, <2>2, RowsStay
  <2> QED  BY <2>1, <2>3
<1>4. FitsInv'
  BY <1>3 DEF FitsInv, Key, Kind, All
<1> QED  BY <1>1, <1>2, <1>4 DEF RecordInv, BoxesStay

LEMMA RecordStarts == Init => RecordInv
<1> SUFFICES ASSUME Init PROVE RecordInv
  OBVIOUS
<1>1. DOMAIN box = Market
  BY DEF Init
<1>2. \A p \in Process : job[p].seen = {}
  BY IdleIsJob DEF Init
<1>3. SeenInv
  BY <1>2 DEF SeenInv, Played
<1>4. \A k \in Key : rows[k] = <<>>
  BY DEF Init
<1> QED  BY <1>1, <1>3, <1>4 DEF RecordInv, FitsInv

\* Whatever fits overlap, wait or die, every parameter row holds what its method
\* promises of the very episodes it was fitted on.
THEOREM FitsKeepTheirPromise == Spec => []FitsHold
<1>1. RecordInv /\ IInv /\ [Next]_vars => RecordInv'
  BY RecordKept DEF IInv
<1>2. RecordInv => FitsHold
  BY DEF RecordInv, FitsInv, RowHolds, FitsHold
<1> QED  BY <1>1, <1>2, RecordStarts, Invariance, PTL DEF Spec
=============================================================================
