-------------------------- MODULE ResearchDeskProofs --------------------------
(***************************************************************************)
(* Theorems about ResearchDesk, for every number of projections, callers,  *)
(* runs and mishaps; about Feedback, what the owner answers it with, for   *)
(* every number of requests and exhibits; about Hypotheses, what the loop  *)
(* believes beside it, for every number of causes, episodes and runs; and  *)
(* about Dialogue, for every number of turns, rounds and tool calls.       *)
(*                                                                         *)
(* The invariant says what a caller has in hand: the run it completes or   *)
(* debates is a row of its projection, a run it debates has been analysed, *)
(* and data of poor quality has been refused before. The bound on what is bought counts two things together, the   *)
(* complete runs of a projection and the callers that may still add one:   *)
(* only a caller that saw no complete run joins them, at a moment when the *)
(* callers alone are counted.                                              *)
(***************************************************************************)
EXTENDS ResearchDesk, Feedback, Hypotheses, Dialogue,
        FiniteSetTheorems, SequenceTheorems, WellFoundedInduction, TLAPS

\* A caller that debates does not get past the audit of a projection whose
\* data is poor: its clock's list of refusals has them all.
Audited(j) ==
    /\ j.pat => Poor \intersect j.rest \subseteq j.shut
    /\ j.pat /\ j.at = "plan" => Poor \intersect {j.hand} \subseteq j.shut
    /\ j.pat /\ j.at \in {"claim", "insert", "agents", "debate"} => j.hand \notin Poor
    /\ j.at = "debate" => j.pat

HandOK(j) ==
    /\ Audited(j)
    /\ j.at \in {"plan", "claim", "insert", "agents", "debate"} => j.hand \in Projection
    /\ j.at \in {"agents", "debate"} =>
         /\ j.run \in Run
         /\ runs[j.run].projection = j.hand
         /\ runs[j.run].status # "unused"
    /\ j.at = "debate" => runs[j.run].heard # {}

HandsInv == \A c \in Caller : HandOK(job[c])

RowsInv == \A r \in Run :
    /\ runs[r].status = "unused" => runs[r] = NoRow
    /\ runs[r].status = "complete" => runs[r].heard # {}

IInv == TypeOK /\ HandsInv /\ RowsInv /\ ResearchIsNotRepaid /\ VerdictsAreReviewed
        /\ DebatesAreWhole

-----------------------------------------------------------------------------
(***************************************************************************)
(* What the ways a call goes on do to its job.                             *)
(***************************************************************************)
\* Only caller c moved.
Moved(c) == /\ job' \in [Caller -> Job]
            /\ \A d \in Caller : d # c => job'[d] = job[d]

LEMMA IdleIsAJob == Idle \in Job
  BY DEF Idle, Job, Steps

LEMMA RaisesMoves ==
    ASSUME TypeOK, NEW c \in Caller, Raises(c)
    PROVE  Moved(c) /\ job'[c] = Idle
  BY IdleIsAJob DEF Raises, Moved, TypeOK

LEMMA GoesToMoves ==
    ASSUME TypeOK, NEW c \in Caller, NEW step \in Steps, NEW r \in Run \union {NoRun},
           GoesTo(c, step, r)
    PROVE  /\ Moved(c)
           /\ job'[c].at = step /\ job'[c].run = r /\ job'[c].hand = job[c].hand
           /\ job'[c].pat = job[c].pat /\ job'[c].rest = job[c].rest
           /\ job'[c].shut = job[c].shut
<1>1. job[c] \in Job
  BY DEF TypeOK
<1>2. [job[c] EXCEPT !.at = step, !.run = r] \in Job
  BY <1>1 DEF Job
<1>3. job' = [job EXCEPT ![c] = [job[c] EXCEPT !.at = step, !.run = r]]
  BY DEF GoesTo, TypeOK
<1>4. job'[c] = [job[c] EXCEPT !.at = step, !.run = r]
  BY <1>3 DEF TypeOK
<1>5. Moved(c)
  BY <1>2, <1>3 DEF Moved, TypeOK
<1> QED
  BY <1>1, <1>4, <1>5 DEF Job

\* The steps of a call that do not start or end it.
LEMMA GoesToAudited ==
    ASSUME TypeOK, NEW c \in Caller, Audited(job[c]),
           NEW step \in {"insert", "agents", "debate"}, NEW r \in Run \union {NoRun},
           GoesTo(c, step, r),
           job[c].at \in {"claim", "insert", "agents"},
           step = "debate" => job[c].pat
    PROVE  Audited(job'[c])
<1>1. step \in Steps
  BY DEF Steps
<1>2. /\ job'[c].at = step /\ job'[c].hand = job[c].hand
      /\ job'[c].pat = job[c].pat /\ job'[c].rest = job[c].rest
      /\ job'[c].shut = job[c].shut
  BY <1>1, GoesToMoves
<1> QED
  BY <1>2 DEF Audited

LEMMA IdleAudited == Idle.at = "idle" /\ Audited(Idle)
  BY DEF Idle, Audited

LEMMA NextItemMoves ==
    ASSUME TypeOK, NEW c \in Caller, NextItem(c), Audited(job[c])
    PROVE  /\ Moved(c)
           /\ job'[c].at \in {"idle", "plan"}
           /\ job'[c].at = "plan" => job'[c].hand \in Projection
           /\ Audited(job'[c])
<1>1. job[c] \in Job
  BY DEF TypeOK
<1>2. CASE job' = [job EXCEPT ![c] = Idle]
  <2>1. Moved(c) /\ job'[c] = Idle
    BY <1>2, IdleIsAJob DEF Moved, TypeOK
  <2> QED
    BY <2>1, IdleAudited
<1>3. CASE \E p \in NewestOf(job[c].rest) :
             job' = [job EXCEPT ![c].at = "plan", ![c].run = NoRun,
                                ![c].hand = p, ![c].rest = @ \ {p}]
  <2>1. PICK p \in NewestOf(job[c].rest) :
             job' = [job EXCEPT ![c].at = "plan", ![c].run = NoRun,
                                ![c].hand = p, ![c].rest = @ \ {p}]
    BY <1>3
  <2> DEFINE j == [job[c] EXCEPT !.at = "plan", !.run = NoRun, !.hand = p,
                                 !.rest = @ \ {p}]
  <2>2. p \in Projection
    BY <1>1, <2>1 DEF NewestOf, Job
  <2>3. /\ j \in Job /\ j.at = "plan" /\ j.hand = p
        /\ j.pat = job[c].pat /\ j.shut = job[c].shut /\ j.rest = job[c].rest \ {p}
    BY <1>1, <2>2 DEF Job, Steps
  <2>4. job' = [job EXCEPT ![c] = j]
    BY <2>1 DEF TypeOK
  <2> HIDE DEF j
  <2>5. Audited(j)
    <3>1. p \in job[c].rest
      BY <2>1 DEF NewestOf
    <3> QED
      BY <2>3, <3>1 DEF Audited
  <2> QED
    BY <2>2, <2>3, <2>4, <2>5 DEF Moved, TypeOK
<1> QED
  BY <1>2, <1>3 DEF NextItem

LEMMA WithBaseMoves ==
    ASSUME TypeOK, NEW c \in Caller, NEW r \in Run, WithBase(c, r),
           Audited(job[c]), job[c].at \in {"claim", "agents"}
    PROVE  /\ Audited(job'[c])
           /\ Moved(c)
           /\ job'[c].at \in {"idle", "plan", "debate"}
           /\ job'[c].at = "plan" => job'[c].hand \in Projection
           /\ job'[c].at = "debate" => job'[c].run = r /\ job'[c].hand = job[c].hand
<1>1. CASE job[c].pat
  <2>1. GoesTo(c, "debate", r) /\ "debate" \in Steps
    BY <1>1 DEF WithBase, Steps
  <2>2. Audited(job'[c])
    BY <1>1, <2>1, GoesToAudited
  <2> QED
    BY <2>1, <2>2, GoesToMoves
<1>2. CASE ~job[c].pat
  BY <1>2, NextItemMoves DEF WithBase
<1> QED
  BY <1>1, <1>2

-----------------------------------------------------------------------------
(***************************************************************************)
(* Hands and rows.                                                         *)
(***************************************************************************)
\* What no step does to a row that is in use.
RowsAdvance ==
    \A r \in Run : runs[r].status # "unused" =>
        /\ runs'[r].projection = runs[r].projection
        /\ runs'[r].status # "unused"
        /\ runs[r].heard # {} => runs'[r].heard # {}

LEMMA HandsAreAudited ==
    ASSUME HandsInv, NEW c \in Caller
    PROVE  Audited(job[c])
  BY DEF HandsInv, HandOK

\* The other callers keep what they have in hand.
LEMMA OthersKeepTheirHands ==
    ASSUME HandsInv, RowsAdvance, NEW c \in Caller, Moved(c), HandOK(job[c])'
    PROVE  HandsInv'
<1> SUFFICES ASSUME NEW d \in Caller PROVE HandOK(job[d])'
  BY DEF HandsInv
<1>1. CASE d = c
  BY <1>1
<1>2. CASE d # c
  <2>1. job'[d] = job[d] /\ HandOK(job[d])
    BY <1>2 DEF Moved, HandsInv
  <2> QED
    BY <2>1 DEF HandOK, RowsAdvance
<1> QED
  BY <1>1, <1>2

LEMMA SameRowsAdvance ==
    ASSUME UNCHANGED runs
    PROVE  RowsAdvance
  BY DEF RowsAdvance

-----------------------------------------------------------------------------
(***************************************************************************)
(* Typing, hands and rows, action by action.                               *)
(***************************************************************************)
Shape == TypeOK /\ HandsInv /\ RowsInv

LEMMA MishapTyped ==
    ASSUME TypeOK, NEW costly \in BOOLEAN, Mishap(costly)
    PROVE  mishaps' \in 0 .. MaxMishaps /\ asks' \in 0 .. MaxAsks
  BY DeskAssumption DEF Mishap, TypeOK

\* A step that leaves the tables alone and moves one caller to a good hand.
LEMMA JobStepKeepsShape ==
    ASSUME Shape, NEW c \in Caller, Moved(c), UNCHANGED <<Tables, market>>,
           mishaps' \in 0 .. MaxMishaps, asks' \in 0 .. MaxAsks, HandOK(job[c])'
    PROVE  Shape' /\ RowsAdvance
<1>1. RowsAdvance
  BY SameRowsAdvance DEF Tables
<1>2. HandsInv'
  BY <1>1, OthersKeepTheirHands DEF Shape
<1>3. TypeOK'
  BY DEF Shape, TypeOK, Tables, Moved
<1>4. RowsInv'
  BY DEF Shape, RowsInv, Tables
<1> QED
  BY <1>1, <1>2, <1>3, <1>4 DEF Shape

LEMMA RaisesKeepsShape ==
    ASSUME Shape, NEW c \in Caller, Raises(c), UNCHANGED <<Tables, market>>,
           mishaps' \in 0 .. MaxMishaps, asks' \in 0 .. MaxAsks
    PROVE  Shape' /\ RowsAdvance
<1>1. Moved(c) /\ job'[c] = Idle
  BY RaisesMoves DEF Shape
<1>2. HandOK(job[c])'
  BY <1>1, IdleAudited DEF HandOK
<1> QED
  BY <1>1, <1>2, JobStepKeepsShape

LEMMA BudgetsTyped ==
    ASSUME TypeOK, UNCHANGED Budgets
    PROVE  mishaps' \in 0 .. MaxMishaps /\ asks' \in 0 .. MaxAsks
  BY DEF TypeOK, Budgets

LEMMA SelectKeepsShape ==
    ASSUME Shape, SelectTriggered
    PROVE  Shape' /\ RowsAdvance
<1>1. Timer \in Caller /\ mishaps' \in 0 .. MaxMishaps /\ asks' \in 0 .. MaxAsks
  BY BudgetsTyped DEF Shape, SelectTriggered, Caller
<1>2. CASE Selected = {} /\ job' = [job EXCEPT ![Timer] = Idle]
  BY <1>1, <1>2, RaisesKeepsShape DEF SelectTriggered, Raises
<1>3. CASE \E p \in NewestOf(Selected) :
            job' = [job EXCEPT ![Timer] =
                      [Idle EXCEPT !.at = "plan", !.hand = p, !.rest = Selected \ {p},
                                   !.pat = TRUE, !.shut = Unfit \intersect Selected]]
  <2>1. PICK p \in NewestOf(Selected) :
            job' = [job EXCEPT ![Timer] =
                      [Idle EXCEPT !.at = "plan", !.hand = p, !.rest = Selected \ {p},
                                   !.pat = TRUE, !.shut = Unfit \intersect Selected]]
    BY <1>3
  <2> DEFINE j == [Idle EXCEPT !.at = "plan", !.hand = p, !.rest = Selected \ {p},
                               !.pat = TRUE, !.shut = Unfit \intersect Selected]
  <2>2. p \in Projection /\ p \in Selected /\ Selected \subseteq Projection
    BY <2>1 DEF NewestOf, Selected, Newest
  <2>3. /\ j \in Job /\ j.at = "plan" /\ j.hand = p
        /\ j.rest = Selected \ {p} /\ j.shut = Unfit \intersect Selected
    BY <2>2 DEF Job, Steps, Idle
  <2>4. job' = [job EXCEPT ![Timer] = j]
    BY <2>1
  <2> HIDE DEF j
  <2>5. Moved(Timer) /\ job'[Timer] = j
    BY <1>1, <2>3, <2>4 DEF Moved, Shape, TypeOK
  <2>6. Audited(j)
    <3>1. Poor \intersect Selected \subseteq Unfit
      BY <2>2 DEF Unfit
    <3> QED
      BY <2>2, <2>3, <3>1 DEF Audited
  <2>7. HandOK(job[Timer])'
    BY <2>2, <2>3, <2>5, <2>6 DEF HandOK
  <2> QED
    BY <1>1, <2>5, <2>7, JobStepKeepsShape DEF SelectTriggered
<1> QED
  BY <1>2, <1>3 DEF SelectTriggered

LEMMA HumanAsksKeepsShape ==
    ASSUME Shape, NEW h \in Human, NEW p \in Projection, NEW pat \in BOOLEAN,
           HumanAsks(h, p, pat)
    PROVE  Shape' /\ RowsAdvance
<1> DEFINE j == [Idle EXCEPT !.at = IF pat THEN "plan" ELSE "claim", !.hand = p,
                             !.pat = pat,
                             !.shut = (IF pat THEN Unfit ELSE Locked) \intersect {p}]
<1>1. h \in Caller /\ mishaps' \in 0 .. MaxMishaps /\ asks' \in 0 .. MaxAsks
  BY DeskAssumption DEF Shape, TypeOK, HumanAsks, Caller
<1>2. /\ j \in Job /\ j.hand = p /\ j.rest = {} /\ j.pat = pat
      /\ j.at = IF pat THEN "plan" ELSE "claim"
      /\ pat => j.shut = Unfit \intersect {p}
  BY DEF Job, Steps, Idle
<1>3. job' = [job EXCEPT ![h] = j]
  BY DEF HumanAsks
<1> HIDE DEF j
<1>4. Moved(h) /\ job'[h] = j
  BY <1>1, <1>2, <1>3 DEF Moved, Shape, TypeOK
<1>5. Audited(j)
  BY <1>2 DEF Audited, Unfit
<1>6. HandOK(job[h])'
  BY <1>2, <1>4, <1>5 DEF HandOK
<1> QED
  BY <1>1, <1>4, <1>6, JobStepKeepsShape DEF HumanAsks

LEMMA PlanKeepsShape ==
    ASSUME Shape, NEW c \in Caller, PlanAndAudit(c)
    PROVE  Shape' /\ RowsAdvance
<1>1. mishaps' \in 0 .. MaxMishaps /\ asks' \in 0 .. MaxAsks
  BY BudgetsTyped DEF Shape, PlanAndAudit
<1>2. CASE NextItem(c)
  <2>1. /\ Moved(c) /\ job'[c].at \in {"idle", "plan"}
        /\ job'[c].at = "plan" => job'[c].hand \in Projection
        /\ Audited(job'[c])
    BY <1>2, NextItemMoves, HandsAreAudited DEF Shape
  <2>2. HandOK(job[c])'
    BY <2>1 DEF HandOK
  <2> QED
    BY <1>1, <2>1, <2>2, JobStepKeepsShape DEF PlanAndAudit
<1>3. CASE job[c].hand \notin job[c].shut /\ GoesTo(c, "claim", NoRun)
  <2>1. "claim" \in Steps /\ NoRun \in Run \union {NoRun}
    BY DEF Steps
  <2>2. /\ Moved(c) /\ job'[c].at = "claim" /\ job'[c].hand = job[c].hand
        /\ job'[c].pat = job[c].pat /\ job'[c].rest = job[c].rest
        /\ job'[c].shut = job[c].shut
    BY <1>3, <2>1, GoesToMoves DEF Shape
  <2>3. Audited(job'[c])
    BY <1>3, <2>2, HandsAreAudited DEF Audited, Shape, PlanAndAudit
  <2>4. HandOK(job[c])'
    BY <2>2, <2>3 DEF HandOK, Shape, HandsInv, PlanAndAudit
  <2> QED
    BY <1>1, <2>2, <2>4, JobStepKeepsShape DEF PlanAndAudit
<1> QED
  BY <1>2, <1>3 DEF PlanAndAudit

\* Where the reads of _prepare lead.
LEMMA ReadRunsLeads ==
    ASSUME Shape, NEW c \in Caller, ReadRuns(c)
    PROVE  /\ Moved(c) /\ Audited(job'[c])
           /\ \/ job'[c] = Idle
              \/ job'[c].at = "idle"
              \/ job'[c].at = "plan" /\ job'[c].hand \in Projection
              \/ /\ job'[c].at = "debate" /\ job'[c].hand = job[c].hand
                 /\ job'[c].run \in Complete(job[c].hand)
              \/ /\ job'[c].at = "insert" /\ job'[c].hand = job[c].hand
                 /\ Complete(job[c].hand) = {}
<1> DEFINE p == job[c].hand
<1>0. Audited(job[c]) /\ job[c].at = "claim"
  BY HandsAreAudited DEF Shape, ReadRuns
<1>1. CASE Raises(c)
  BY <1>1, RaisesMoves, IdleAudited DEF Shape
<1>2. ASSUME NEW r \in Stored(p), WithBase(c, r)
      PROVE  /\ Moved(c) /\ Audited(job'[c])
             /\ \/ job'[c].at = "idle"
                \/ job'[c].at = "plan" /\ job'[c].hand \in Projection
                \/ job'[c].at = "debate" /\ job'[c].hand = p /\ job'[c].run \in Complete(p)
  <2>1. r \in Run /\ r \in Complete(p)
    BY DEF Stored, Complete, RunsOf
  <2> QED
    BY <1>2, <1>0, <2>1, WithBaseMoves DEF Shape
<1>3. ASSUME Stored(p) = {}, NEW r \in Run \union {NoRun}, GoesTo(c, "insert", r)
      PROVE  /\ Moved(c) /\ Audited(job'[c])
             /\ job'[c].at = "insert" /\ job'[c].hand = p /\ Complete(p) = {}
  <2>1. "insert" \in Steps
    BY DEF Steps
  <2>2. Audited(job'[c])
    BY <1>3, <1>0, GoesToAudited DEF Shape
  <2> QED
    BY <1>3, <2>1, <2>2, GoesToMoves DEF Shape, Stored
<1>4. \/ Raises(c)
      \/ \E r \in Stored(p) : WithBase(c, r)
      \/ Stored(p) = {} /\ GoesTo(c, "insert", NoRun)
      \/ \E r \in InFlight(p) : Stored(p) = {} /\ GoesTo(c, "insert", r)
  BY DEF ReadRuns
<1>5. InFlight(p) \subseteq Run
  BY DEF InFlight, RunsOf
<1> QED
  BY <1>1, <1>2, <1>3, <1>4, <1>5

LEMMA ReadRunsKeepsShape ==
    ASSUME Shape, NEW c \in Caller, ReadRuns(c)
    PROVE  Shape' /\ RowsAdvance
<1>1. mishaps' \in 0 .. MaxMishaps /\ asks' \in 0 .. MaxAsks
  BY BudgetsTyped DEF Shape, ReadRuns
<1>2. job[c].hand \in Projection /\ UNCHANGED <<Tables, market>>
  BY DEF Shape, HandsInv, HandOK, ReadRuns
<1>3. ASSUME NEW r \in Complete(job[c].hand)
      PROVE  /\ r \in Run /\ runs[r].projection = job[c].hand
             /\ runs[r].status # "unused" /\ runs[r].heard # {}
  BY DEF Complete, RunsOf, Shape, RowsInv
<1>4. runs' = runs
  BY <1>2 DEF Tables
<1>5. HandOK(job[c])'
  BY <1>2, <1>3, <1>4, ReadRunsLeads, IdleAudited DEF HandOK
<1> QED
  BY <1>1, <1>2, <1>5, ReadRunsLeads, JobStepKeepsShape

\* The rows a step changes: fields of rows in use, and an unused row started.
LEMMA RefreshKeepsShape ==
    ASSUME Shape, RefreshMemory
    PROVE  Shape' /\ RowsAdvance
<1> DEFINE row(r) == IF Expires(r) THEN [runs[r] EXCEPT !.claims = "expired"] ELSE runs[r]
           j == [job[Timer] EXCEPT !.at = "select"]
<1>1. Timer \in Caller /\ mishaps' \in 0 .. MaxMishaps /\ asks' \in 0 .. MaxAsks
  BY BudgetsTyped DEF Shape, RefreshMemory, Caller
<1>2. ASSUME NEW r \in Run
      PROVE  /\ runs'[r] \in RunRow
             /\ runs'[r].projection = runs[r].projection
             /\ runs'[r].status = runs[r].status /\ runs'[r].heard = runs[r].heard
             /\ runs[r] = NoRow => runs'[r] = NoRow
  <2>1. runs[r] \in RunRow /\ runs'[r] = row(r)
    BY DEF Shape, TypeOK, RefreshMemory
  <2>2. CASE Expires(r)
    <3>1. runs'[r] = [runs[r] EXCEPT !.claims = "expired"] /\ runs[r].claims = "proposed"
      BY <2>1, <2>2 DEF Expires, Lapsed
    <3> QED
      BY <2>1, <3>1 DEF RunRow, NoRow
  <2>3. CASE ~Expires(r)
    BY <2>1, <2>3
  <2> QED
    BY <2>2, <2>3
<1>3. runs' \in [Run -> RunRow]
  BY <1>2 DEF RefreshMemory
<1>4. RowsAdvance
  BY <1>2 DEF RowsAdvance
<1>5. /\ j \in Job /\ j.at = "select" /\ j.pat = job[Timer].pat
      /\ j.rest = job[Timer].rest /\ j.shut = job[Timer].shut
  BY <1>1 DEF Shape, TypeOK, Job, Steps
<1>6. job' = [job EXCEPT ![Timer] = j]
  BY <1>1 DEF RefreshMemory, Shape, TypeOK
<1> HIDE DEF row, j
<1>7. Moved(Timer) /\ job'[Timer] = j
  BY <1>1, <1>5, <1>6 DEF Moved, Shape, TypeOK
<1>8. HandsInv'
  <2>1. Audited(j)
    BY <1>1, <1>5, HandsAreAudited DEF Audited, Shape
  <2>2. HandOK(job[Timer])'
    BY <1>5, <1>7, <2>1 DEF HandOK
  <2> QED
    BY <1>1, <1>4, <1>7, <2>2, OthersKeepTheirHands DEF Shape
<1>9. TypeOK'
  BY <1>1, <1>3, <1>7 DEF Shape, TypeOK, RefreshMemory, Moved
<1>10. RowsInv'
  BY <1>2 DEF Shape, RowsInv
<1> QED
  BY <1>4, <1>8, <1>9, <1>10 DEF Shape

LEMMA FreshIsUnused ==
    ASSUME NEW r \in Fresh
    PROVE  r \in Run /\ runs[r].status = "unused"
  BY DEF Fresh

\* What the writes of _prepare leave in the rows.
LEMMA ClaimedRows ==
    ASSUME Shape, NEW c \in Caller, ClaimRun(c)
    PROVE  \E r \in Run :
             /\ runs[r] = NoRow
             /\ runs' \in [Run -> RunRow]
             /\ runs'[r] = Started(job[c].hand)
             /\ \A s \in Run \ {r} :
                  \/ runs'[s] = runs[s]
                  \/ s = job[c].run /\ runs'[s] = [runs[s] EXCEPT !.status = "failed"]
             /\ Moved(c) /\ job'[c].at = "agents" /\ job'[c].run = r
             /\ job'[c].hand = job[c].hand /\ Audited(job'[c])
<1>1. PICK r \in Fresh :
         /\ runs' = [s \in Run |->
                       IF s = r THEN Started(job[c].hand)
                       ELSE IF s = job[c].run THEN [runs[s] EXCEPT !.status = "failed"]
                       ELSE runs[s]]
         /\ GoesTo(c, "agents", r)
  BY DEF ClaimRun
<1>2. r \in Run /\ runs[r] = NoRow
  BY FreshIsUnused DEF Shape, RowsInv
<1>3. job[c].hand \in Projection
  BY DEF Shape, HandsInv, HandOK, ClaimRun
<1>4. Started(job[c].hand) \in RunRow
  BY <1>3 DEF Started, NoRow, RunRow
<1>5. ASSUME NEW s \in Run PROVE [runs[s] EXCEPT !.status = "failed"] \in RunRow
  BY DEF Shape, TypeOK, RunRow
<1>6. runs' \in [Run -> RunRow]
  BY <1>1, <1>4, <1>5 DEF Shape, TypeOK
<1>7. Moved(c) /\ job'[c].at = "agents" /\ job'[c].run = r /\ job'[c].hand = job[c].hand
  <2>1. "agents" \in Steps
    BY DEF Steps
  <2> QED
    BY <1>1, <1>2, <2>1, GoesToMoves DEF Shape
<1>8. Audited(job'[c])
  <2>1. Audited(job[c]) /\ job[c].at = "insert"
    BY HandsAreAudited DEF Shape, ClaimRun
  <2> QED
    BY <1>1, <1>2, <2>1, GoesToAudited DEF Shape
<1> QED
  BY <1>1, <1>2, <1>6, <1>7, <1>8

LEMMA ClaimSpendsNothing ==
    ASSUME Shape, NEW c \in Caller, ClaimRun(c)
    PROVE  mishaps' \in 0 .. MaxMishaps /\ asks' \in 0 .. MaxAsks
  BY BudgetsTyped DEF Shape, ClaimRun

LEMMA ClaimKeepsShape ==
    ASSUME Shape, NEW c \in Caller, ClaimRun(c)
    PROVE  Shape' /\ RowsAdvance
<1>1. PICK r \in Run :
         /\ runs[r] = NoRow
         /\ runs' \in [Run -> RunRow]
         /\ runs'[r] = Started(job[c].hand)
         /\ \A s \in Run \ {r} :
              \/ runs'[s] = runs[s]
              \/ s = job[c].run /\ runs'[s] = [runs[s] EXCEPT !.status = "failed"]
         /\ Moved(c) /\ job'[c].at = "agents" /\ job'[c].run = r
         /\ job'[c].hand = job[c].hand /\ Audited(job'[c])
  BY ClaimedRows
<1>2. /\ runs'[r].projection = job[c].hand /\ runs'[r].status = "running"
      /\ runs[r].status = "unused"
  BY <1>1 DEF Started, NoRow
<1>3. ASSUME NEW s \in Run, s # r
      PROVE  /\ runs'[s].projection = runs[s].projection /\ runs'[s].heard = runs[s].heard
             /\ runs'[s] = runs[s] \/ runs'[s].status = "failed"
  <2>1. runs[s] \in RunRow
    BY DEF Shape, TypeOK
  <2>2. CASE runs'[s] = runs[s]
    BY <2>2
  <2>3. CASE runs'[s] = [runs[s] EXCEPT !.status = "failed"]
    BY <2>1, <2>3 DEF RunRow
  <2> QED
    BY <1>1, <1>3, <2>2, <2>3
<1>4. RowsAdvance
  BY <1>2, <1>3 DEF RowsAdvance
<1>5. RowsInv'
  BY <1>2, <1>3 DEF Shape, RowsInv
<1>6. job[c].hand \in Projection
  BY DEF Shape, HandsInv, HandOK, ClaimRun
<1>7. HandOK(job[c])'
  BY <1>1, <1>2, <1>6 DEF HandOK
<1>8. HandsInv'
  BY <1>1, <1>4, <1>7, OthersKeepTheirHands DEF Shape
<1>9. TypeOK'
  BY <1>1, ClaimSpendsNothing DEF Shape, TypeOK, ClaimRun, Moved
<1> QED
  BY <1>4, <1>5, <1>8, <1>9 DEF Shape

\* What a round leaves in the row of its run.
LEMMA PersistedRow ==
    ASSUME Shape, NEW c \in Caller, PersistRound(c)
    PROVE  /\ job[c].run \in Run /\ job[c].hand \in Projection
           /\ runs' \in [Run -> RunRow]
           /\ runs'[job[c].run].status = "complete"
           /\ runs'[job[c].run].projection = job[c].hand
           /\ runs[job[c].run].projection = job[c].hand
           /\ runs'[job[c].run].heard \ {Skeptic} # {}
           /\ runs'[job[c].run].verdict => Skeptic \in runs'[job[c].run].heard
           /\ \A s \in Run : s # job[c].run => runs'[s] = runs[s]
           /\ mishaps' \in 0 .. MaxMishaps /\ asks' \in 0 .. MaxAsks
<1> DEFINE r == job[c].run
<1>1. /\ r \in Run /\ job[c].hand \in Projection /\ runs[r] \in RunRow
      /\ runs[r].projection = job[c].hand
  BY DEF Shape, TypeOK, HandsInv, HandOK, PersistRound
<1>2. PICK heard \in (SUBSET Analyst) \ {{}}, reviewed \in BOOLEAN :
         /\ runs' = [runs EXCEPT ![r] =
                       [@ EXCEPT !.status = "complete", !.verdict = HasVerdict(reviewed),
                                 !.heard = heard \union {s \in {Skeptic} : reviewed},
                                 !.claims = "proposed"]]
         /\ Mishap(heard # Analyst \/ ~reviewed)
  BY DEF PersistRound
<1> DEFINE row == [runs[r] EXCEPT !.status = "complete", !.verdict = HasVerdict(reviewed),
                                 !.heard = heard \union {s \in {Skeptic} : reviewed},
                                 !.claims = "proposed"]
<1>3. heard \union {s \in {Skeptic} : reviewed} \in SUBSET (Analyst \union {Skeptic})
  OBVIOUS
<1>4. /\ row \in RunRow /\ row.status = "complete" /\ row.projection = runs[r].projection
      /\ row.verdict = reviewed
      /\ row.heard = heard \union {s \in {Skeptic} : reviewed}
  BY <1>1, <1>3 DEF RunRow, HasVerdict
<1>5. row.heard \ {Skeptic} # {}
  BY <1>4, DeskAssumption
<1>6. row.verdict => Skeptic \in row.heard
  BY <1>4
<1>7. runs' = [runs EXCEPT ![r] = row]
  BY <1>2
<1> HIDE DEF row
<1>8. mishaps' \in 0 .. MaxMishaps /\ asks' \in 0 .. MaxAsks
  <2>1. (heard # Analyst \/ ~reviewed) \in BOOLEAN
    OBVIOUS
  <2> QED
    BY <1>2, <2>1, MishapTyped DEF Shape
<1>9. runs' \in [Run -> RunRow] /\ runs'[r] = row /\ \A s \in Run : s # r => runs'[s] = runs[s]
  BY <1>1, <1>4, <1>7 DEF Shape, TypeOK
<1> QED
  BY <1>1, <1>4, <1>5, <1>6, <1>8, <1>9

LEMMA PersistKeepsShape ==
    ASSUME Shape, NEW c \in Caller, PersistRound(c)
    PROVE  Shape' /\ RowsAdvance
<1> DEFINE r == job[c].run
<1>1. /\ r \in Run /\ job[c].hand \in Projection
      /\ runs' \in [Run -> RunRow]
      /\ runs'[r].status = "complete" /\ runs'[r].projection = job[c].hand
      /\ runs[r].projection = job[c].hand
      /\ runs'[r].heard # {}
      /\ \A s \in Run : s # r => runs'[s] = runs[s]
      /\ mishaps' \in 0 .. MaxMishaps /\ asks' \in 0 .. MaxAsks
  BY PersistedRow
<1>2. WithBase(c, r) /\ UNCHANGED <<debates, researched, market>>
  BY DEF PersistRound
<1>3. /\ Moved(c)
      /\ job'[c].at \in {"idle", "plan", "debate"}
      /\ job'[c].at = "plan" => job'[c].hand \in Projection
      /\ job'[c].at = "debate" => job'[c].run = r /\ job'[c].hand = job[c].hand
      /\ Audited(job'[c])
  BY <1>1, <1>2, WithBaseMoves, HandsAreAudited DEF Shape, PersistRound
<1> HIDE DEF r
<1>4. RowsAdvance
  BY <1>1 DEF RowsAdvance, r
<1>5. HandOK(job[c])'
  BY <1>1, <1>3 DEF HandOK
<1>6. HandsInv'
  BY <1>3, <1>4, <1>5, OthersKeepTheirHands DEF Shape
<1>7. RowsInv'
  BY <1>1 DEF Shape, RowsInv
<1>8. TypeOK'
  BY <1>1, <1>2, <1>3 DEF Shape, TypeOK, Moved
<1> QED
  BY <1>4, <1>6, <1>7, <1>8 DEF Shape

LEMMA MarkFailedKeepsShape ==
    ASSUME Shape, NEW c \in Caller, MarkFailed(c)
    PROVE  /\ Shape' /\ RowsAdvance
           /\ Moved(c) /\ job'[c] = Idle
           /\ \A s \in Run :
                /\ runs'[s].heard = runs[s].heard /\ runs'[s].projection = runs[s].projection
                /\ runs'[s].verdict = runs[s].verdict
                /\ runs'[s].status = "complete" => runs[s].status = "complete"
<1> DEFINE r == job[c].run
           row == [runs[r] EXCEPT !.status = "failed"]
<1>1. r \in Run /\ runs[r] \in RunRow
  BY DEF Shape, TypeOK, HandsInv, HandOK, MarkFailed
<1>2. /\ row \in RunRow /\ row.status = "failed" /\ row.heard = runs[r].heard
      /\ row.projection = runs[r].projection /\ row.verdict = runs[r].verdict
  BY <1>1 DEF RunRow
<1>3. runs' = [runs EXCEPT ![r] = row]
  BY <1>1 DEF MarkFailed, Shape, TypeOK
<1> HIDE DEF row, r
<1>4. /\ runs' \in [Run -> RunRow] /\ runs'[r] = row
      /\ \A s \in Run : s # r => runs'[s] = runs[s]
  BY <1>1, <1>2, <1>3 DEF Shape, TypeOK
<1>5. \A s \in Run :
        /\ runs'[s].heard = runs[s].heard /\ runs'[s].projection = runs[s].projection
        /\ runs'[s].verdict = runs[s].verdict
        /\ runs'[s].status = "complete" => runs[s].status = "complete"
  BY <1>2, <1>4
<1>6. RowsAdvance
  BY <1>1, <1>2, <1>4, <1>5 DEF RowsAdvance
<1>7. Moved(c) /\ job'[c] = Idle
  BY RaisesMoves DEF Shape, MarkFailed
<1>8. HandsInv'
  <2>1. HandOK(job[c])'
    BY <1>7, IdleAudited DEF HandOK
  <2> QED
    BY <1>6, <1>7, <2>1, OthersKeepTheirHands DEF Shape
<1>9. TypeOK'
  BY <1>4, <1>7, MishapTyped DEF Shape, TypeOK, MarkFailed, Moved
<1>10. RowsInv'
  BY <1>1, <1>2, <1>4, <1>5 DEF Shape, RowsInv
<1> QED
  BY <1>5, <1>6, <1>7, <1>8, <1>9, <1>10 DEF Shape

\* What a debate leaves in the tables.
LEMMA DebatedRows ==
    ASSUME Shape, NEW c \in Caller, Debate(c)
    PROVE  \E round1, round2 \in SUBSET Analyst :
             LET r == job[c].run
                 row == [round1 |-> round1, round2 |-> round2,
                         synthesis |-> Outcome(job[c].hand, round2)]
             IN  /\ r \in Run /\ job[c].hand \in Projection \ Poor
                 /\ runs[r].projection = job[c].hand
                 /\ runs[r].status # "unused" /\ runs[r].heard # {}
                 /\ debates[r].synthesis = "none"
                 /\ debates' \in [Run -> DebateRow] /\ debates'[r] = row
                 /\ \A s \in Run : s # r => debates'[s] = debates[s] /\ runs'[s] = runs[s]
                 /\ runs' \in [Run -> RunRow]
                 /\ runs'[r].projection = runs[r].projection
                 /\ runs'[r].status = runs[r].status
                 /\ runs'[r].verdict = runs[r].verdict
                 /\ runs[r].heard \subseteq runs'[r].heard
                 /\ researched' = researched \union {<<job[c].hand, r>>}
                 /\ mishaps' \in 0 .. MaxMishaps /\ asks' \in 0 .. MaxAsks
<1> DEFINE r == job[c].run
<1>1. /\ r \in Run /\ job[c].hand \in Projection \ Poor /\ runs[r] \in RunRow
      /\ runs[r].projection = job[c].hand /\ runs[r].heard # {}
      /\ runs[r].status # "unused"
  BY DEF Shape, TypeOK, HandsInv, HandOK, Audited, Debate
<1>2. PICK round1, round2 \in SUBSET Analyst, reviewed \in BOOLEAN :
         /\ debates' = [debates EXCEPT ![r] =
                           [round1 |-> round1, round2 |-> round2,
                            synthesis |-> Outcome(job[c].hand, round2)]]
         /\ runs' = [runs EXCEPT ![r].heard = @ \union {s \in {Skeptic} : reviewed}]
         /\ Mishap(round1 # Analyst \/ round2 # Analyst \/ ~reviewed)
  BY DEF Debate
<1> DEFINE row == [round1 |-> round1, round2 |-> round2,
                   synthesis |-> Outcome(job[c].hand, round2)]
           run == [runs[r] EXCEPT !.heard = @ \union {s \in {Skeptic} : reviewed}]
<1>3. row \in DebateRow
  BY DEF DebateRow, Dispositions, Outcome
<1>4. /\ run \in RunRow /\ run.projection = runs[r].projection
      /\ run.status = runs[r].status /\ run.verdict = runs[r].verdict
      /\ runs[r].heard \subseteq run.heard
  <2>1. runs[r].heard \union {s \in {Skeptic} : reviewed} \in SUBSET (Analyst \union {Skeptic})
    BY <1>1 DEF RunRow
  <2> QED
    BY <1>1, <2>1 DEF RunRow
<1>5. runs' = [runs EXCEPT ![r] = run] /\ debates' = [debates EXCEPT ![r] = row]
  BY <1>1, <1>2 DEF Shape, TypeOK
<1>6. mishaps' \in 0 .. MaxMishaps /\ asks' \in 0 .. MaxAsks
  <2>1. (round1 # Analyst \/ round2 # Analyst \/ ~reviewed) \in BOOLEAN
    OBVIOUS
  <2> QED
    BY <1>2, <2>1, MishapTyped DEF Shape
<1>7. debates[r].synthesis = "none" /\ researched' = researched \union {<<job[c].hand, r>>}
  BY DEF Debate, AlreadyDebated
<1> HIDE DEF run, row
<1>8. /\ debates' \in [Run -> DebateRow] /\ debates'[r] = row
      /\ \A s \in Run : s # r => debates'[s] = debates[s] /\ runs'[s] = runs[s]
      /\ runs' \in [Run -> RunRow] /\ runs'[r] = run
  BY <1>1, <1>3, <1>4, <1>5 DEF Shape, TypeOK
<1> USE DEF row
<1> WITNESS round1 \in SUBSET Analyst, round2 \in SUBSET Analyst
<1> QED
  BY <1>1, <1>4, <1>6, <1>7, <1>8

LEMMA DebateKeepsShape ==
    ASSUME Shape, NEW c \in Caller, Debate(c)
    PROVE  Shape' /\ RowsAdvance
<1> DEFINE r == job[c].run
<1>1. /\ r \in Run /\ job[c].hand \in Projection
      /\ runs[r].status # "unused" /\ runs[r].heard # {}
      /\ debates' \in [Run -> DebateRow]
      /\ \A s \in Run : s # r => runs'[s] = runs[s]
      /\ runs' \in [Run -> RunRow]
      /\ runs'[r].projection = runs[r].projection
      /\ runs'[r].status = runs[r].status
      /\ runs[r].heard \subseteq runs'[r].heard
      /\ researched' = researched \union {<<job[c].hand, r>>}
      /\ mishaps' \in 0 .. MaxMishaps /\ asks' \in 0 .. MaxAsks
  BY DebatedRows
<1> HIDE DEF r
<1>2. RowsAdvance
  BY <1>1 DEF RowsAdvance
<1>3. /\ Moved(c) /\ job'[c].at \in {"idle", "plan"}
      /\ job'[c].at = "plan" => job'[c].hand \in Projection
      /\ Audited(job'[c])
  BY NextItemMoves, HandsAreAudited DEF Shape, Debate
<1>4. HandsInv'
  <2>1. HandOK(job[c])'
    BY <1>3 DEF HandOK
  <2> QED
    BY <1>2, <1>3, <2>1, OthersKeepTheirHands DEF Shape
<1>5. RowsInv'
  <2> SUFFICES ASSUME NEW s \in Run
               PROVE  /\ runs'[s].status = "unused" => runs'[s] = NoRow
                      /\ runs'[s].status = "complete" => runs'[s].heard # {}
    BY DEF RowsInv
  <2> QED
    BY <1>1 DEF Shape, RowsInv
<1>6. market' = market
  BY DEF Debate
<1>7. TypeOK'
  BY <1>1, <1>3, <1>6 DEF Shape, TypeOK, Moved
<1> QED
  BY <1>2, <1>4, <1>5, <1>7 DEF Shape

\* The steps that end a call and leave the tables alone.
LEMMA EndingsKeepShape ==
    ASSUME Shape, NEW c \in Caller, DebateCollides(c) \/ DraftRaises(c) \/ Die(c)
    PROVE  /\ Shape' /\ RowsAdvance /\ UNCHANGED Tables
           /\ Moved(c) /\ job'[c] = Idle
<1>1. Raises(c) /\ UNCHANGED <<Tables, market>>
  BY DEF DebateCollides, DraftRaises, Die
<1>2. mishaps' \in 0 .. MaxMishaps /\ asks' \in 0 .. MaxAsks
  BY BudgetsTyped, MishapTyped DEF Shape, DebateCollides, DraftRaises, Die
<1> QED
  BY <1>1, <1>2, RaisesKeepsShape, RaisesMoves DEF Shape

LEMMA GrowStaleKeepsShape ==
    ASSUME Shape, NEW r \in Run, GrowStale(r)
    PROVE  /\ Shape' /\ RowsAdvance
           /\ \A s \in Run :
                /\ runs'[s].heard = runs[s].heard /\ runs'[s].projection = runs[s].projection
                /\ runs'[s].verdict = runs[s].verdict
                /\ runs'[s].status = "complete" => runs[s].status = "complete"
<1> DEFINE row == [runs[r] EXCEPT !.status = "overdue"]
<1>1. runs[r] \in RunRow /\ runs[r].status = "running"
  BY DEF Shape, TypeOK, GrowStale
<1>2. /\ row \in RunRow /\ row.status = "overdue" /\ row.heard = runs[r].heard
      /\ row.projection = runs[r].projection /\ row.verdict = runs[r].verdict
  BY <1>1 DEF RunRow
<1>3. runs' = [runs EXCEPT ![r] = row]
  BY DEF GrowStale, Shape, TypeOK
<1> HIDE DEF row
<1>4. runs' \in [Run -> RunRow] /\ runs'[r] = row /\ \A s \in Run : s # r => runs'[s] = runs[s]
  BY <1>2, <1>3 DEF Shape, TypeOK
<1>5. \A s \in Run :
        /\ runs'[s].heard = runs[s].heard /\ runs'[s].projection = runs[s].projection
        /\ runs'[s].verdict = runs[s].verdict
        /\ runs'[s].status = "complete" => runs[s].status = "complete"
  BY <1>2, <1>4
<1>6. RowsAdvance
  BY <1>1, <1>2, <1>4 DEF RowsAdvance
<1>7. HandsInv'
  BY <1>6 DEF HandsInv, HandOK, RowsAdvance, Shape, GrowStale
<1>8. RowsInv'
  BY <1>1, <1>2, <1>4 DEF Shape, RowsInv
<1>9. TypeOK'
  BY <1>4, BudgetsTyped DEF Shape, TypeOK, GrowStale
<1> QED
  BY <1>5, <1>6, <1>7, <1>8, <1>9 DEF Shape

\* Time passes over the market only.
LEMMA MarketKeepsShape ==
    ASSUME Shape, NEW p \in Projection, Lock(p) \/ QuoteAges(p)
    PROVE  Shape' /\ RowsAdvance /\ UNCHANGED <<Tables, job>>
<1>1. market' \in [Projection -> {"open", "aged", "locked"}]
  BY DEF Shape, TypeOK, Lock, QuoteAges
<1>2. UNCHANGED <<Tables, job, Budgets>>
  BY DEF Lock, QuoteAges
<1>3. RowsAdvance
  BY <1>2, SameRowsAdvance DEF Tables
<1>4. HandsInv' /\ RowsInv'
  BY <1>2 DEF Shape, HandsInv, HandOK, RowsInv, Tables
<1>5. TypeOK'
  BY <1>1, <1>2 DEF Shape, TypeOK, Tables, Budgets
<1> QED
  BY <1>2, <1>3, <1>4, <1>5 DEF Shape

-----------------------------------------------------------------------------
(***************************************************************************)
(* What is bought.                                                         *)
(***************************************************************************)
LEMMA FiniteSides ==
    ASSUME NEW p \in Projection
    PROVE  /\ IsFiniteSet(Caller) /\ IsFiniteSet(Complete(p)) /\ IsFiniteSet(Buying(p))
           /\ Cardinality(Caller) \in Nat /\ Cardinality(Complete(p)) \in Nat
           /\ Cardinality(Buying(p)) \in Nat
<1>1. IsFiniteSet(Caller)
  BY DeskAssumption, FS_AddElement DEF Caller
<1>2. Complete(p) \subseteq Run /\ Buying(p) \subseteq Caller
  BY DEF Complete, RunsOf, Buying
<1>3. IsFiniteSet(Complete(p)) /\ IsFiniteSet(Buying(p))
  BY <1>1, <1>2, DeskAssumption, FS_Subset
<1> QED
  BY <1>1, <1>3, FS_CardinalityType

\* No row becomes complete.
RowsCalm == \A s \in Run : runs'[s].status = "complete" =>
    runs[s].status = "complete" /\ runs'[s].projection = runs[s].projection

LEMMA CalmRowsKeepComplete ==
    ASSUME RowsCalm, NEW p \in Projection
    PROVE  Complete(p)' \subseteq Complete(p)
  BY DEF RowsCalm, Complete, RunsOf

LEMMA ShrinkingKeepsBound ==
    ASSUME ResearchIsNotRepaid, NEW p \in Projection,
           Complete(p)' \subseteq Complete(p), Buying(p)' \subseteq Buying(p)
    PROVE  Cardinality(Complete(p)') + Cardinality(Buying(p)') <= Cardinality(Caller)
<1>1. /\ Cardinality(Complete(p)') <= Cardinality(Complete(p))
      /\ Cardinality(Complete(p)') \in Nat
  BY FiniteSides, FS_Subset, FS_CardinalityType
<1>2. /\ Cardinality(Buying(p)') <= Cardinality(Buying(p))
      /\ Cardinality(Buying(p)') \in Nat
  BY FiniteSides, FS_Subset, FS_CardinalityType
<1>3. Cardinality(Complete(p)) + Cardinality(Buying(p)) <= Cardinality(Caller)
  BY DEF ResearchIsNotRepaid
<1> QED
  BY <1>1, <1>2, <1>3, FiniteSides

\* A caller joins the buyers of p only from the reads of _prepare.
Buys(at) == at \in {"insert", "agents"}

LEMMA NoNewBuyer ==
    ASSUME ResearchIsNotRepaid, RowsCalm, NEW c \in Caller, Moved(c),
           Buys(job'[c].at) => Buys(job[c].at) /\ job'[c].hand = job[c].hand
    PROVE  ResearchIsNotRepaid'
<1> SUFFICES ASSUME NEW p \in Projection
             PROVE  Cardinality(Complete(p)') + Cardinality(Buying(p)') <= Cardinality(Caller)
  BY DEF ResearchIsNotRepaid
<1>1. Buying(p)' \subseteq Buying(p)
  BY DEF Buying, Moved, Buys
<1> QED
  BY <1>1, CalmRowsKeepComplete, ShrinkingKeepsBound

\* With no complete run, the buyers are bounded by the callers alone.
LEMMA BuyerJoins ==
    ASSUME ResearchIsNotRepaid, RowsCalm, NEW c \in Caller, Moved(c),
           Complete(job[c].hand) = {}, job'[c].hand = job[c].hand
    PROVE  ResearchIsNotRepaid'
<1> SUFFICES ASSUME NEW p \in Projection
             PROVE  Cardinality(Complete(p)') + Cardinality(Buying(p)') <= Cardinality(Caller)
  BY DEF ResearchIsNotRepaid
<1>1. CASE p = job[c].hand
  <2>1. Complete(p)' = {}
    BY <1>1, CalmRowsKeepComplete
  <2>2. Cardinality(Complete(p)') = 0
    BY <2>1, FS_EmptySet
  <2>3. Buying(p)' \subseteq Caller
    BY DEF Buying
  <2>4. /\ Cardinality(Buying(p)') <= Cardinality(Caller)
        /\ Cardinality(Buying(p)') \in Nat
    BY <2>3, FiniteSides, FS_Subset, FS_CardinalityType
  <2> QED
    BY <2>2, <2>4, FiniteSides
<1>2. CASE p # job[c].hand
  <2>1. Buying(p)' \subseteq Buying(p)
    BY <1>2 DEF Buying, Moved
  <2> QED
    BY <2>1, CalmRowsKeepComplete, ShrinkingKeepsBound
<1> QED
  BY <1>1, <1>2

\* A buyer that completes its run leaves the buyers.
LEMMA BuyerCompletes ==
    ASSUME ResearchIsNotRepaid, Shape, NEW c \in Caller, PersistRound(c)
    PROVE  ResearchIsNotRepaid'
<1> SUFFICES ASSUME NEW p \in Projection
             PROVE  Cardinality(Complete(p)') + Cardinality(Buying(p)') <= Cardinality(Caller)
  BY DEF ResearchIsNotRepaid
<1> DEFINE r == job[c].run
<1>1. /\ r \in Run
      /\ runs'[r].projection = job[c].hand
      /\ \A s \in Run : s # r => runs'[s] = runs[s]
  BY PersistedRow
<1>2. /\ Moved(c) /\ job'[c].at \in {"idle", "plan", "debate"} /\ job[c].at = "agents"
  BY <1>1, WithBaseMoves, HandsAreAudited DEF Shape, PersistRound
<1> HIDE DEF r
<1>3. CASE p = job[c].hand
  <2>1. c \in Buying(p) /\ Buying(p)' \subseteq Buying(p) \ {c}
    BY <1>2, <1>3 DEF Buying, Moved
  <2>2. Complete(p)' \subseteq Complete(p) \union {r}
    BY <1>1 DEF Complete, RunsOf
  <2>3. /\ IsFiniteSet(Complete(p) \union {r})
        /\ Cardinality(Complete(p) \union {r}) <= Cardinality(Complete(p)) + 1
        /\ Cardinality(Complete(p) \union {r}) \in Nat
    <3>1. /\ IsFiniteSet(Complete(p) \union {r})
          /\ \/ Cardinality(Complete(p) \union {r}) = Cardinality(Complete(p))
             \/ Cardinality(Complete(p) \union {r}) = Cardinality(Complete(p)) + 1
      BY FiniteSides, FS_AddElement
    <3> QED
      BY <3>1, FiniteSides
  <2>4. /\ Cardinality(Complete(p)') <= Cardinality(Complete(p)) + 1
        /\ Cardinality(Complete(p)') \in Nat
    <3>1. /\ Cardinality(Complete(p)') <= Cardinality(Complete(p) \union {r})
          /\ Cardinality(Complete(p)') \in Nat
      BY <2>2, <2>3, FS_Subset, FS_CardinalityType
    <3> QED
      BY <2>3, <3>1, FiniteSides
  <2>5. /\ IsFiniteSet(Buying(p) \ {c})
        /\ Cardinality(Buying(p) \ {c}) = Cardinality(Buying(p)) - 1
    BY <2>1, FiniteSides, FS_RemoveElement
  <2>6. /\ Cardinality(Buying(p)') <= Cardinality(Buying(p)) - 1
        /\ Cardinality(Buying(p)') \in Nat
    BY <2>1, <2>5, FS_Subset, FS_CardinalityType
  <2>7. Cardinality(Complete(p)) + Cardinality(Buying(p)) <= Cardinality(Caller)
    BY DEF ResearchIsNotRepaid
  <2> QED
    BY <2>4, <2>6, <2>7, FiniteSides
<1>4. CASE p # job[c].hand
  <2>1. Buying(p)' \subseteq Buying(p)
    BY <1>2 DEF Buying, Moved
  <2>2. Complete(p)' \subseteq Complete(p)
    BY <1>1, <1>4 DEF Complete, RunsOf
  <2> QED
    BY <2>1, <2>2, ShrinkingKeepsBound
<1> QED
  BY <1>3, <1>4

-----------------------------------------------------------------------------
(***************************************************************************)
(* Verdicts and debates.                                                   *)
(***************************************************************************)
LEMMA VerdictsKept ==
    ASSUME VerdictsAreReviewed,
           \A s \in Run : runs'[s].verdict =>
               runs[s].verdict /\ runs[s].heard \subseteq runs'[s].heard
    PROVE  VerdictsAreReviewed'
  BY DEF VerdictsAreReviewed

LEMMA DebatesKept ==
    ASSUME Shape, DebatesAreWhole, RowsAdvance, UNCHANGED <<debates, researched>>
    PROVE  DebatesAreWhole'
<1>1. ASSUME NEW r \in Run, runs[r].heard # {} PROVE runs[r].status # "unused"
  BY <1>1 DEF Shape, RowsInv, NoRow
<1> QED
  BY <1>1 DEF DebatesAreWhole, RowsAdvance

LEMMA DebateKeepsWhole ==
    ASSUME Shape, DebatesAreWhole, NEW c \in Caller, Debate(c)
    PROVE  DebatesAreWhole'
<1> DEFINE r == job[c].run
<1>1. PICK round1, round2 \in SUBSET Analyst :
        /\ r \in Run /\ runs[r].projection = job[c].hand /\ runs[r].heard # {}
        /\ job[c].hand \notin Poor
        /\ debates'[r] = [round1 |-> round1, round2 |-> round2,
                          synthesis |-> Outcome(job[c].hand, round2)]
        /\ \A s \in Run : s # r => debates'[s] = debates[s] /\ runs'[s] = runs[s]
        /\ runs'[r].projection = runs[r].projection
        /\ runs[r].heard \subseteq runs'[r].heard
        /\ researched' = researched \union {<<job[c].hand, r>>}
  BY DebatedRows
<1> HIDE DEF r
<1>2. /\ debates'[r].synthesis # "none"
      /\ debates'[r].synthesis = "insufficient" <=> debates'[r].round2 = {}
  BY <1>1 DEF Outcome
<1>3. ASSUME NEW s \in Run, s # r
      PROVE  (\A plan \in researched' : plan[2] # s) <=> (\A plan \in researched : plan[2] # s)
  BY <1>1, <1>3
<1> SUFFICES ASSUME NEW s \in Run
             PROVE  /\ debates'[s].synthesis = "none" =>
                         debates'[s] = NoDebate /\ \A plan \in researched' : plan[2] # s
                    /\ debates'[s].synthesis # "none" =>
                         /\ runs'[s].heard # {}
                         /\ <<runs'[s].projection, s>> \in researched'
                         /\ runs'[s].projection \notin Poor
                         /\ debates'[s].synthesis = "insufficient" <=> debates'[s].round2 = {}
  BY DEF DebatesAreWhole
<1>4. CASE s = r
  BY <1>1, <1>2, <1>4
<1>5. CASE s # r
  BY <1>1, <1>3, <1>5 DEF DebatesAreWhole
<1> QED
  BY <1>4, <1>5

\* Both, action by action.
Stands == VerdictsAreReviewed /\ DebatesAreWhole

LEMMA ReadsKeepStands ==
    ASSUME Shape, Stands, RowsAdvance, UNCHANGED Tables
    PROVE  Stands'
  BY VerdictsKept, DebatesKept DEF Stands, Tables

LEMMA RefreshKeepsStands ==
    ASSUME Shape, Stands, RowsAdvance, RefreshMemory
    PROVE  Stands' /\ RowsCalm
<1>1. ASSUME NEW s \in Run
      PROVE  /\ runs'[s].verdict = runs[s].verdict /\ runs'[s].heard = runs[s].heard
             /\ runs'[s].status = runs[s].status
             /\ runs'[s].projection = runs[s].projection
  <2>1. /\ runs[s] \in RunRow
        /\ runs'[s] = IF Expires(s) THEN [runs[s] EXCEPT !.claims = "expired"] ELSE runs[s]
    BY DEF Shape, TypeOK, RefreshMemory
  <2> QED
    BY <2>1 DEF RunRow
<1>2. UNCHANGED <<debates, researched>>
  BY DEF RefreshMemory
<1> QED
  BY <1>1, <1>2, VerdictsKept, DebatesKept DEF Stands, RowsCalm

LEMMA ClaimKeepsStands ==
    ASSUME Shape, Stands, RowsAdvance, NEW c \in Caller, ClaimRun(c)
    PROVE  Stands' /\ RowsCalm
<1>1. PICK r \in Run :
         /\ runs'[r] = Started(job[c].hand)
         /\ \A s \in Run \ {r} :
              \/ runs'[s] = runs[s]
              \/ s = job[c].run /\ runs'[s] = [runs[s] EXCEPT !.status = "failed"]
  BY ClaimedRows
<1>2. ASSUME NEW s \in Run
      PROVE  /\ runs'[s].verdict => runs[s].verdict /\ runs[s].heard \subseteq runs'[s].heard
             /\ runs'[s].status = "complete" =>
                  runs[s].status = "complete" /\ runs'[s].projection = runs[s].projection
  <2>1. CASE s = r
    BY <1>1, <2>1 DEF Started, NoRow
  <2>2. CASE runs'[s] = runs[s]
    BY <2>2
  <2>3. CASE runs'[s] = [runs[s] EXCEPT !.status = "failed"]
    <3>1. runs[s] \in RunRow
      BY DEF Shape, TypeOK
    <3> QED
      BY <2>3, <3>1 DEF RunRow
  <2> QED
    BY <1>1, <2>1, <2>2, <2>3
<1>3. UNCHANGED <<debates, researched>>
  BY DEF ClaimRun
<1> QED
  BY <1>2, <1>3, VerdictsKept, DebatesKept DEF Stands, RowsCalm

LEMMA PersistKeepsStands ==
    ASSUME Shape, Stands, RowsAdvance, NEW c \in Caller, PersistRound(c)
    PROVE  Stands'
<1> DEFINE r == job[c].run
<1>1. /\ r \in Run
      /\ runs'[r].heard \ {Skeptic} # {}
      /\ runs'[r].verdict => Skeptic \in runs'[r].heard
      /\ \A s \in Run : s # r => runs'[s] = runs[s]
  BY PersistedRow
<1> HIDE DEF r
<1>2. VerdictsAreReviewed'
  BY <1>1 DEF Stands, VerdictsAreReviewed
<1>3. UNCHANGED <<debates, researched>>
  BY DEF PersistRound
<1> QED
  BY <1>2, <1>3, DebatesKept DEF Stands

LEMMA DebateKeepsStands ==
    ASSUME Shape, Stands, NEW c \in Caller, Debate(c)
    PROVE  Stands' /\ RowsCalm
<1> DEFINE r == job[c].run
<1>1. /\ \A s \in Run : s # r => runs'[s] = runs[s]
      /\ runs'[r].verdict = runs[r].verdict /\ runs[r].heard \subseteq runs'[r].heard
      /\ runs'[r].status = runs[r].status /\ runs'[r].projection = runs[r].projection
  BY DebatedRows
<1> HIDE DEF r
<1>2. VerdictsAreReviewed' /\ RowsCalm
  <2>1. ASSUME NEW s \in Run
        PROVE  /\ runs'[s].verdict = runs[s].verdict
               /\ runs[s].heard \subseteq runs'[s].heard
               /\ runs'[s].status = runs[s].status
               /\ runs'[s].projection = runs[s].projection
    BY <1>1
  <2> QED
    BY <2>1, VerdictsKept DEF Stands, RowsCalm
<1> QED
  BY <1>2, DebateKeepsWhole DEF Stands

-----------------------------------------------------------------------------
(***************************************************************************)
(* The invariant, and what follows from it.                                *)
(***************************************************************************)
LEMMA InitIInv == Init => IInv
<1> SUFFICES ASSUME Init PROVE IInv
  OBVIOUS
<1>1. NoRow \in RunRow /\ NoDebate \in DebateRow /\ NoDebate.synthesis = "none"
      /\ NoRow.status = "unused" /\ NoRow.verdict = FALSE
  BY DEF NoRow, RunRow, NoDebate, DebateRow
<1>2. TypeOK
  <2>1. mishaps \in 0 .. MaxMishaps /\ asks \in 0 .. MaxAsks
    BY DeskAssumption DEF Init
  <2> QED
    BY <1>1, <2>1, IdleIsAJob DEF Init, TypeOK
<1>3. HandsInv /\ RowsInv
  BY <1>1, IdleAudited DEF Init, HandsInv, HandOK, RowsInv
<1>4. ResearchIsNotRepaid
  <2> SUFFICES ASSUME NEW p \in Projection
               PROVE  Cardinality(Complete(p)) + Cardinality(Buying(p)) <= Cardinality(Caller)
    BY DEF ResearchIsNotRepaid
  <2>1. Complete(p) = {} /\ Buying(p) = {}
    BY <1>1, IdleAudited DEF Init, Complete, RunsOf, Buying
  <2>2. Cardinality(Complete(p)) = 0 /\ Cardinality(Buying(p)) = 0
    BY <2>1, FS_EmptySet
  <2> QED
    BY <2>2, FiniteSides
<1>5. VerdictsAreReviewed /\ DebatesAreWhole
  BY <1>1 DEF Init, VerdictsAreReviewed, DebatesAreWhole
<1> QED
  BY <1>2, <1>3, <1>4, <1>5 DEF IInv

LEMMA IdleBuysNothing ==
    ~Buys("idle") /\ ~Buys("plan") /\ ~Buys("claim") /\ ~Buys("debate") /\ ~Buys("select")
  BY DEF Buys

\* Each of a caller's steps keeps the invariant.
LEMMA WorkKeepsIInv ==
    ASSUME IInv, NEW c \in Caller, Work(c) \/ Die(c)
    PROVE  IInv'
<1>1. Shape /\ ResearchIsNotRepaid /\ Stands
  BY DEF IInv, Shape, Stands
<1> SUFFICES Shape' /\ ResearchIsNotRepaid' /\ Stands'
  BY DEF IInv, Shape, Stands
<1>2. CASE PlanAndAudit(c)
  <2>1. Shape' /\ RowsAdvance /\ UNCHANGED Tables
    BY <1>1, <1>2, PlanKeepsShape DEF PlanAndAudit, Tables
  <2>2. Moved(c) /\ job'[c].at \in {"idle", "plan", "claim"}
    <3>1. CASE NextItem(c)
      BY <1>1, <3>1, NextItemMoves, HandsAreAudited DEF Shape
    <3>2. CASE GoesTo(c, "claim", NoRun)
      <4>1. "claim" \in Steps
        BY DEF Steps
      <4> QED
        BY <1>1, <3>2, <4>1, GoesToMoves DEF Shape
    <3> QED
      BY <1>2, <3>1, <3>2 DEF PlanAndAudit
  <2>3. RowsCalm
    BY <2>1 DEF RowsCalm, Tables
  <2> QED
    BY <1>1, <2>1, <2>2, <2>3, IdleBuysNothing, NoNewBuyer, ReadsKeepStands
<1>3. CASE ReadRuns(c)
  <2>1. Shape' /\ RowsAdvance /\ UNCHANGED Tables
    BY <1>1, <1>3, ReadRunsKeepsShape DEF ReadRuns, Tables
  <2>2. RowsCalm
    BY <2>1 DEF RowsCalm, Tables
  <2>3. /\ Moved(c)
        /\ \/ job'[c].at \in {"idle", "plan", "debate"}
           \/ job'[c].hand = job[c].hand /\ Complete(job[c].hand) = {}
    BY <1>1, <1>3, ReadRunsLeads, IdleAudited
  <2>4. ResearchIsNotRepaid'
    BY <1>1, <2>2, <2>3, IdleBuysNothing, NoNewBuyer, BuyerJoins
  <2> QED
    BY <1>1, <2>1, <2>4, ReadsKeepStands
<1>4. CASE ClaimRun(c)
  <2>1. Shape' /\ RowsAdvance
    BY <1>1, <1>4, ClaimKeepsShape
  <2>2. Stands' /\ RowsCalm
    BY <1>1, <1>4, <2>1, ClaimKeepsStands
  <2>3. Moved(c) /\ job'[c].hand = job[c].hand /\ Buys(job[c].at)
    BY <1>1, <1>4, ClaimedRows DEF ClaimRun, Buys
  <2> QED
    BY <1>1, <2>1, <2>2, <2>3, NoNewBuyer
<1>5. CASE PersistRound(c)
  <2>1. Shape' /\ RowsAdvance
    BY <1>1, <1>5, PersistKeepsShape
  <2> QED
    BY <1>1, <1>5, <2>1, BuyerCompletes, PersistKeepsStands
<1>6. CASE MarkFailed(c)
  <2>1. /\ Shape' /\ RowsAdvance /\ Moved(c) /\ job'[c] = Idle
        /\ \A s \in Run :
             /\ runs'[s].heard = runs[s].heard /\ runs'[s].projection = runs[s].projection
             /\ runs'[s].verdict = runs[s].verdict
             /\ runs'[s].status = "complete" => runs[s].status = "complete"
    BY <1>1, <1>6, MarkFailedKeepsShape
  <2>2. RowsCalm /\ VerdictsAreReviewed'
    BY <1>1, <2>1, VerdictsKept DEF RowsCalm, Stands
  <2>3. DebatesAreWhole'
    BY <1>1, <1>6, <2>1, DebatesKept DEF MarkFailed, Stands
  <2>4. ResearchIsNotRepaid'
    BY <1>1, <2>1, <2>2, IdleAudited, IdleBuysNothing, NoNewBuyer
  <2> QED
    BY <2>1, <2>2, <2>3, <2>4 DEF Stands
<1>7. CASE Debate(c)
  <2>1. Shape' /\ Stands' /\ RowsCalm
    BY <1>1, <1>7, DebateKeepsShape, DebateKeepsStands
  <2>2. Moved(c) /\ job'[c].at \in {"idle", "plan"}
    BY <1>1, <1>7, NextItemMoves, HandsAreAudited DEF Shape, Debate
  <2> QED
    BY <1>1, <2>1, <2>2, IdleBuysNothing, NoNewBuyer
<1>8. CASE DebateCollides(c) \/ DraftRaises(c) \/ Die(c)
  <2>1. Shape' /\ RowsAdvance /\ UNCHANGED Tables /\ Moved(c) /\ job'[c] = Idle
    BY <1>1, <1>8, EndingsKeepShape
  <2>2. RowsCalm
    BY <2>1 DEF RowsCalm, Tables
  <2> QED
    BY <1>1, <2>1, <2>2, IdleAudited, IdleBuysNothing, NoNewBuyer, ReadsKeepStands
<1> QED
  BY <1>2, <1>3, <1>4, <1>5, <1>6, <1>7, <1>8 DEF Work

LEMMA StepIInv == IInv /\ [Next]_vars => IInv'
<1> SUFFICES ASSUME IInv, [Next]_vars PROVE IInv'
  OBVIOUS
<1>1. Shape /\ ResearchIsNotRepaid /\ Stands
  BY DEF IInv, Shape, Stands
<1>2. ASSUME Shape', ResearchIsNotRepaid', Stands' PROVE IInv'
  BY <1>2 DEF IInv, Shape, Stands
<1>3. CASE RefreshMemory
  <2>1. Shape' /\ RowsAdvance
    BY <1>1, <1>3, RefreshKeepsShape
  <2>2. Stands' /\ RowsCalm
    BY <1>1, <1>3, <2>1, RefreshKeepsStands
  <2>3. Timer \in Caller /\ Moved(Timer) /\ job'[Timer].at = "select"
    BY <1>1, <1>3, <2>1 DEF RefreshMemory, Moved, Caller, Shape, TypeOK, Job
  <2> QED
    BY <1>1, <1>2, <2>1, <2>2, <2>3, IdleBuysNothing, NoNewBuyer
<1>4. CASE SelectTriggered
  <2>1. Shape' /\ RowsAdvance /\ UNCHANGED Tables
    BY <1>1, <1>4, SelectKeepsShape DEF SelectTriggered, Tables
  <2>2. RowsCalm
    BY <2>1 DEF RowsCalm, Tables
  <2>3. Timer \in Caller /\ Moved(Timer)
    BY <1>1, <1>4, <2>1 DEF SelectTriggered, Moved, Caller, Shape, TypeOK
  <2>4. job'[Timer].at \in {"idle", "plan"}
    <3>1. CASE job' = [job EXCEPT ![Timer] = Idle]
      BY <1>1, <2>3, <3>1 DEF Idle, Shape, TypeOK
    <3>2. CASE \E p \in NewestOf(Selected) :
                 job' = [job EXCEPT ![Timer] =
                           [Idle EXCEPT !.at = "plan", !.hand = p, !.rest = Selected \ {p},
                                        !.pat = TRUE, !.shut = Unfit \intersect Selected]]
      BY <1>1, <2>3, <3>2 DEF Idle, Shape, TypeOK
    <3> QED
      BY <1>4, <3>1, <3>2 DEF SelectTriggered
  <2> QED
    BY <1>1, <1>2, <2>1, <2>2, <2>3, <2>4, IdleBuysNothing, NoNewBuyer, ReadsKeepStands
<1>5. CASE \E c \in Caller : Work(c) \/ Die(c)
  BY <1>5, WorkKeepsIInv
<1>6. CASE \E h \in Human, p \in Projection, pat \in BOOLEAN : HumanAsks(h, p, pat)
  <2>1. PICK h \in Human, p \in Projection, pat \in BOOLEAN : HumanAsks(h, p, pat)
    BY <1>6
  <2>2. Shape' /\ RowsAdvance /\ UNCHANGED Tables
    BY <1>1, <2>1, HumanAsksKeepsShape DEF HumanAsks, Tables
  <2>3. RowsCalm
    BY <2>2 DEF RowsCalm, Tables
  <2>4. h \in Caller /\ Moved(h) /\ job'[h].at \in {"plan", "claim"}
    BY <1>1, <2>1, <2>2 DEF HumanAsks, Moved, Caller, Shape, TypeOK, Idle
  <2> QED
    BY <1>1, <1>2, <2>2, <2>3, <2>4, IdleBuysNothing, NoNewBuyer, ReadsKeepStands
<1>7. CASE (\E p \in Projection : Lock(p)) \/ (\E p \in Ageing : QuoteAges(p))
  <2>1. PICK p \in Projection : Lock(p) \/ QuoteAges(p)
    BY <1>7, DeskAssumption
  <2>2. Shape' /\ RowsAdvance /\ UNCHANGED <<Tables, job>>
    BY <1>1, <2>1, MarketKeepsShape
  <2>3. ResearchIsNotRepaid'
    BY <1>1, <2>2 DEF ResearchIsNotRepaid, Complete, RunsOf, Buying, Tables
  <2> QED
    BY <1>1, <1>2, <2>2, <2>3, ReadsKeepStands
<1>8. CASE \E r \in Run : GrowStale(r)
  <2>1. PICK r \in Run : GrowStale(r)
    BY <1>8
  <2>2. /\ Shape' /\ RowsAdvance
        /\ \A s \in Run :
             /\ runs'[s].heard = runs[s].heard /\ runs'[s].projection = runs[s].projection
             /\ runs'[s].verdict = runs[s].verdict
             /\ runs'[s].status = "complete" => runs[s].status = "complete"
    BY <1>1, <2>1, GrowStaleKeepsShape
  <2>3. RowsCalm /\ VerdictsAreReviewed'
    BY <1>1, <2>2, VerdictsKept DEF RowsCalm, Stands
  <2>4. DebatesAreWhole' /\ job' = job
    BY <1>1, <2>1, <2>2, DebatesKept DEF GrowStale, Stands
  <2>5. ResearchIsNotRepaid'
    <3> SUFFICES ASSUME NEW p \in Projection
                 PROVE  Cardinality(Complete(p)') + Cardinality(Buying(p)')
                            <= Cardinality(Caller)
      BY DEF ResearchIsNotRepaid
    <3>1. Buying(p)' \subseteq Buying(p)
      BY <2>4 DEF Buying
    <3> QED
      BY <1>1, <2>3, <3>1, CalmRowsKeepComplete, ShrinkingKeepsBound
  <2> QED
    BY <1>2, <2>2, <2>3, <2>4, <2>5 DEF Stands
<1>9. CASE UNCHANGED vars
  <2>1. UNCHANGED Tables /\ UNCHANGED <<market, job, mishaps, asks>>
    BY <1>9 DEF vars, Tables
  <2>2. Shape'
    BY <1>1, <2>1 DEF Shape, TypeOK, HandsInv, HandOK, RowsInv, Tables
  <2>3. RowsAdvance
    BY <2>1, SameRowsAdvance DEF Tables
  <2>4. ResearchIsNotRepaid'
    BY <1>1, <2>1 DEF ResearchIsNotRepaid, Complete, RunsOf, Buying, Tables
  <2> QED
    BY <1>1, <1>2, <2>1, <2>2, <2>3, <2>4, ReadsKeepStands
<1> QED
  BY <1>3, <1>4, <1>5, <1>6, <1>7, <1>8, <1>9 DEF Next, Tick

-----------------------------------------------------------------------------
(***************************************************************************)
(* Theorems.                                                               *)
(***************************************************************************)
\* The invariant holds in every state of the desk.
THEOREM DeskInductive == Spec => []IInv
<1>1. Init => IInv
  BY InitIInv
<1>2. IInv /\ [Next]_vars => IInv'
  BY StepIInv
<1> QED
  BY <1>1, <1>2, PTL DEF Spec

\* The tables and callers hold values of their columns, whatever runs beside
\* whatever: research_runs never shows a status its CHECK does not know.
THEOREM DeskTyped == Spec => []TypeOK
<1>1. IInv => TypeOK
  BY DEF IInv
<1> QED
  BY <1>1, DeskInductive, PTL

\* However many callers run _prepare beside each other, with whatever crashes
\* and stale takeovers, they buy a projection at most once each in all.
THEOREM NotRepaid == Spec => []ResearchIsNotRepaid
<1>1. IInv => ResearchIsNotRepaid
  BY DEF IInv
<1> QED
  BY <1>1, DeskInductive, PTL

\* A verdict is stored only beside the analyses and the skeptic's review of
\* them, and later rounds take neither away.
THEOREM VerdictsReviewed == Spec => []VerdictsAreReviewed
<1>1. IInv => VerdictsAreReviewed
  BY DEF IInv
<1> QED
  BY <1>1, DeskInductive, PTL

\* Views, synthesis and the plan that ends a projection's research are stored
\* together, over a run of that projection that has been analysed. The audit
\* keeps data of poor quality out of every debate, so that a synthesis is
\* "insufficient" exactly when its second round was empty.
THEOREM DebatesWhole == Spec => []DebatesAreWhole
<1>1. IInv => DebatesAreWhole
  BY DEF IInv
<1> QED
  BY <1>1, DeskInductive, PTL

\* No step of any caller changes a debate that is stored.
THEOREM DebatesImmutable == Spec => SynthesesStand
<1>1. IInv /\ [Next]_vars =>
        [\A r \in Run : debates[r].synthesis # "none" => debates'[r] = debates[r]]_vars
  <2> SUFFICES ASSUME IInv, Next, NEW r \in Run, debates[r].synthesis # "none"
               PROVE  debates'[r] = debates[r]
    BY DEF vars
  <2>1. CASE \E c \in Caller : Debate(c)
    <3>1. PICK c \in Caller : Debate(c)
      BY <2>1
    <3>2. Shape
      BY DEF IInv, Shape
    <3> QED
      BY <3>1, <3>2, DebatedRows
  <2>2. CASE ~ \E c \in Caller : Debate(c)
    <3>1. debates' = debates
      BY <2>2 DEF Next, Tick, Work, RefreshMemory, SelectTriggered, PlanAndAudit, ReadRuns,
                  ClaimRun, PersistRound, MarkFailed, DebateCollides, DraftRaises, Die,
                  HumanAsks, Lock, QuoteAges, GrowStale, Tables
    <3> QED
      BY <3>1
  <2> QED
    BY <2>1, <2>2
<1> QED
  BY <1>1, DeskInductive, PTL DEF Spec, SynthesesStand

-----------------------------------------------------------------------------
(***************************************************************************)
(* What the owner tells the console. The sums of a ranking come first: the *)
(* rows of an exhibit have a kind each, so that their sum is the weight of *)
(* their kinds, whatever order the sum takes. The invariant says that what *)
(* a request has inserted is nobody else's, and that the live overrides a  *)
(* request has seen stay the ones it will supersede.                       *)
(***************************************************************************)
\* A set of natural numbers that is not empty has a least one.
LEMMA LeastOfNat ==
    ASSUME NEW T \in SUBSET Nat, T # {}
    PROVE  \E t \in T : \A y \in T : t <= y
<1>1. PICK t \in T : \A y \in T : ~(<<y, t>> \in OpToRel(<, Nat))
  BY WFMin, NatLessThanWellFounded
<1>2. \A y \in T : ~(y < t)
  BY <1>1 DEF OpToRel
<1>3. \A y \in T : t <= y
  BY <1>2
<1> QED  BY <1>1, <1>3

Kinds == {"viewed", "useful", "misleading"}

\* The sum of the weights of a set of kinds, written out.
Weights(K) == (IF "viewed" \in K THEN 1 ELSE 0) + (IF "useful" \in K THEN 2 ELSE 0)
             - (IF "misleading" \in K THEN 3 ELSE 0)

\* g maps a finite set to kinds one to one.
OneEach(g, S) ==
    /\ IsFiniteSet(S) /\ g \in [S -> Kinds]
    /\ \A i, j \in S : g[i] = g[j] => i = j

KindsOf(g, s) == {g[i] : i \in s}

\* What a sum over S of the weights of its kinds recurses over.
Summing(iter, g, S) ==
    iter = [s \in SUBSET S |->
              IF s = {} THEN 0
              ELSE LET i == CHOOSE i \in s : TRUE IN Weight[g[i]] + iter[s \ {i}]]

\* The kinds of judgment that have a weight.
LEMMA WeightsAre == DOMAIN Weight = Kinds /\ \A k \in Kinds : Weight[k] \in Int
BY DEF Weight, Kinds

\* One more row adds the weight of its kind, which no other row has.
LEMMA WeighOneMore ==
    ASSUME NEW g, NEW S, OneEach(g, S), NEW s \in SUBSET S, NEW i \in s
    PROVE  Weights(KindsOf(g, s)) = Weight[g[i]] + Weights(KindsOf(g, s \ {i}))
<1>1. g[i] \in Kinds
  BY DEF OneEach
<1>2. \A k \in Kinds : k # g[i] => (k \in KindsOf(g, s) <=> k \in KindsOf(g, s \ {i}))
  BY DEF KindsOf
<1>3. g[i] \in KindsOf(g, s)
  BY DEF KindsOf
<1>4. g[i] \notin KindsOf(g, s \ {i})
  BY DEF KindsOf, OneEach
<1>5. CASE g[i] = "viewed"
  BY <1>2, <1>3, <1>4, <1>5 DEF Weights, Weight, Kinds
<1>6. CASE g[i] = "useful"
  BY <1>2, <1>3, <1>4, <1>6 DEF Weights, Weight, Kinds
<1>7. CASE g[i] = "misleading"
  BY <1>2, <1>3, <1>4, <1>7 DEF Weights, Weight, Kinds
<1> QED  BY <1>1, <1>5, <1>6, <1>7 DEF Kinds

\* No rows weigh nothing.
LEMMA WeighNone == \A g : Weights(KindsOf(g, {})) = 0
BY DEF Weights, KindsOf

\* Something solves the recursion of the sum: the weight of the kinds.
LEMMA SummingExists ==
    ASSUME NEW g, NEW S, OneEach(g, S)
    PROVE  \E iter : Summing(iter, g, S)
<1> DEFINE iter == [s \in SUBSET S |-> Weights(KindsOf(g, s))]
<1>1. ASSUME NEW s \in SUBSET S
      PROVE  iter[s] = IF s = {} THEN 0
                       ELSE LET i == CHOOSE i \in s : TRUE IN Weight[g[i]] + iter[s \ {i}]
  <2>1. CASE s = {}
    BY <2>1, WeighNone
  <2>2. CASE s # {}
    <3> DEFINE i == CHOOSE i \in s : TRUE
    <3>1. i \in s /\ s \ {i} \in SUBSET S
      BY <2>2
    <3>2. iter[s] = Weight[g[i]] + iter[s \ {i}]
      <4> HIDE DEF i
      <4> QED  BY <3>1, WeighOneMore
    <3> QED  BY <2>2, <3>2
  <2> QED  BY <2>1, <2>2
<1>2. Summing(iter, g, S)
  <2> HIDE DEF iter
  <2>1. iter = [s \in SUBSET S |-> iter[s]]
    BY DEF iter
  <2> QED  BY <1>1, <2>1 DEF Summing
<1> QED  BY <1>2

\* Whatever solves it does, by the smallest set on which it would not.
LEMMA SummingSums ==
    ASSUME NEW g, NEW S, OneEach(g, S), NEW iter, Summing(iter, g, S)
    PROVE  iter[S] = Weights(KindsOf(g, S))
<1> DEFINE Good(s) == iter[s] = Weights(KindsOf(g, s))
           Bad == {s \in SUBSET S : ~Good(s)}
           Sizes == {Cardinality(s) : s \in Bad}
<1>1. \A s \in SUBSET S : IsFiniteSet(s) /\ Cardinality(s) \in Nat
  BY FS_Subset, FS_CardinalityType DEF OneEach
<1>2. ASSUME Bad # {}
      PROVE  FALSE
  <2>1. Sizes \in SUBSET Nat /\ Sizes # {}
    BY <1>1, <1>2
  <2>2. PICK t \in Sizes : \A y \in Sizes : t <= y
    <3> HIDE DEF Sizes
    <3> QED  BY <2>1, LeastOfNat
  <2>3. PICK s \in Bad : t = Cardinality(s)
    BY <2>2
  <2>4. s \in SUBSET S /\ ~Good(s) /\ IsFiniteSet(s) /\ Cardinality(s) \in Nat
    BY <1>1, <2>3
  <2>5. iter[s] = IF s = {} THEN 0 ELSE LET i == CHOOSE i \in s : TRUE IN Weight[g[i]] + iter[s \ {i}]
    BY <2>4 DEF Summing
  <2>6. s # {}
    BY <2>4, <2>5, WeighNone
  <2> DEFINE i == CHOOSE i \in s : TRUE
  <2>7. i \in s /\ s \ {i} \in SUBSET S
    BY <2>4, <2>6
  <2>8. iter[s] = Weight[g[i]] + iter[s \ {i}]
    BY <2>5, <2>6
  <2>9. s \ {i} \notin Bad
    <3> HIDE DEF i, Bad, Good
    <3>1. Cardinality(s \ {i}) = Cardinality(s) - 1
      BY <2>4, <2>7, FS_RemoveElement
    <3>2. ASSUME s \ {i} \in Bad
          PROVE  FALSE
      <4>1. Cardinality(s \ {i}) \in Sizes
        BY <3>2
      <4>2. Cardinality(s) <= Cardinality(s \ {i})
        BY <2>2, <2>3, <4>1
      <4> QED  BY <2>4, <3>1, <4>2
    <3> QED  BY <3>2
  <2>10. Good(s \ {i})
    BY <2>7, <2>9
  <2>11. Weights(KindsOf(g, s)) = Weight[g[i]] + Weights(KindsOf(g, s \ {i}))
    <3> HIDE DEF i
    <3> QED  BY <2>4, <2>7, WeighOneMore
  <2> QED  BY <2>4, <2>8, <2>10, <2>11
<1> QED  BY <1>2

\* What the two sums of the model recurse over: judgments, and kinds.
SummingJudgments(iter, S) ==
    iter = [s \in SUBSET S |->
              IF s = {} THEN 0
              ELSE LET i == CHOOSE i \in s : TRUE IN Weight[i[3]] + iter[s \ {i}]]

SummingKinds(iter, S) ==
    iter = [s \in SUBSET S |->
              IF s = {} THEN 0
              ELSE LET i == CHOOSE i \in s : TRUE IN Weight[i] + iter[s \ {i}]]

\* The judgments of one exhibit, at most one of a kind, sum to the weight of
\* their kinds.
LEMMA JudgmentsWeigh ==
    ASSUME NEW S, NEW g, OneEach(g, S), \A j \in S : g[j] = j[3]
    PROVE  Score(S) = Weights(KindsOf(g, S))
<1> DEFINE iter == CHOOSE iter : SummingJudgments(iter, S)
<1>1. Score(S) = iter[S]
  BY DEF Score, MapThenSumSet, MapThenFoldSet, SummingJudgments
<1>2. ASSUME NEW f
      PROVE  Summing(f, g, S) <=> SummingJudgments(f, S)
  <2>1. ASSUME NEW s \in SUBSET S, s # {}
        PROVE  LET i == CHOOSE i \in s : TRUE IN Weight[i[3]] + f[s \ {i}] = Weight[g[i]] + f[s \ {i}]
    <3> DEFINE i == CHOOSE i \in s : TRUE
    <3>1. i \in S
      BY <2>1
    <3> QED  BY <3>1
  <2> QED  BY <2>1 DEF Summing, SummingJudgments
<1>3. SummingJudgments(iter, S)
  <2>1. \E f : SummingJudgments(f, S)
    BY <1>2, SummingExists
  <2> QED  BY <2>1, Zenon
<1> HIDE DEF iter
<1>4. Summing(iter, g, S)
  BY <1>2, <1>3
<1> QED  BY <1>1, <1>4, SummingSums

\* The kinds themselves sum to their weight.
LEMMA KindsWeigh ==
    ASSUME NEW S \in SUBSET Kinds
    PROVE  Worth(S) = Weights(S)
<1> DEFINE g == [k \in S |-> k]
           iter == CHOOSE iter : SummingKinds(iter, S)
<1>1. IsFiniteSet(Kinds)
  <2>1. Kinds = {"viewed"} \cup {"useful"} \cup {"misleading"}
    BY DEF Kinds
  <2> QED  BY <2>1, FS_Singleton, FS_Union
<1>2. OneEach(g, S)
  BY <1>1, FS_Subset DEF OneEach
<1>3. Worth(S) = iter[S]
  BY DEF Worth, MapThenSumSet, MapThenFoldSet, SummingKinds
<1>4. ASSUME NEW f
      PROVE  Summing(f, g, S) <=> SummingKinds(f, S)
  <2>1. ASSUME NEW s \in SUBSET S, s # {}
        PROVE  LET i == CHOOSE i \in s : TRUE IN Weight[i] + f[s \ {i}] = Weight[g[i]] + f[s \ {i}]
    <3> DEFINE i == CHOOSE i \in s : TRUE
    <3>1. i \in S
      BY <2>1
    <3> QED  BY <3>1
  <2> QED  BY <2>1 DEF Summing, SummingKinds
<1>5. SummingKinds(iter, S)
  <2>1. \E f : SummingKinds(f, S)
    BY <1>2, <1>4, SummingExists
  <2> QED  BY <2>1, Zenon
<1>6. KindsOf(g, S) = S
  BY DEF KindsOf
<1> HIDE DEF iter, g
<1>7. Summing(iter, g, S)
  BY <1>4, <1>5
<1> QED  BY <1>2, <1>3, <1>6, <1>7, SummingSums

\* There are as many of them as there are kinds of them.
LEMMA KindsCount ==
    ASSUME NEW g, NEW S, OneEach(g, S)
    PROVE  Cardinality(KindsOf(g, S)) = Cardinality(S)
<1>1. g \in Bijection(S, KindsOf(g, S))
  BY DEF OneEach, KindsOf, Bijection, Injection, Surjection, IsInjective
<1>2. ExistsBijection(S, KindsOf(g, S))
  BY <1>1 DEF ExistsBijection
<1> QED  BY <1>2, FS_Bijection DEF OneEach

-----------------------------------------------------------------------------
Key == Exhibit \X Kinds
Judgment == Request \X Exhibit \X Kinds
Place == {"unsent", "closed", "feedback", "view", "override", "found", "superseded"}

Pending == [at : Place, keys : SUBSET (Key \cup Request), inserted : SUBSET Key,
            seen : SUBSET Request, held : SUBSET Request]

FeedbackTyped ==
    /\ decisions \in Seq([by : {"label", "owner"}, request : Request])
    /\ labels \subseteq [request : Request, keys : SUBSET Key]
    /\ judgments \subseteq Judgment
    /\ minutes \subseteq [request : Request, live : BOOLEAN, after : SUBSET Request]
    /\ request \in [Request -> Pending]
    /\ DOMAIN memory = Ranker /\ DOMAIN ranking = Exhibit

Overridden == {row.request : row \in minutes}

\* What a request is about is of its kind.
KeysInv == \A n \in Request :
    /\ request[n].at \in {"feedback", "view"} => request[n].keys \subseteq Key
    /\ request[n].inserted \subseteq request[n].keys
    /\ request[n].at \notin {"feedback", "view"} => request[n].inserted = {}

\* A judgment is there once, and what a request has inserted is not there yet, nor
\* inserted by another.
OnceInv ==
    /\ \A i, j \in judgments : i[2] = j[2] /\ i[3] = j[3] => i = j
    /\ \A n \in Request : request[n].inserted \cap Judged = {}
    /\ \A n, k \in Request : n # k => request[n].inserted \cap request[k].inserted = {}

MemoryInv == \A p \in Ranker :
    memory[p] # Nothing => memory[p] = [of |-> memory[p].of] /\ memory[p].of \subseteq judgments

\* An override is stored when its request ends, after those it has seen. Until
\* then the live ones among these are the ones it finds, and then holds.
RowsStand ==
    /\ \A r, q \in minutes : r.request = q.request => r = q
    /\ \A r \in minutes : request[r.request].at = "closed" /\ r.after \subseteq Overridden
    /\ minutes # {} => LiveOverrides # {}
    /\ \A r \in LiveOverrides : \A q \in minutes : r.request \notin q.after

WillSupersede == \A n \in Request :
    /\ request[n].at \in {"override", "found", "superseded"} => request[n].seen \subseteq Overridden
    /\ request[n].at = "found" => \A r \in LiveOverrides : r.request \in request[n].seen => r.request \in request[n].keys
    /\ request[n].at = "superseded" => \A r \in LiveOverrides : r.request \in request[n].seen => r.request \in request[n].held

OwnerInv == FeedbackTyped /\ KeysInv /\ OnceInv /\ MemoryInv /\ RowsStand /\ WillSupersede
              /\ LabelsAreWhole /\ RankingCountsOnce

-----------------------------------------------------------------------------
\* A request at rest is of the type.
LEMMA QuietPends == \A place \in Place : Quiet(place) \in Pending
BY DEF Quiet, Pending

\* Only request n moved.
Only(n) == request' \in [Request -> Pending] /\ \A k \in Request : k # n => request'[k] = request[k]

\* Replacing the request of n moves only n.
LEMMA OnlyMoves ==
    ASSUME FeedbackTyped, NEW n \in Request, NEW r \in Pending, request' = [request EXCEPT ![n] = r]
    PROVE  Only(n) /\ request'[n] = r
BY DEF FeedbackTyped, Only

\* A request that closes is at rest.
LEMMA Closes ==
    ASSUME FeedbackTyped, NEW n \in Request, Close(n)
    PROVE  Only(n) /\ request'[n] = Quiet("closed")
BY OnlyMoves, QuietPends DEF Close, Place

\* What each endpoint makes of its request, one lemma an action.
LEMMA Submits ==
    ASSUME FeedbackTyped, NEW n \in Request, SubmitFeedback(n)
    PROVE  /\ Only(n) /\ request[n].at = "unsent"
           /\ \E keys \in SUBSET Key : request'[n] = [Quiet("feedback") EXCEPT !.keys = keys]
<1>1. PICK useful, misleading \in SUBSET Exhibit :
        Begins(n, [Quiet("feedback") EXCEPT !.keys = (useful \X {"useful"}) \cup (misleading \X {"misleading"})])
  BY DEF SubmitFeedback
<1> DEFINE keys == (useful \X {"useful"}) \cup (misleading \X {"misleading"})
           r == [Quiet("feedback") EXCEPT !.keys = keys]
<1>2. keys \in SUBSET Key
  BY DEF Key, Kinds
<1>3. r \in Pending
  <2> HIDE DEF keys
  <2> QED  BY <1>2 DEF Quiet, Pending, Place
<1>4. request' = [request EXCEPT ![n] = r] /\ request[n].at = "unsent"
  BY <1>1 DEF Begins
<1> HIDE DEF r
<1>5. Only(n) /\ request'[n] = r
  BY <1>3, <1>4, OnlyMoves
<1> QED  BY <1>2, <1>4, <1>5 DEF r

LEMMA Views ==
    ASSUME FeedbackTyped, NEW n \in Request, ViewResearch(n)
    PROVE  /\ Only(n) /\ request[n].at = "unsent"
           /\ \E keys \in SUBSET Key : request'[n] = [Quiet("view") EXCEPT !.keys = keys]
<1> DEFINE keys == (Exhibit \X {"viewed"}) \ Judged
           r == [Quiet("view") EXCEPT !.keys = keys]
<1>2. keys \in SUBSET Key
  BY DEF Key, Kinds
<1>3. r \in Pending
  <2> HIDE DEF keys
  <2> QED  BY <1>2 DEF Quiet, Pending, Place
<1>4. request' = [request EXCEPT ![n] = r] /\ request[n].at = "unsent"
  BY DEF Begins, ViewResearch
<1> HIDE DEF r
<1>5. Only(n) /\ request'[n] = r
  BY <1>3, <1>4, OnlyMoves
<1> QED  BY <1>2, <1>4, <1>5 DEF r

LEMMA Overrides ==
    ASSUME FeedbackTyped, NEW n \in Request, OverrideMinutes(n)
    PROVE  /\ Only(n) /\ request[n].at = "unsent"
           /\ request'[n] = [Quiet("override") EXCEPT !.seen = Overridden]
<1> DEFINE r == [Quiet("override") EXCEPT !.seen = Overridden]
<1>2. Overridden \in SUBSET Request
  BY DEF Overridden, FeedbackTyped
<1>3. r \in Pending
  BY <1>2 DEF Quiet, Pending, Place
<1>4. request' = [request EXCEPT ![n] = r] /\ request[n].at = "unsent"
  BY DEF Begins, OverrideMinutes, Overridden
<1> HIDE DEF r
<1>5. Only(n) /\ request'[n] = r
  BY <1>3, <1>4, OnlyMoves
<1> QED  BY <1>4, <1>5 DEF r

LEMMA Decides ==
    ASSUME FeedbackTyped, NEW n \in Request, DecideRecommendation(n)
    PROVE  Only(n) /\ request[n].at = "unsent" /\ request'[n] = Quiet("closed")
BY OnlyMoves, QuietPends DEF DecideRecommendation, Begins, Place

LEMMA Inserts ==
    ASSUME FeedbackTyped, NEW n \in Request, InsertJudgments(n), KeysInv
    PROVE  /\ Only(n) /\ request[n].at \in {"feedback", "view"}
           /\ \/ request'[n] = Quiet("closed")
              \/ /\ request'[n] = [request[n] EXCEPT !.inserted = request[n].keys]
                 /\ request[n].keys \cap Judged = {}
                 /\ \A k \in Request \ {n} : request[k].inserted \cap request[n].keys = {}
<1>1. CASE Close(n)
  BY <1>1, Closes DEF InsertJudgments
<1>2. CASE ~Refused(request[n].keys) /\ request' = [request EXCEPT ![n].inserted = request[n].keys]
  <2> DEFINE r == [request[n] EXCEPT !.inserted = request[n].keys]
  <2>1. request[n] \in Pending /\ request[n].keys \subseteq Key
    BY DEF FeedbackTyped, KeysInv, InsertJudgments
  <2>2. r \in Pending
    BY <2>1 DEF Pending
  <2>3. request' = [request EXCEPT ![n] = r]
    BY <1>2
  <2> HIDE DEF r
  <2>4. Only(n) /\ request'[n] = r
    BY <2>2, <2>3, OnlyMoves
  <2> QED  BY <1>2, <2>4 DEF r, InsertJudgments, Refused
<1> QED  BY <1>1, <1>2 DEF InsertJudgments

LEMMA Finds ==
    ASSUME FeedbackTyped, NEW n \in Request, FindOverrides(n)
    PROVE  /\ Only(n) /\ request[n].at = "override"
           /\ request'[n] = [request[n] EXCEPT !.at = "found", !.keys = {row.request : row \in LiveOverrides}]
<1> DEFINE keys == {row.request : row \in LiveOverrides}
           r == [request[n] EXCEPT !.at = "found", !.keys = keys]
<1>1. keys \in SUBSET Request
  BY DEF LiveOverrides, FeedbackTyped
<1>2. request[n] \in Pending
  BY DEF FeedbackTyped
<1>3. r \in Pending
  <2> HIDE DEF keys
  <2> QED  BY <1>1, <1>2 DEF Pending, Place
<1>4. request' = [request EXCEPT ![n] = r]
  BY DEF FindOverrides
<1> HIDE DEF r
<1>5. Only(n) /\ request'[n] = r
  BY <1>3, <1>4, OnlyMoves
<1> QED  BY <1>5 DEF r, FindOverrides

LEMMA Supersedes ==
    ASSUME FeedbackTyped, NEW n \in Request, SupersedeOverrides(n)
    PROVE  /\ Only(n) /\ request[n].at = "found"
           /\ request'[n] = [request[n] EXCEPT !.at = "superseded",
                               !.held = {row.request : row \in LiveOverrides} \cap request[n].keys]
<1> DEFINE held == {row.request : row \in LiveOverrides} \cap request[n].keys
           r == [request[n] EXCEPT !.at = "superseded", !.held = held]
<1>1. held \in SUBSET Request
  BY DEF LiveOverrides, FeedbackTyped
<1>2. request[n] \in Pending
  BY DEF FeedbackTyped
<1>3. r \in Pending
  <2> HIDE DEF held
  <2> QED  BY <1>1, <1>2 DEF Pending, Place
<1>4. request' = [request EXCEPT ![n] = r]
  BY DEF SupersedeOverrides
<1> HIDE DEF r
<1>5. Only(n) /\ request'[n] = r
  BY <1>3, <1>4, OnlyMoves
<1> QED  BY <1>5 DEF r, SupersedeOverrides
-----------------------------------------------------------------------------
\* A request that is to be stored, or to be refused, or that dies.
LEMMA RequestEnds ==
    ASSUME FeedbackTyped, NEW n \in Request, StoreFeedback(n) \/ StoreView(n) \/ StoreOverride(n) \/ Drop(n)
    PROVE  Only(n) /\ request'[n] = Quiet("closed")
BY Closes DEF StoreFeedback, StoreView, StoreOverride, Drop

\* What it inserted becomes what is judged.
LEMMA JudgmentsStored ==
    ASSUME FeedbackTyped, NEW n \in Request, StoreJudgments(n)
    PROVE  /\ judgments \subseteq judgments' /\ judgments' \subseteq Judgment
           /\ Judged' = Judged \cup request[n].inserted
           /\ \A j \in judgments' \ judgments : j[1] = n /\ j = <<n, j[2], j[3]>> /\ <<j[2], j[3]>> \in request[n].inserted
<1> DEFINE I == request[n].inserted
           new == {<<n, k[1], k[2]>> : k \in I}
<1>1. I \subseteq Key
  BY DEF FeedbackTyped, Pending
<1>2. judgments' = judgments \cup new
  BY DEF StoreJudgments
<1>3. \A k \in I : k = <<k[1], k[2]>> /\ k[1] \in Exhibit /\ k[2] \in Kinds
  BY <1>1 DEF Key
<1> HIDE DEF I
<1>4. new \subseteq Judgment
  BY <1>3 DEF Judgment
<1>5. {<<j[2], j[3]>> : j \in new} = I
  <2>1. ASSUME NEW k \in I
        PROVE  k \in {<<j[2], j[3]>> : j \in new}
    <3> DEFINE j == <<n, k[1], k[2]>>
    <3>1. j \in new
      OBVIOUS
    <3>2. <<j[2], j[3]>> = k
      BY <1>3
    <3> HIDE DEF j
    <3> QED  BY <3>1, <3>2
  <2>2. ASSUME NEW j \in new
        PROVE  <<j[2], j[3]>> \in I
    <3>1. PICK k \in I : j = <<n, k[1], k[2]>>
      OBVIOUS
    <3>2. j[2] = k[1] /\ j[3] = k[2] /\ <<k[1], k[2]>> = k
      BY <1>3, <3>1
    <3> QED  BY <3>2
  <2> QED  BY <2>1, <2>2
<1>6. \A j \in new : j[1] = n /\ j = <<n, j[2], j[3]>> /\ <<j[2], j[3]>> \in I
  <2> TAKE j \in new
  <2>1. PICK k \in I : j = <<n, k[1], k[2]>>
    OBVIOUS
  <2> QED  BY <1>3, <2>1
<1> HIDE DEF new
<1>7. Judged' = Judged \cup I
  <2>1. Judged' = {<<j[2], j[3]>> : j \in judgments'}
    BY DEF Judged
  <2>2. Judged = {<<j[2], j[3]>> : j \in judgments}
    BY DEF Judged
  <2> QED  BY <1>2, <1>5, <2>1, <2>2
<1>8. judgments \subseteq Judgment
  BY DEF FeedbackTyped
<1> QED  BY <1>2, <1>4, <1>6, <1>7, <1>8 DEF I

\* The steps of a request that change no table, or only the decisions.
OwnerTables == <<labels, judgments, minutes>>
Asks(n) == SubmitFeedback(n) \/ ViewResearch(n) \/ InsertJudgments(n) \/ DecideRecommendation(n)
             \/ OverrideMinutes(n) \/ FindOverrides(n) \/ SupersedeOverrides(n) \/ Drop(n)

LEMMA AsksLeaveTables ==
    ASSUME NEW n \in Request, Asks(n)
    PROVE  UNCHANGED <<OwnerTables, memory, ranking>>
BY DEF Asks, OwnerTables, SubmitFeedback, ViewResearch, InsertJudgments, DecideRecommendation, OverrideMinutes,
       FindOverrides, SupersedeOverrides, Drop

Ranks(p) == ReadMemory(p) \/ StoreRanking(p) \/ ForgetMemory(p)

\* The ranking touches no table of the owner's.
LEMMA RanksLeaveTables ==
    ASSUME NEW p \in Ranker, Ranks(p)
    PROVE  UNCHANGED <<OwnerTables, decisions, request>>
BY DEF Ranks, OwnerTables, ReadMemory, StoreRanking, ForgetMemory

\* The steps, grouped.
LEMMA FeedbackSteps ==
    ASSUME FeedbackNext
    PROVE  \/ \E n \in Request : Asks(n) \/ StoreFeedback(n) \/ StoreView(n) \/ StoreOverride(n)
           \/ \E p \in Ranker : Ranks(p)
BY DEF FeedbackNext, Asks, Ranks

\* What a request has at hand after a step of its own.
LEMMA RequestsMove ==
    ASSUME FeedbackTyped, KeysInv, NEW n \in Request, Asks(n) \/ StoreFeedback(n) \/ StoreView(n) \/ StoreOverride(n)
    PROVE  /\ Only(n)
           /\ \/ request'[n] = Quiet("closed")
              \/ \E keys \in SUBSET Key : \E place \in {"feedback", "view"} :
                   request[n].at = "unsent" /\ request'[n] = [Quiet(place) EXCEPT !.keys = keys]
              \/ /\ request[n].at \in {"feedback", "view"}
                 /\ request'[n] = [request[n] EXCEPT !.inserted = request[n].keys]
                 /\ request[n].keys \cap Judged = {}
                 /\ \A k \in Request \ {n} : request[k].inserted \cap request[n].keys = {}
              \/ request[n].at = "unsent" /\ request'[n] = [Quiet("override") EXCEPT !.seen = Overridden]
              \/ /\ request[n].at = "override"
                 /\ request'[n] = [request[n] EXCEPT !.at = "found", !.keys = {row.request : row \in LiveOverrides}]
              \/ /\ request[n].at = "found"
                 /\ request'[n] = [request[n] EXCEPT !.at = "superseded",
                               !.held = {row.request : row \in LiveOverrides} \cap request[n].keys]
<1>1. CASE SubmitFeedback(n)
  BY <1>1, Submits
<1>2. CASE ViewResearch(n)
  BY <1>2, Views
<1>3. CASE InsertJudgments(n)
  BY <1>3, Inserts
<1>4. CASE DecideRecommendation(n)
  BY <1>4, Decides
<1>5. CASE OverrideMinutes(n)
  BY <1>5, Overrides
<1>6. CASE FindOverrides(n)
  BY <1>6, Finds
<1>7. CASE SupersedeOverrides(n)
  BY <1>7, Supersedes
<1>8. CASE StoreFeedback(n) \/ StoreView(n) \/ StoreOverride(n) \/ Drop(n)
  BY <1>8, RequestEnds
<1> QED  BY <1>1, <1>2, <1>3, <1>4, <1>5, <1>6, <1>7, <1>8 DEF Asks

\* What a request is about stays of its kind.
LEMMA KeysStay ==
    ASSUME FeedbackTyped, KeysInv, FeedbackNext
    PROVE  KeysInv'
<1>1. ASSUME NEW n \in Request, Only(n),
             /\ request'[n].at \in {"feedback", "view"} => request'[n].keys \subseteq Key
             /\ request'[n].inserted \subseteq request'[n].keys
             /\ request'[n].at \notin {"feedback", "view"} => request'[n].inserted = {}
      PROVE  KeysInv'
  BY <1>1 DEF KeysInv, Only
<1>2. ASSUME NEW n \in Request, Asks(n) \/ StoreFeedback(n) \/ StoreView(n) \/ StoreOverride(n)
      PROVE  KeysInv'
  <2>1. request[n] \in Pending /\ Only(n)
    BY <1>2, RequestsMove DEF FeedbackTyped
  <2>2. CASE request'[n] = Quiet("closed")
    BY <1>1, <2>1, <2>2 DEF Quiet
  <2>3. ASSUME NEW keys \in SUBSET Key, NEW place \in {"feedback", "view"},
               request'[n] = [Quiet(place) EXCEPT !.keys = keys]
        PROVE  KeysInv'
    BY <1>1, <2>1, <2>3 DEF Quiet
  <2>4. CASE request[n].at \in {"feedback", "view"} /\ request'[n] = [request[n] EXCEPT !.inserted = request[n].keys]
    <3>1. request[n].keys \subseteq Key
      BY <2>4 DEF KeysInv
    <3>2. request'[n].at = request[n].at /\ request'[n].keys = request[n].keys /\ request'[n].inserted = request[n].keys
      BY <2>1, <2>4 DEF Pending
    <3> QED  BY <1>1, <2>1, <2>4, <3>1, <3>2
  <2>5. CASE request'[n] = [Quiet("override") EXCEPT !.seen = Overridden]
    BY <1>1, <2>1, <2>5 DEF Quiet
  <2>6. CASE /\ request[n].at = "override"
             /\ request'[n] = [request[n] EXCEPT !.at = "found", !.keys = {row.request : row \in LiveOverrides}]
    <3>1. request[n].inserted = {}
      BY <2>6 DEF KeysInv
    <3>2. request'[n].at = "found" /\ request'[n].inserted = {}
      BY <2>1, <2>6, <3>1 DEF Pending
    <3> QED  BY <1>1, <2>1, <3>2
  <2>7. CASE /\ request[n].at = "found"
             /\ request'[n] = [request[n] EXCEPT !.at = "superseded",
                               !.held = {row.request : row \in LiveOverrides} \cap request[n].keys]
    <3>1. request[n].inserted = {}
      BY <2>7 DEF KeysInv
    <3>2. request'[n].at = "superseded" /\ request'[n].inserted = {}
      BY <2>1, <2>7, <3>1 DEF Pending
    <3> QED  BY <1>1, <2>1, <3>2
  <2> QED  BY <1>2, <2>2, <2>3, <2>4, <2>5, <2>6, <2>7, RequestsMove
<1>3. ASSUME NEW p \in Ranker, Ranks(p)
      PROVE  KeysInv'
  BY <1>3, RanksLeaveTables DEF KeysInv
<1> QED  BY <1>2, <1>3, FeedbackSteps

\* A judgment is not inserted twice: what another has inserted is waited for, and what
\* is committed refuses the request.
LEMMA OnceStays ==
    ASSUME FeedbackTyped, KeysInv, OnceInv, FeedbackNext
    PROVE  OnceInv'
<1>1. ASSUME NEW n \in Request, Only(n), judgments' = judgments, request'[n].inserted = {}
      PROVE  OnceInv'
  <2>1. Judged' = Judged
    BY <1>1 DEF Judged
  <2> QED  BY <1>1, <2>1 DEF OnceInv, Only
<1>2. ASSUME NEW n \in Request, Asks(n)
      PROVE  OnceInv'
  <2>1. request[n] \in Pending /\ Only(n) /\ judgments' = judgments
    BY <1>2, RequestsMove, AsksLeaveTables DEF FeedbackTyped, OwnerTables
  <2>2. CASE request'[n] = Quiet("closed")
    BY <1>1, <2>1, <2>2 DEF Quiet
  <2>3. ASSUME NEW keys \in SUBSET Key, NEW place \in {"feedback", "view"},
               request'[n] = [Quiet(place) EXCEPT !.keys = keys]
        PROVE  OnceInv'
    BY <1>1, <2>1, <2>3 DEF Quiet
  <2>4. CASE /\ request[n].at \in {"feedback", "view"} /\ request'[n] = [request[n] EXCEPT !.inserted = request[n].keys]
             /\ request[n].keys \cap Judged = {}
             /\ \A k \in Request \ {n} : request[k].inserted \cap request[n].keys = {}
    <3>1. request'[n].inserted = request[n].keys
      BY <2>1, <2>4 DEF Pending
    <3>2. Judged' = Judged
      BY <2>1 DEF Judged
    <3>3. \A m \in Request : request'[m].inserted \cap Judged = {}
      BY <2>1, <2>4, <3>1 DEF OnceInv, Only
    <3>4. ASSUME NEW m \in Request, NEW k \in Request, m # k
          PROVE  request'[m].inserted \cap request'[k].inserted = {}
      <4>1. \A l \in Request : l # n => request'[l].inserted = request[l].inserted
        BY <2>1 DEF Only
      <4>2. CASE m # n /\ k # n
        BY <3>4, <4>1, <4>2 DEF OnceInv
      <4>3. CASE m = n /\ k # n
        BY <2>4, <3>1, <4>1, <4>3
      <4>4. CASE m # n /\ k = n
        BY <2>4, <3>1, <4>1, <4>4
      <4> QED  BY <3>4, <4>2, <4>3, <4>4
    <3> QED  BY <2>1, <3>2, <3>3, <3>4 DEF OnceInv
  <2>5. CASE request'[n] = [Quiet("override") EXCEPT !.seen = Overridden]
    BY <1>1, <2>1, <2>5 DEF Quiet
  <2>6. CASE /\ request[n].at = "override"
             /\ request'[n] = [request[n] EXCEPT !.at = "found", !.keys = {row.request : row \in LiveOverrides}]
    <3>1. request[n].inserted = {}
      BY <2>6 DEF KeysInv
    <3>2. request'[n].inserted = {}
      BY <2>1, <2>6, <3>1 DEF Pending
    <3> QED  BY <1>1, <2>1, <3>2
  <2>7. CASE /\ request[n].at = "found"
             /\ request'[n] = [request[n] EXCEPT !.at = "superseded",
                               !.held = {row.request : row \in LiveOverrides} \cap request[n].keys]
    <3>1. request[n].inserted = {}
      BY <2>7 DEF KeysInv
    <3>2. request'[n].inserted = {}
      BY <2>1, <2>7, <3>1 DEF Pending
    <3> QED  BY <1>1, <2>1, <3>2
  <2> QED  BY <1>2, <2>2, <2>3, <2>4, <2>5, <2>6, <2>7, RequestsMove
<1>3. ASSUME NEW n \in Request, StoreFeedback(n) \/ StoreView(n)
      PROVE  OnceInv'
  <2>1. Only(n) /\ request'[n].inserted = {} /\ StoreJudgments(n)
    BY <1>3, RequestEnds DEF StoreFeedback, StoreView, Quiet
  <2>2. /\ judgments \subseteq judgments' /\ Judged' = Judged \cup request[n].inserted
        /\ \A j \in judgments' \ judgments : j = <<n, j[2], j[3]>> /\ <<j[2], j[3]>> \in request[n].inserted
    BY <2>1, JudgmentsStored
  <2>3. ASSUME NEW i \in judgments', NEW j \in judgments', i[2] = j[2] /\ i[3] = j[3]
        PROVE  i = j
    <3>1. \A k \in judgments : <<k[2], k[3]>> \in Judged
      BY DEF Judged
    <3>2. \A k \in judgments' \ judgments : <<k[2], k[3]>> \notin Judged
      BY <2>2 DEF OnceInv
    <3>3. CASE i \in judgments /\ j \in judgments
      BY <2>3, <3>3 DEF OnceInv
    <3>4. CASE i \notin judgments /\ j \notin judgments
      <4>1. i = <<n, i[2], i[3]>> /\ j = <<n, j[2], j[3]>>
        BY <2>2, <3>4
      <4>2. <<n, i[2], i[3]>> = <<n, j[2], j[3]>>
        BY <2>3
      <4> QED  BY <4>1, <4>2
    <3>5. ~(i \in judgments /\ j \notin judgments) /\ ~(i \notin judgments /\ j \in judgments)
      BY <2>3, <3>1, <3>2
    <3> QED  BY <3>3, <3>4, <3>5
  <2>4. ASSUME NEW m \in Request
        PROVE  request'[m].inserted \cap Judged' = {}
    BY <2>1, <2>2 DEF OnceInv, Only
  <2>5. ASSUME NEW m \in Request, NEW k \in Request, m # k
        PROVE  request'[m].inserted \cap request'[k].inserted = {}
    BY <2>1, <2>5 DEF OnceInv, Only
  <2> QED  BY <2>3, <2>4, <2>5 DEF OnceInv
<1>4. ASSUME NEW n \in Request, StoreOverride(n)
      PROVE  OnceInv'
  <2>1. Only(n) /\ request'[n] = Quiet("closed")
    BY <1>4, RequestEnds
  <2>2. judgments' = judgments
    BY <1>4 DEF StoreOverride
  <2> QED  BY <1>1, <2>1, <2>2 DEF Quiet
<1>5. ASSUME NEW p \in Ranker, Ranks(p)
      PROVE  OnceInv'
  BY <1>5, RanksLeaveTables DEF OnceInv, OwnerTables, Judged
<1> QED  BY <1>2, <1>3, <1>4, <1>5, FeedbackSteps

\* Judgments only become more.
LEMMA JudgmentsStay ==
    ASSUME FeedbackTyped, FeedbackNext
    PROVE  /\ judgments \subseteq judgments' /\ Judged \subseteq Judged'
           /\ judgments' \subseteq Judgment
<1>1. ASSUME judgments' = judgments
      PROVE  judgments \subseteq judgments' /\ Judged \subseteq Judged' /\ judgments' \subseteq Judgment
  BY <1>1 DEF Judged, FeedbackTyped
<1>2. ASSUME NEW n \in Request, Asks(n)
      PROVE  judgments' = judgments
  BY <1>2, AsksLeaveTables DEF OwnerTables
<1>3. ASSUME NEW n \in Request, StoreFeedback(n) \/ StoreView(n)
      PROVE  StoreJudgments(n)
  BY <1>3 DEF StoreFeedback, StoreView
<1>4. ASSUME NEW n \in Request, StoreOverride(n)
      PROVE  judgments' = judgments
  BY <1>4 DEF StoreOverride
<1>5. ASSUME NEW p \in Ranker, Ranks(p)
      PROVE  judgments' = judgments
  BY <1>5, RanksLeaveTables DEF OwnerTables
<1> QED  BY <1>1, <1>2, <1>3, <1>4, <1>5, FeedbackSteps, JudgmentsStored

\* What a ranker has read stays on record.
LEMMA MemoryStays ==
    ASSUME FeedbackTyped, MemoryInv, FeedbackNext
    PROVE  MemoryInv'
<1>1. judgments \subseteq judgments'
  BY JudgmentsStay
<1>2. CASE memory' = memory
  BY <1>1, <1>2 DEF MemoryInv
<1>3. ASSUME NEW p \in Ranker, ReadMemory(p)
      PROVE  MemoryInv'
  BY <1>1, <1>3 DEF MemoryInv, ReadMemory, FeedbackTyped
<1>4. ASSUME NEW p \in Ranker, StoreRanking(p) \/ ForgetMemory(p)
      PROVE  MemoryInv'
  BY <1>1, <1>4 DEF MemoryInv, StoreRanking, ForgetMemory, FeedbackTyped
<1>5. ASSUME NEW n \in Request, Asks(n) \/ StoreFeedback(n) \/ StoreView(n) \/ StoreOverride(n)
      PROVE  memory' = memory
  BY <1>5, AsksLeaveTables DEF StoreFeedback, StoreView, StoreOverride
<1> QED  BY <1>2, <1>3, <1>4, <1>5, FeedbackSteps DEF Ranks

\* The rows a stored ranking sums count each kind of judgment once.
LEMMA RankingSums ==
    ASSUME FeedbackTyped, OnceInv, NEW x \in Exhibit,
           NEW of \in SUBSET judgments, \A j \in of : j[2] = x
    PROVE  \E kinds \in SUBSET DOMAIN Weight :
             /\ {x} \X kinds \subseteq Judged
             /\ Score(of) = Worth(kinds)
             /\ Cardinality(of) = Cardinality(kinds)
<1> DEFINE g == [j \in of |-> j[3]]
           kinds == KindsOf(g, of)
<1>1. of \subseteq Judgment
  BY DEF FeedbackTyped
<1>2. IsFiniteSet(Judgment)
  <2>1. IsFiniteSet(Request) /\ IsFiniteSet(Exhibit)
    <3>1. 1 \in Int /\ Requests \in Int
      BY FeedbackAssumption
    <3> QED  BY <3>1, FeedbackAssumption, FS_Interval DEF Request
  <2>2. IsFiniteSet(Kinds)
    <3>1. Kinds = {"viewed"} \cup {"useful"} \cup {"misleading"}
      BY DEF Kinds
    <3> QED  BY <3>1, FS_Singleton, FS_Union
  <2>3. IsFiniteSet((Request \X Exhibit) \X Kinds)
    BY <2>1, <2>2, FS_Product
  <2> DEFINE h == [p \in (Request \X Exhibit) \X Kinds |-> <<p[1][1], p[1][2], p[2]>>]
  <2>4. h \in Surjection((Request \X Exhibit) \X Kinds, Judgment)
    <3>1. \A p \in (Request \X Exhibit) \X Kinds : h[p] \in Judgment
      BY DEF Judgment
    <3>2. ASSUME NEW j \in Judgment
          PROVE  \E p \in (Request \X Exhibit) \X Kinds : h[p] = j
      <4> DEFINE p == <<<<j[1], j[2]>>, j[3]>>
      <4>1. p \in (Request \X Exhibit) \X Kinds
        BY DEF Judgment
      <4>2. h[p] = j
        BY <4>1 DEF Judgment
      <4> QED  BY <4>1, <4>2
    <3>3. h \in [(Request \X Exhibit) \X Kinds -> Judgment]
      BY <3>1
    <3> HIDE DEF h
    <3> QED  BY <3>2, <3>3 DEF Surjection
  <2> HIDE DEF h
  <2> QED  BY <2>3, <2>4, FS_Surjection
<1>3. OneEach(g, of)
  <2>1. IsFiniteSet(of)
    BY <1>1, <1>2, FS_Subset
  <2>2. \A j \in of : j[3] \in Kinds
    BY <1>1 DEF Judgment
  <2>3. \A i, j \in of : i[3] = j[3] => i = j
    BY DEF OnceInv
  <2> QED  BY <2>1, <2>2, <2>3 DEF OneEach
<1>4. \A j \in of : g[j] = j[3] /\ g[j] \in Kinds /\ <<x, g[j]>> \in Judged
  BY <1>1 DEF Judgment, Judged
<1> HIDE DEF g
<1>5. kinds \in SUBSET Kinds
  BY <1>4 DEF KindsOf
<1>6. {x} \X kinds \subseteq Judged
  BY <1>4 DEF KindsOf
<1>7. Score(of) = Weights(kinds)
  BY <1>3, <1>4, JudgmentsWeigh
<1>8. Worth(kinds) = Weights(kinds)
  <2> HIDE DEF kinds
  <2> QED  BY <1>5, KindsWeigh
<1>9. Cardinality(of) = Cardinality(kinds)
  BY <1>3, KindsCount
<1> HIDE DEF kinds
<1> QED  BY <1>5, <1>6, <1>7, <1>8, <1>9, WeightsAre

\* A ranking that is stored counts every judgment it has read once.
LEMMA RankingsStay ==
    ASSUME FeedbackTyped, OnceInv, MemoryInv, RankingCountsOnce, FeedbackNext
    PROVE  RankingCountsOnce'
<1>1. Judged \subseteq Judged'
  BY JudgmentsStay
<1>2. CASE ranking' = ranking
  BY <1>1, <1>2 DEF RankingCountsOnce
<1>3. ASSUME NEW p \in Ranker, StoreRanking(p)
      PROVE  RankingCountsOnce'
  <2>1. memory[p].of \in SUBSET judgments
    BY <1>3 DEF MemoryInv, StoreRanking
  <2>2. ASSUME NEW x \in Exhibit
        PROVE  \E kinds \in SUBSET DOMAIN Weight :
                 /\ {x} \X kinds \subseteq Judged'
                 /\ ranking'[x] = [score |-> Worth(kinds), interactions |-> Cardinality(kinds)]
    <3> DEFINE of == {j \in memory[p].of : j[2] = x}
    <3>1. ranking'[x] = [score |-> Score(of), interactions |-> Cardinality(of)]
      BY <1>3 DEF StoreRanking
    <3>2. of \in SUBSET judgments /\ \A j \in of : j[2] = x
      BY <2>1
    <3> HIDE DEF of
    <3>3. PICK rows : rows = of
      OBVIOUS
    <3>4. rows \in SUBSET judgments /\ \A j \in rows : j[2] = x
      BY <3>2, <3>3
    <3>5. PICK kinds \in SUBSET DOMAIN Weight :
             /\ {x} \X kinds \subseteq Judged
             /\ Score(rows) = Worth(kinds)
             /\ Cardinality(rows) = Cardinality(kinds)
      BY <3>4, RankingSums
    <3>6. ranking'[x] = [score |-> Score(rows), interactions |-> Cardinality(rows)]
      BY <3>1, <3>3
    <3> QED  BY <1>1, <3>5, <3>6
  <2> QED  BY <2>2 DEF RankingCountsOnce
<1>4. ASSUME NEW p \in Ranker, ReadMemory(p) \/ ForgetMemory(p)
      PROVE  ranking' = ranking
  BY <1>4 DEF ReadMemory, ForgetMemory
<1>5. ASSUME NEW n \in Request, Asks(n) \/ StoreFeedback(n) \/ StoreView(n) \/ StoreOverride(n)
      PROVE  ranking' = ranking
  BY <1>5, AsksLeaveTables DEF StoreFeedback, StoreView, StoreOverride
<1> QED  BY <1>2, <1>3, <1>4, <1>5, FeedbackSteps DEF Ranks

\* A stored label keeps its judgments, and a decision beside it that gives way.
LEMMA LabelsStay ==
    ASSUME FeedbackTyped, KeysInv, LabelsAreWhole, FeedbackNext
    PROVE  LabelsAreWhole'
<1>1. Judged \subseteq Judged'
  BY JudgmentsStay
<1>2. CASE labels' = labels /\ decisions' = decisions
  BY <1>1, <1>2 DEF LabelsAreWhole
<1>3. decisions \in Seq([by : {"label", "owner"}, request : Request])
  BY DEF FeedbackTyped
<1>4. ASSUME NEW n \in Request, DecideRecommendation(n)
      PROVE  LabelsAreWhole'
  <2>1. labels' = labels /\ decisions' = Append(decisions, [by |-> "owner", request |-> n])
    BY <1>4 DEF DecideRecommendation
  <2>2. decisions' # <<>> /\ DOMAIN decisions' = 1..Len(decisions) + 1
    BY <1>3, <2>1
  <2>3. \A i \in DOMAIN decisions' : decisions'[i].by = "label" => i \in DOMAIN decisions /\ decisions'[i] = decisions[i]
    BY <1>3, <2>1
  <2> QED  BY <1>1, <2>1, <2>2, <2>3 DEF LabelsAreWhole
<1>5. ASSUME NEW n \in Request, StoreFeedback(n)
      PROVE  LabelsAreWhole'
  <2>1. request[n].keys = request[n].inserted /\ StoreJudgments(n)
    BY <1>5 DEF StoreFeedback
  <2>2. request[n].keys \subseteq Judged'
    BY <2>1, JudgmentsStored
  <2>3. labels' = labels \cup {[request |-> n, keys |-> request[n].keys]} /\ decisions' = LabelIfNone(n)
    BY <1>5 DEF StoreFeedback
  <2>4. decisions' # <<>>
    BY <2>3 DEF LabelIfNone
  <2>5. \A i \in DOMAIN decisions' : decisions'[i].by = "label" => i = 1
    BY <2>3 DEF LabelIfNone, LabelsAreWhole
  <2>6. \A l \in labels' : l.keys \subseteq Judged'
    BY <1>1, <2>2, <2>3 DEF LabelsAreWhole
  <2> QED  BY <2>4, <2>5, <2>6 DEF LabelsAreWhole
<1>6. ASSUME NEW n \in Request, Asks(n), ~DecideRecommendation(n)
      PROVE  labels' = labels /\ decisions' = decisions
  BY <1>6 DEF Asks, SubmitFeedback, ViewResearch, InsertJudgments, OverrideMinutes, FindOverrides,
              SupersedeOverrides, Drop
<1>7. ASSUME NEW n \in Request, StoreView(n) \/ StoreOverride(n)
      PROVE  labels' = labels /\ decisions' = decisions
  BY <1>7 DEF StoreView, StoreOverride
<1>8. ASSUME NEW p \in Ranker, Ranks(p)
      PROVE  labels' = labels /\ decisions' = decisions
  BY <1>8, RanksLeaveTables DEF OwnerTables
<1> QED  BY <1>2, <1>4, <1>5, <1>6, <1>7, <1>8, FeedbackSteps

\* Every step keeps the types.
LEMMA FeedbackStaysTyped ==
    ASSUME FeedbackTyped, KeysInv, FeedbackNext
    PROVE  FeedbackTyped'
<1>1. judgments' \subseteq Judgment
  BY JudgmentsStay
<1>2. request' \in [Request -> Pending]
  <2>1. ASSUME NEW n \in Request, Asks(n) \/ StoreFeedback(n) \/ StoreView(n) \/ StoreOverride(n)
        PROVE  request' \in [Request -> Pending]
    BY <2>1, RequestsMove DEF Only
  <2>2. ASSUME NEW p \in Ranker, Ranks(p)
        PROVE  request' = request
    BY <2>2, RanksLeaveTables
  <2> QED  BY <2>1, <2>2, FeedbackSteps DEF FeedbackTyped
<1>3. DOMAIN memory' = Ranker /\ DOMAIN ranking' = Exhibit
  <2>1. ASSUME NEW n \in Request, Asks(n) \/ StoreFeedback(n) \/ StoreView(n) \/ StoreOverride(n)
        PROVE  memory' = memory /\ ranking' = ranking
    BY <2>1, AsksLeaveTables DEF StoreFeedback, StoreView, StoreOverride
  <2>2. ASSUME NEW p \in Ranker, Ranks(p)
        PROVE  DOMAIN memory' = Ranker /\ DOMAIN ranking' = Exhibit
    BY <2>2 DEF Ranks, ReadMemory, StoreRanking, ForgetMemory, FeedbackTyped
  <2> QED  BY <2>1, <2>2, FeedbackSteps DEF FeedbackTyped
<1>4. labels' \subseteq [request : Request, keys : SUBSET Key]
  <2>1. CASE labels' = labels
    BY <2>1 DEF FeedbackTyped
  <2>2. ASSUME NEW n \in Request, StoreFeedback(n)
        PROVE  labels' \subseteq [request : Request, keys : SUBSET Key]
    BY <2>2 DEF StoreFeedback, FeedbackTyped, KeysInv
  <2>3. ASSUME NEW n \in Request, Asks(n) \/ StoreView(n) \/ StoreOverride(n)
        PROVE  labels' = labels
    BY <2>3, AsksLeaveTables DEF StoreView, StoreOverride, OwnerTables
  <2>4. ASSUME NEW p \in Ranker, Ranks(p)
        PROVE  labels' = labels
    BY <2>4, RanksLeaveTables DEF OwnerTables
  <2> QED  BY <2>1, <2>2, <2>3, <2>4, FeedbackSteps
<1>5. decisions' \in Seq([by : {"label", "owner"}, request : Request])
  <2>1. CASE decisions' = decisions
    BY <2>1 DEF FeedbackTyped
  <2>2. ASSUME NEW n \in Request, StoreFeedback(n) \/ DecideRecommendation(n)
        PROVE  decisions' \in Seq([by : {"label", "owner"}, request : Request])
    <3> DEFINE D == [by : {"label", "owner"}, request : Request]
    <3>1. decisions \in Seq(D)
      BY DEF FeedbackTyped
    <3>2. [by |-> "label", request |-> n] \in D /\ [by |-> "owner", request |-> n] \in D
      OBVIOUS
    <3>3. \/ decisions' = <<[by |-> "label", request |-> n]>>
          \/ decisions' = decisions
          \/ decisions' = Append(decisions, [by |-> "owner", request |-> n])
      BY <2>2 DEF StoreFeedback, DecideRecommendation, LabelIfNone
    <3> HIDE DEF D
    <3>4. <<[by |-> "label", request |-> n]>> \in Seq(D)
      BY <3>2
    <3>5. Append(decisions, [by |-> "owner", request |-> n]) \in Seq(D)
      BY <3>1, <3>2
    <3>6. decisions' \in Seq(D)
      BY <3>1, <3>3, <3>4, <3>5
    <3> QED  BY <3>6 DEF D
  <2>3. ASSUME NEW n \in Request, Asks(n), ~DecideRecommendation(n)
        PROVE  decisions' = decisions
    BY <2>3 DEF Asks, SubmitFeedback, ViewResearch, InsertJudgments, OverrideMinutes, FindOverrides,
                SupersedeOverrides, Drop
  <2>4. ASSUME NEW n \in Request, StoreView(n) \/ StoreOverride(n)
        PROVE  decisions' = decisions
    BY <2>4 DEF StoreView, StoreOverride
  <2>5. ASSUME NEW p \in Ranker, Ranks(p)
        PROVE  decisions' = decisions
    BY <2>5, RanksLeaveTables
  <2> QED  BY <2>1, <2>2, <2>3, <2>4, <2>5, FeedbackSteps
<1>6. minutes' \subseteq [request : Request, live : BOOLEAN, after : SUBSET Request]
  <2>1. CASE minutes' = minutes
    BY <2>1 DEF FeedbackTyped
  <2>2. ASSUME NEW n \in Request, StoreOverride(n)
        PROVE  minutes' \subseteq [request : Request, live : BOOLEAN, after : SUBSET Request]
    <3>1. request[n].seen \subseteq Request
      BY DEF FeedbackTyped, Pending
    <3> DEFINE M == [request : Request, live : BOOLEAN, after : SUBSET Request]
               Put(row) == IF row.request \in request[n].held THEN [row EXCEPT !.live = FALSE] ELSE row
    <3>2. \A row \in minutes : Put(row) \in M
      BY DEF FeedbackTyped
    <3>3. [request |-> n, live |-> TRUE, after |-> request[n].seen] \in M
      BY <3>1
    <3>4. minutes' = {Put(row) : row \in minutes} \cup {[request |-> n, live |-> TRUE, after |-> request[n].seen]}
      BY <2>2 DEF StoreOverride
    <3> HIDE DEF M, Put
    <3>5. minutes' \subseteq M
      BY <3>2, <3>3, <3>4
    <3> QED  BY <3>5 DEF M
  <2>3. ASSUME NEW n \in Request, Asks(n) \/ StoreFeedback(n) \/ StoreView(n)
        PROVE  minutes' = minutes
    BY <2>3, AsksLeaveTables DEF StoreView, StoreFeedback, OwnerTables
  <2>4. ASSUME NEW p \in Ranker, Ranks(p)
        PROVE  minutes' = minutes
    BY <2>4, RanksLeaveTables DEF OwnerTables
  <2> QED  BY <2>1, <2>2, <2>3, <2>4, FeedbackSteps
<1> QED  BY <1>1, <1>2, <1>3, <1>4, <1>5, <1>6 DEF FeedbackTyped

-----------------------------------------------------------------------------
\* A request that moves has not ended.
LEMMA ClosedStay ==
    ASSUME NEW n \in Request, Asks(n) \/ StoreFeedback(n) \/ StoreView(n) \/ StoreOverride(n)
    PROVE  request[n].at # "closed"
BY DEF Asks, Begins, SubmitFeedback, ViewResearch, InsertJudgments, DecideRecommendation, OverrideMinutes,
       FindOverrides, SupersedeOverrides, Drop, StoreFeedback, StoreView, StoreOverride

\* A step that leaves the overrides as they are.
LEMMA RowsStandStill ==
    ASSUME RowsStand, minutes' = minutes, \A r \in minutes : request'[r.request].at = "closed"
    PROVE  RowsStand'
<1>1. LiveOverrides' = LiveOverrides /\ Overridden' = Overridden
  BY DEF LiveOverrides, Overridden
<1> QED  BY <1>1 DEF RowsStand

\* ... when the request that moved will still supersede the live ones it has seen.
LEMMA SupersedesStill ==
    ASSUME FeedbackTyped, RowsStand, WillSupersede, NEW n \in Request, Only(n), minutes' = minutes,
           /\ request'[n].at \in {"override", "found", "superseded"} => request'[n].seen \subseteq Overridden
           /\ request'[n].at = "found" =>
                \A r \in LiveOverrides : r.request \in request'[n].seen => r.request \in request'[n].keys
           /\ request'[n].at = "superseded" =>
                \A r \in LiveOverrides : r.request \in request'[n].seen => r.request \in request'[n].held
    PROVE  WillSupersede'
<1>1. LiveOverrides' = LiveOverrides /\ Overridden' = Overridden
  BY DEF LiveOverrides, Overridden
<1>2. \A k \in Request : k # n => request'[k] = request[k]
  BY DEF Only
<1> QED  BY <1>1, <1>2 DEF WillSupersede

\* What storing an override makes of a row, and the row it adds.
Kept(q, r, held) == /\ q = [r EXCEPT !.live = q.live]
                    /\ q.request = r.request /\ q.after = r.after
                    /\ q.live = (r.live /\ r.request \notin held)

NewRow(n) == [request |-> n, live |-> TRUE, after |-> request[n].seen]

\* What storing an override makes of the rows.
LEMMA OverrideStored ==
    ASSUME FeedbackTyped, RowsStand, NEW n \in Request, StoreOverride(n)
    PROVE  /\ Overridden' = Overridden \cup {n} /\ n \notin Overridden
           /\ \E r \in LiveOverrides' : r.request = n
           /\ \A q \in minutes' : q = NewRow(n) \/ \E r \in minutes : Kept(q, r, request[n].held)
<1> DEFINE M == [request : Request, live : BOOLEAN, after : SUBSET Request]
           Put(row) == IF row.request \in request[n].held THEN [row EXCEPT !.live = FALSE] ELSE row
           new == NewRow(n)
<1>1. minutes' = {Put(row) : row \in minutes} \cup {new}
  BY DEF StoreOverride, NewRow
<1>2. \A r \in minutes : Kept(Put(r), r, request[n].held)
  BY DEF FeedbackTyped, Kept
<1>3. new.request = n /\ new.live
  BY DEF NewRow
<1> HIDE DEF Put, new
<1>4. Overridden' = Overridden \cup {n}
  <2>1. \A q \in minutes' : q.request \in Overridden \cup {n}
    BY <1>1, <1>2, <1>3 DEF Overridden, Kept
  <2>2. \A m \in Overridden \cup {n} : \E q \in minutes' : q.request = m
    <3> TAKE m \in Overridden \cup {n}
    <3>1. CASE m = n
      <4>1. new \in minutes'
        BY <1>1
      <4> QED  BY <1>3, <3>1, <4>1
    <3>2. CASE m # n
      <4>1. PICK r \in minutes : r.request = m
        BY <3>2 DEF Overridden
      <4>2. Put(r) \in minutes' /\ Put(r).request = m
        BY <1>1, <1>2, <4>1 DEF Kept
      <4> QED  BY <4>2
    <3> QED  BY <3>1, <3>2
  <2>3. Overridden' = {q.request : q \in minutes'}
    BY DEF Overridden
  <2> QED  BY <2>1, <2>2, <2>3
<1>5. n \notin Overridden
  BY DEF RowsStand, Overridden, StoreOverride
<1>6. new \in LiveOverrides'
  BY <1>1, <1>3 DEF LiveOverrides
<1>7. ASSUME NEW q \in minutes'
      PROVE  q = new \/ \E r \in minutes : Kept(q, r, request[n].held)
  BY <1>1, <1>2
<1>8. \E r \in LiveOverrides' : r.request = n
  BY <1>3, <1>6
<1> QED  BY <1>4, <1>5, <1>7, <1>8 DEF new

\* The new row is live, nobody was stored after it, and the live ones it was stored
\* after are the ones it holds.
LEMMA RowsStandWhenStored ==
    ASSUME FeedbackTyped, RowsStand, WillSupersede, NEW n \in Request, StoreOverride(n)
    PROVE  RowsStand'
<1> DEFINE new == NewRow(n)
           From(q, r) == Kept(q, r, request[n].held)
<1>1. /\ Overridden' = Overridden \cup {n} /\ n \notin Overridden
      /\ LiveOverrides' # {}
      /\ \A q \in minutes' : q = new \/ \E r \in minutes : From(q, r)
  BY OverrideStored
<1>2. Only(n) /\ request'[n] = Quiet("closed")
  BY RequestEnds
<1>3. new.request = n /\ new.after = request[n].seen
  BY DEF NewRow
<1> HIDE DEF new
<1>4. request[n].seen \subseteq Overridden
  BY DEF WillSupersede, StoreOverride
<1>5. \A r \in minutes : r.request \in Overridden /\ r.request \in Request /\ r.request # n
  BY <1>1 DEF Overridden, FeedbackTyped
<1>6. ASSUME NEW q \in minutes', NEW w \in minutes', q.request = w.request
      PROVE  q = w
  <2>1. CASE q = new \/ w = new
    BY <1>1, <1>3, <1>5, <1>6, <2>1 DEF Kept
  <2>2. CASE q # new /\ w # new
    <3>1. PICK r \in minutes : From(q, r)
      BY <1>1, <2>2
    <3>2. PICK s \in minutes : From(w, s)
      BY <1>1, <2>2
    <3>3. r = s
      BY <1>6, <3>1, <3>2 DEF RowsStand, Kept
    <3> QED  BY <3>1, <3>2, <3>3 DEF Kept
  <2> QED  BY <2>1, <2>2
<1>7. ASSUME NEW q \in minutes'
      PROVE  request'[q.request].at = "closed" /\ q.after \subseteq Overridden'
  <2>1. CASE q = new
    BY <1>1, <1>2, <1>3, <1>4, <2>1 DEF Quiet
  <2>2. ASSUME NEW r \in minutes, From(q, r)
        PROVE  request'[q.request].at = "closed" /\ q.after \subseteq Overridden'
    <3>1. request'[r.request] = request[r.request]
      BY <1>2, <1>5 DEF Only
    <3> QED  BY <1>1, <2>2, <3>1 DEF RowsStand, Kept
  <2> QED  BY <1>1, <2>1, <2>2
<1>8. ASSUME NEW q \in LiveOverrides', NEW w \in minutes'
      PROVE  q.request \notin w.after
  <2>1. q \in minutes' /\ q.live
    BY DEF LiveOverrides
  <2>2. CASE q = new
    <3>1. CASE w = new
      BY <1>1, <1>3, <1>4, <2>2, <3>1
    <3>2. ASSUME NEW s \in minutes, From(w, s)
          PROVE  q.request \notin w.after
      BY <1>1, <1>3, <2>2, <3>2 DEF RowsStand, Kept
    <3> QED  BY <1>1, <3>1, <3>2
  <2>3. ASSUME NEW r \in minutes, From(q, r)
        PROVE  q.request \notin w.after
    <3>1. r \in LiveOverrides /\ r.request \notin request[n].held /\ q.request = r.request
      BY <2>1, <2>3 DEF LiveOverrides, Kept
    <3>2. CASE w = new
      <4>1. r.request \notin request[n].seen
        BY <3>1 DEF WillSupersede, StoreOverride
      <4> QED  BY <1>3, <3>1, <3>2, <4>1
    <3>3. ASSUME NEW s \in minutes, From(w, s)
          PROVE  q.request \notin w.after
      BY <3>1, <3>3 DEF RowsStand, Kept
    <3> QED  BY <1>1, <3>2, <3>3
  <2> QED  BY <1>1, <2>1, <2>2, <2>3
<1> HIDE DEF From
<1> QED  BY <1>1, <1>6, <1>7, <1>8 DEF RowsStand

\* No other request has seen the new row, and the live ones are no more than before.
LEMMA SupersedesWhenStored ==
    ASSUME FeedbackTyped, RowsStand, WillSupersede, NEW n \in Request, StoreOverride(n)
    PROVE  WillSupersede'
<1>1. /\ Overridden' = Overridden \cup {n} /\ n \notin Overridden
      /\ \A q \in minutes' : q.request = n \/ \E r \in minutes : q.request = r.request /\ (q.live => r.live)
  <2>1. /\ Overridden' = Overridden \cup {n} /\ n \notin Overridden
        /\ \A q \in minutes' : q = NewRow(n) \/ \E r \in minutes : Kept(q, r, request[n].held)
    BY OverrideStored
  <2>2. NewRow(n).request = n
    BY DEF NewRow
  <2>3. \A q, r : Kept(q, r, request[n].held) => q.request = r.request /\ (q.live => r.live)
    BY DEF Kept
  <2> QED  BY <2>1, <2>2, <2>3
<1>2. Only(n) /\ request'[n] = Quiet("closed")
  BY RequestEnds
<1>3. \A k \in Request : k # n => request'[k] = request[k]
  BY <1>2 DEF Only
<1>4. ASSUME NEW q \in LiveOverrides'
      PROVE  q.request = n \/ \E r \in LiveOverrides : q.request = r.request
  <2>1. q \in minutes' /\ q.live
    BY DEF LiveOverrides
  <2> QED  BY <1>1, <2>1 DEF LiveOverrides
<1>5. ASSUME NEW k \in Request
      PROVE  /\ request'[k].at \in {"override", "found", "superseded"} => request'[k].seen \subseteq Overridden'
             /\ request'[k].at = "found" =>
                  \A r \in LiveOverrides' : r.request \in request'[k].seen => r.request \in request'[k].keys
             /\ request'[k].at = "superseded" =>
                  \A r \in LiveOverrides' : r.request \in request'[k].seen => r.request \in request'[k].held
  <2>1. CASE k = n
    BY <1>2, <2>1 DEF Quiet
  <2>2. CASE k # n
    <3>1. request'[k] = request[k]
      BY <1>3, <2>2
    <3>2. request[k].at \in {"override", "found", "superseded"} => n \notin request[k].seen
      BY <1>1 DEF WillSupersede
    <3> QED  BY <1>1, <1>4, <3>1, <3>2 DEF WillSupersede
  <2> QED  BY <2>1, <2>2
<1> QED  BY <1>5 DEF WillSupersede

\* Every step keeps what is said of the overrides.
LEMMA OverridesStay ==
    ASSUME FeedbackTyped, KeysInv, RowsStand, WillSupersede, FeedbackNext
    PROVE  RowsStand' /\ WillSupersede'
<1>1. ASSUME NEW n \in Request, Asks(n) \/ StoreFeedback(n) \/ StoreView(n)
      PROVE  RowsStand' /\ WillSupersede'
  <2>1. Only(n) /\ request[n] \in Pending
    BY <1>1, RequestsMove DEF FeedbackTyped
  <2>2. minutes' = minutes
    BY <1>1, AsksLeaveTables DEF StoreFeedback, StoreView, OwnerTables
  <2>3. \A r \in minutes : request'[r.request].at = "closed"
    <3>1. \A r \in minutes : r.request \in Request /\ request[r.request].at = "closed"
      BY DEF FeedbackTyped, RowsStand
    <3>2. request[n].at # "closed"
      BY <1>1, ClosedStay
    <3> QED  BY <2>1, <3>1, <3>2 DEF Only
  <2>4. RowsStand'
    BY <2>2, <2>3, RowsStandStill
  <2>5. WillSupersede'
    <3>1. CASE request'[n] = Quiet("closed")
      BY <2>1, <2>2, <3>1, SupersedesStill DEF Quiet
    <3>2. ASSUME NEW keys \in SUBSET Key, NEW place \in {"feedback", "view"},
                 request'[n] = [Quiet(place) EXCEPT !.keys = keys]
          PROVE  WillSupersede'
      BY <2>1, <2>2, <3>2, SupersedesStill DEF Quiet
    <3>3. CASE request[n].at \in {"feedback", "view"} /\ request'[n] = [request[n] EXCEPT !.inserted = request[n].keys]
      <4>1. request'[n].at \in {"feedback", "view"}
        BY <2>1, <3>3 DEF Pending
      <4> QED  BY <2>1, <2>2, <4>1, SupersedesStill
    <3>4. CASE request'[n] = [Quiet("override") EXCEPT !.seen = Overridden]
      BY <2>1, <2>2, <3>4, SupersedesStill DEF Quiet
    <3>5. CASE /\ request[n].at = "override"
               /\ request'[n] = [request[n] EXCEPT !.at = "found", !.keys = {row.request : row \in LiveOverrides}]
      <4>1. /\ request'[n].at = "found" /\ request'[n].seen = request[n].seen
            /\ request'[n].keys = {row.request : row \in LiveOverrides}
        BY <2>1, <3>5 DEF Pending
      <4>2. request[n].seen \subseteq Overridden
        BY <3>5 DEF WillSupersede
      <4> QED  BY <2>1, <2>2, <4>1, <4>2, SupersedesStill
    <3>6. CASE /\ request[n].at = "found"
               /\ request'[n] = [request[n] EXCEPT !.at = "superseded",
                                 !.held = {row.request : row \in LiveOverrides} \cap request[n].keys]
      <4>1. /\ request'[n].at = "superseded" /\ request'[n].seen = request[n].seen
            /\ request'[n].held = {row.request : row \in LiveOverrides} \cap request[n].keys
        BY <2>1, <3>6 DEF Pending
      <4>2. /\ request[n].seen \subseteq Overridden
            /\ \A r \in LiveOverrides : r.request \in request[n].seen => r.request \in request[n].keys
        BY <3>6 DEF WillSupersede
      <4> QED  BY <2>1, <2>2, <4>1, <4>2, SupersedesStill
    <3> QED  BY <1>1, <3>1, <3>2, <3>3, <3>4, <3>5, <3>6, RequestsMove
  <2> QED  BY <2>4, <2>5
<1>2. ASSUME NEW n \in Request, StoreOverride(n)
      PROVE  RowsStand' /\ WillSupersede'
  BY <1>2, RowsStandWhenStored, SupersedesWhenStored
<1>3. ASSUME NEW p \in Ranker, Ranks(p)
      PROVE  RowsStand' /\ WillSupersede'
  BY <1>3, RanksLeaveTables DEF RowsStand, WillSupersede, LiveOverrides, Overridden, OwnerTables
<1> QED  BY <1>1, <1>2, <1>3, FeedbackSteps

\* A live override that no other was stored after is shown.
LEMMA OverrideShown ==
    ASSUME FeedbackTyped, RowsStand
    PROVE  OverrideIsCurrent
<1> SUFFICES ASSUME minutes # {}
             PROVE  LiveOverrides # {} /\ \A row \in minutes : ShownOverride.request \notin row.after
  BY DEF OverrideIsCurrent
<1>1. LiveOverrides # {}
  BY DEF RowsStand
<1> DEFINE T == {Requests - row.request : row \in LiveOverrides}
<1>2. \A row \in LiveOverrides : row.request \in 1..Requests
  BY DEF LiveOverrides, FeedbackTyped, Request
<1>3. T \in SUBSET Nat /\ T # {}
  BY <1>1, <1>2, FeedbackAssumption
<1>4. PICK t \in T : \A y \in T : t <= y
  <2> HIDE DEF T
  <2> QED  BY <1>3, LeastOfNat
<1>5. PICK row \in LiveOverrides : t = Requests - row.request
  BY <1>4
<1>6. ASSUME NEW other \in LiveOverrides
      PROVE  other.request <= row.request
  <2>1. t <= Requests - other.request
    BY <1>4
  <2> QED  BY <1>2, <1>5, <2>1, FeedbackAssumption
<1>7. \E shown \in LiveOverrides : \A other \in LiveOverrides : other.request <= shown.request
  BY <1>6
<1>8. ShownOverride \in LiveOverrides
  BY <1>7 DEF ShownOverride
<1> QED  BY <1>1, <1>8 DEF RowsStand

-----------------------------------------------------------------------------
\* The owner has said nothing.
LEMMA OwnerBegins ==
    ASSUME FeedbackInit
    PROVE  OwnerInv
<1>1. Quiet("unsent") \in Pending
  BY QuietPends DEF Place
<1>2. FeedbackTyped
  BY <1>1 DEF FeedbackInit, FeedbackTyped
<1>3. KeysInv /\ OnceInv /\ MemoryInv
  BY DEF FeedbackInit, KeysInv, OnceInv, MemoryInv, Quiet, Judged
<1>4. RowsStand /\ WillSupersede
  BY DEF FeedbackInit, RowsStand, WillSupersede, LiveOverrides, Quiet
<1>5. LabelsAreWhole /\ RankingCountsOnce
  BY DEF FeedbackInit, LabelsAreWhole, RankingCountsOnce
<1> QED  BY <1>2, <1>3, <1>4, <1>5 DEF OwnerInv

\* Every step keeps the invariant.
LEMMA OwnerStays ==
    ASSUME OwnerInv, [FeedbackNext]_feedbackVars
    PROVE  OwnerInv'
<1>1. CASE FeedbackNext
  <2>1. FeedbackTyped' /\ KeysInv'
    BY <1>1, FeedbackStaysTyped, KeysStay DEF OwnerInv
  <2>2. OnceInv' /\ MemoryInv'
    BY <1>1, OnceStays, MemoryStays DEF OwnerInv
  <2>3. RowsStand' /\ WillSupersede'
    BY <1>1, OverridesStay DEF OwnerInv
  <2>4. LabelsAreWhole' /\ RankingCountsOnce'
    BY <1>1, LabelsStay, RankingsStay DEF OwnerInv
  <2> QED  BY <2>1, <2>2, <2>3, <2>4 DEF OwnerInv
<1>2. CASE UNCHANGED feedbackVars
  BY <1>2 DEF OwnerInv, FeedbackTyped, KeysInv, OnceInv, MemoryInv, RowsStand, WillSupersede, LabelsAreWhole,
              RankingCountsOnce, LiveOverrides, Overridden, Judged, feedbackVars
<1> QED  BY <1>1, <1>2

\* The owner is heard, however requests overlap, are sent twice, are refused or die,
\* whatever their number, the exhibits and the processes that rank (api/main.py:1469,
\* 2349, 2376): labels are whole and give way to the owner's decision, the minutes
\* shown are never some the owner has replaced, and a judgment counts once.
THEOREM TheOwnerIsHeard == FeedbackSpec => []OwnerIsHeard
<1>1. OwnerInv => OwnerIsHeard
  BY OverrideShown DEF OwnerInv, OwnerIsHeard
<1> QED  BY <1>1, OwnerBegins, OwnerStays, PTL DEF FeedbackSpec

-----------------------------------------------------------------------------
(***************************************************************************)
(* What the loop believes about its errors. A run keeps to itself what it  *)
(* has judged until it commits, so the invariant follows each judgement    *)
(* from the evidence it was weighed on: links that are committed, or will  *)
(* be with it. Nothing another run commits takes a link, an attribution or *)
(* the time of a claim away.                                               *)
(***************************************************************************)
Task == {"review", "propose"}
Author == (Reviewer \X Nat) \cup {None}
Charge == (Task \X Cause) \cup {None}
Relationship == {"supporting", "contradicting"}
Link == Cause \X Episode \X Relationship
ClaimStatus == {"proposed", "supported", "refuted", "inconclusive"}

Claimed == [status : ClaimStatus, created : Nat, targets : SUBSET {PropOf[m] : m \in Market},
            supporting : {Cardinality(rows) : rows \in SUBSET Episode} \cup {0},
            contradicting : {Cardinality(rows) : rows \in SUBSET Episode} \cup {0}, critique : Author]

Advised == [run : Reviewer \X Nat, task : Task, subject : Cause, disposition : {"used", "fallback"}, charged : Charge]

Labour == [at : {"rest", "review", "judge", "propose", "design"}, runs : Nat, todo : SUBSET Cause,
         subject : Cause \cup {None}, evidence : SUBSET Episode, enabled : BOOLEAN,
         wrote : [Cause -> Claimed \cup {None}], links : SUBSET Link, asked : SUBSET Advised,
         added : SUBSET (Cause \X Author), usage : Charge]

BeliefsTyped ==
    /\ now \in Nat
    /\ attributed \in [Episode -> Nat] /\ nightly \in Nat
    /\ hypothesis \in [Cause -> Claimed \cup {None}]
    /\ linked \in SUBSET Link
    /\ proposals \in [Cause -> Seq([status : {"proposed", "approved", "rejected"}, author : Author])]
    /\ advisories \in SUBSET Advised
    /\ work \in [Reviewer -> Labour]

\* A link says of an episode what its causes say.
LinksInv ==
    /\ \A l \in linked : l[3] = "supporting" <=> Supports(l[1], l[2])
    /\ \A p \in Reviewer : \A l \in work[p].links : l[3] = "supporting" <=> Supports(l[1], l[2])

\* An episode of the evidence was attributed after the claim and is linked to it.
Weighed(times, c, created, e, links) == times[e] > created /\ LinkRow(c, e) \in links

\* A verdict and its tally come from evidence.
Judgement(times, c, h, links) ==
    \E evidence \in SUBSET Episode :
        LET s == {e \in evidence : Supports(c, e)}
            k == evidence \ s
        IN /\ \A e \in evidence : Weighed(times, c, h.created, e, links)
           /\ h.status = Verdict(s, k) /\ h.supporting = Cardinality(s) /\ h.contradicting = Cardinality(k)

Told(rows, run, task, c) ==
    run = None \/ \E a \in rows : a.run = run /\ a.task = task /\ a.subject = c /\ a.disposition = "used"

\* What a review works on is claimed; what it weighs, and has written, comes from
\* what is linked or will be with it.
WorkOK(w, claims, times, links) ==
    /\ w.at = "judge" =>
         /\ w.subject \in w.todo
         /\ \A e \in w.evidence : Weighed(times, w.subject, claims[w.subject].created, e, links \cup w.links)
    /\ w.at \in {"review", "judge"} => \A c \in w.todo : claims[c] # None
    /\ w.at = "design" => w.todo # {}
    /\ \A c \in Cause : w.wrote[c] # None =>
         /\ claims[c] # None /\ w.wrote[c].created = claims[c].created
         /\ w.wrote[c].status # "proposed" => Judgement(times, c, w.wrote[c], links \cup w.links)
         /\ Told(w.asked, w.wrote[c].critique, "review", c)
    /\ \A a \in w.added : Told(w.asked, a[2], "propose", a[1])

WorksInv == \A p \in Reviewer : WorkOK(work[p], hypothesis, attributed, linked)

Charged(rows) == \A a \in rows : a.disposition = "used" => a.charged \in {None, <<a.task, a.subject>>}

ChargesInv == Charged(advisories) /\ \A p \in Reviewer : Charged(work[p].asked)

ClaimsInv == \A c \in Cause : hypothesis[c] # None =>
    /\ hypothesis[c].status # "proposed" => Judgement(attributed, c, hypothesis[c], linked)
    /\ Told(advisories, hypothesis[c].critique, "review", c)

AuthorsInv == \A c \in Cause : \A i \in DOMAIN proposals[c] : Told(advisories, proposals[c][i].author, "propose", c)

BeliefsInv == BeliefsTyped /\ LinksInv /\ WorksInv /\ ChargesInv /\ ClaimsInv /\ AuthorsInv

-----------------------------------------------------------------------------
\* What was attributed stays so, and a claim keeps the time it was written.
Later(times, next) == \A e \in Episode : times[e] # 0 => next[e] = times[e]
KeepTheirTime(claims, next) == \A c \in Cause : claims[c] # None => next[c] # None /\ next[c].created = claims[c].created

\* A judgement stands when more is attributed and more is linked.
LEMMA JudgementStands ==
    ASSUME NEW c, NEW h, h.created \in Nat,
           NEW times \in [Episode -> Nat], NEW next, Later(times, next),
           NEW links, NEW more, links \subseteq more, Judgement(times, c, h, links)
    PROVE  Judgement(next, c, h, more)
<1>1. PICK evidence \in SUBSET Episode :
        LET s == {e \in evidence : Supports(c, e)}
            k == evidence \ s
        IN /\ \A e \in evidence : Weighed(times, c, h.created, e, links)
           /\ h.status = Verdict(s, k) /\ h.supporting = Cardinality(s) /\ h.contradicting = Cardinality(k)
  BY DEF Judgement
<1>2. \A e \in evidence : Weighed(next, c, h.created, e, more)
  BY <1>1 DEF Weighed, Later
<1> QED  BY <1>1, <1>2 DEF Judgement

\* So does what is told of an advisory.
LEMMA ToldStays ==
    ASSUME NEW rows, NEW more, rows \subseteq more, NEW run, NEW task, NEW c, Told(rows, run, task, c)
    PROVE  Told(more, run, task, c)
BY DEF Told

\* A run in progress is not disturbed by what the others commit.
LEMMA WorkStands ==
    ASSUME NEW w \in Labour,
           NEW claims \in [Cause -> Claimed \cup {None}], NEW nextClaims, KeepTheirTime(claims, nextClaims),
           NEW times \in [Episode -> Nat], NEW nextTimes, Later(times, nextTimes),
           NEW links, NEW more, links \subseteq more,
           WorkOK(w, claims, times, links)
    PROVE  WorkOK(w, nextClaims, nextTimes, more)
<1>1. links \cup w.links \subseteq more \cup w.links
  OBVIOUS
<1>2. ASSUME w.at = "judge"
      PROVE  /\ w.subject \in w.todo
             /\ \A e \in w.evidence :
                  Weighed(nextTimes, w.subject, nextClaims[w.subject].created, e, more \cup w.links)
  <2>1. w.subject \in Cause /\ w.todo \subseteq Cause /\ w.evidence \subseteq Episode
    BY <1>2 DEF WorkOK, Labour
  <2>2. claims[w.subject] # None
    BY <1>2 DEF WorkOK
  <2>3. claims[w.subject] \in Claimed
    BY <2>1, <2>2
  <2>4. nextClaims[w.subject].created = claims[w.subject].created /\ claims[w.subject].created \in Nat
    BY <2>1, <2>2, <2>3 DEF KeepTheirTime, Claimed
  <2>5. \A e \in w.evidence : Weighed(times, w.subject, claims[w.subject].created, e, links \cup w.links)
    BY <1>2 DEF WorkOK
  <2>6. ASSUME NEW e \in w.evidence
        PROVE  Weighed(nextTimes, w.subject, nextClaims[w.subject].created, e, more \cup w.links)
    <3>1. times[e] \in Nat /\ times[e] > claims[w.subject].created /\ LinkRow(w.subject, e) \in links \cup w.links
      BY <2>1, <2>5 DEF Weighed
    <3>2. nextTimes[e] = times[e]
      BY <2>1, <2>4, <3>1 DEF Later
    <3> QED  BY <1>1, <2>4, <3>1, <3>2 DEF Weighed
  <2>7. w.subject \in w.todo
    BY <1>2 DEF WorkOK
  <2> QED  BY <2>6, <2>7
<1>3. ASSUME NEW c \in Cause, w.wrote[c] # None
      PROVE  /\ nextClaims[c] # None /\ w.wrote[c].created = nextClaims[c].created
             /\ w.wrote[c].status # "proposed" => Judgement(nextTimes, c, w.wrote[c], more \cup w.links)
             /\ Told(w.asked, w.wrote[c].critique, "review", c)
  <2>1. w.wrote[c] \in Claimed
    BY <1>3 DEF Labour
  <2>2. w.wrote[c].created \in Nat
    BY <2>1 DEF Claimed
  <2>3. /\ claims[c] # None /\ w.wrote[c].created = claims[c].created
        /\ w.wrote[c].status # "proposed" => Judgement(times, c, w.wrote[c], links \cup w.links)
        /\ Told(w.asked, w.wrote[c].critique, "review", c)
    BY <1>3 DEF WorkOK
  <2>4. w.wrote[c].status # "proposed" => Judgement(nextTimes, c, w.wrote[c], more \cup w.links)
    BY <1>1, <2>2, <2>3, JudgementStands
  <2> QED  BY <2>3, <2>4 DEF KeepTheirTime
<1>4. w.at \in {"review", "judge"} => \A c \in w.todo : nextClaims[c] # None
  BY DEF WorkOK, KeepTheirTime, Labour
<1>5. w.at = "design" => w.todo # {}
  BY DEF WorkOK
<1>6. \A a \in w.added : Told(w.asked, a[2], "propose", a[1])
  BY DEF WorkOK
<1> QED  BY <1>2, <1>3, <1>4, <1>5, <1>6 DEF WorkOK

-----------------------------------------------------------------------------
\* A process at rest has nothing in hand.
LEMMA RestingIsWork ==
    ASSUME NEW n \in Nat
    PROVE  /\ Resting(n) \in Labour
           /\ \A claims, times, links : WorkOK(Resting(n), claims, times, links)
<1>1. [c \in Cause |-> None] \in [Cause -> Claimed \cup {None}]
  OBVIOUS
<1>2. Resting(n) \in Labour
  BY <1>1 DEF Resting, Labour, Charge
<1>3. \A claims, times, links : WorkOK(Resting(n), claims, times, links)
  BY DEF Resting, WorkOK
<1> QED  BY <1>2, <1>3

\* What a process keeps when another one moves.
Others(p) == \A q \in Reviewer : q # p => work'[q] = work[q]

\* Replacing the work of p leaves the others'.
LEMMA OthersStay ==
    ASSUME BeliefsTyped, NEW p \in Reviewer, NEW w \in Labour, work' = [work EXCEPT ![p] = w]
    PROVE  work' \in [Reviewer -> Labour] /\ work'[p] = w /\ Others(p)
BY DEF BeliefsTyped, Others

\* What the processes have in hand stands when one of them moves, or none.
LEMMA WorksStand ==
    ASSUME BeliefsTyped, WorksInv, NEW p \in Reviewer, Others(p), WorkOK(work'[p], hypothesis', attributed', linked'),
           KeepTheirTime(hypothesis, hypothesis'), Later(attributed, attributed'), linked \subseteq linked'
    PROVE  WorksInv'
<1>1. ASSUME NEW q \in Reviewer, q # p
      PROVE  WorkOK(work'[q], hypothesis', attributed', linked')
  <2>1. WorkOK(work[q], hypothesis, attributed, linked) /\ work[q] \in Labour
    BY DEF WorksInv, BeliefsTyped
  <2>2. hypothesis \in [Cause -> Claimed \cup {None}] /\ attributed \in [Episode -> Nat]
    BY DEF BeliefsTyped
  <2>3. WorkOK(work[q], hypothesis', attributed', linked')
    BY <2>1, <2>2, WorkStands
  <2> QED  BY <1>1, <2>3 DEF Others
<1> QED  BY <1>1 DEF WorksInv

LEMMA WorksStandStill ==
    ASSUME BeliefsTyped, WorksInv, work' = work,
           KeepTheirTime(hypothesis, hypothesis'), Later(attributed, attributed'), linked \subseteq linked'
    PROVE  WorksInv'
<1>1. ASSUME NEW q \in Reviewer
      PROVE  WorkOK(work'[q], hypothesis', attributed', linked')
  <2>1. WorkOK(work[q], hypothesis, attributed, linked) /\ work[q] \in Labour
    BY DEF WorksInv, BeliefsTyped
  <2>2. hypothesis \in [Cause -> Claimed \cup {None}] /\ attributed \in [Episode -> Nat]
    BY DEF BeliefsTyped
  <2> QED  BY <2>1, <2>2, WorkStands
<1> QED  BY <1>1 DEF WorksInv

\* What is believed stands while more is linked and advised.
LEMMA ClaimsStand ==
    ASSUME BeliefsTyped, ClaimsInv, Later(attributed, attributed'), linked \subseteq linked',
           advisories \subseteq advisories',
           NEW c \in Cause, hypothesis'[c] = hypothesis[c], hypothesis'[c] # None
    PROVE  /\ hypothesis'[c].status # "proposed" => Judgement(attributed', c, hypothesis'[c], linked')
           /\ Told(advisories', hypothesis'[c].critique, "review", c)
<1>1. hypothesis[c] \in Claimed /\ attributed \in [Episode -> Nat]
  BY DEF BeliefsTyped
<1>2. hypothesis[c].created \in Nat
  BY <1>1 DEF Claimed
<1>3. /\ hypothesis[c].status # "proposed" => Judgement(attributed, c, hypothesis[c], linked)
      /\ Told(advisories, hypothesis[c].critique, "review", c)
  BY DEF ClaimsInv
<1> QED  BY <1>1, <1>2, <1>3, JudgementStands, ToldStays

LEMMA AuthorsStand ==
    ASSUME AuthorsInv, proposals' = proposals, advisories \subseteq advisories'
    PROVE  AuthorsInv'
BY ToldStays DEF AuthorsInv

\* A step of the evaluation.
LEMMA EvaluationStands ==
    ASSUME BeliefsInv, BeginEvaluation \/ CommitEvaluation
    PROVE  BeliefsInv'
<1>1. /\ UNCHANGED <<hypothesis, linked, proposals, advisories, work>>
      /\ Later(attributed, attributed')
      /\ now' \in Nat /\ nightly' \in Nat /\ attributed' \in [Episode -> Nat]
  <2>1. CASE BeginEvaluation
    BY <2>1 DEF BeginEvaluation, Later, BeliefsInv, BeliefsTyped
  <2>2. CASE CommitEvaluation
    <3>1. PICK settled \in SUBSET {e \in Episode : attributed[e] = 0} \ {{}} :
             attributed' = [e \in Episode |-> IF e \in settled THEN nightly ELSE attributed[e]]
      BY <2>2 DEF CommitEvaluation
    <3> QED  BY <2>2, <3>1 DEF CommitEvaluation, Later, BeliefsInv, BeliefsTyped
  <2> QED  BY <2>1, <2>2
<1>2. BeliefsTyped'
  BY <1>1 DEF BeliefsInv, BeliefsTyped
<1>3. LinksInv' /\ ChargesInv'
  BY <1>1 DEF BeliefsInv, LinksInv, ChargesInv
<1>4. KeepTheirTime(hypothesis, hypothesis')
  BY <1>1 DEF KeepTheirTime
<1>5. WorksInv'
  BY <1>1, <1>4, WorksStandStill DEF BeliefsInv
<1>6. ClaimsInv'
  BY <1>1, ClaimsStand DEF BeliefsInv, ClaimsInv
<1>7. AuthorsInv'
  BY <1>1, AuthorsStand DEF BeliefsInv
<1> QED  BY <1>2, <1>3, <1>5, <1>6, <1>7 DEF BeliefsInv

\* A claim is new, its links support it, and nothing has been judged of it.
LEMMA ClaimStands ==
    ASSUME BeliefsInv, NEW c \in Cause, Claim(c)
    PROVE  BeliefsInv'
<1> DEFINE h == [status |-> "proposed", created |-> now, targets |-> PropsOf(Errors(c)),
                 supporting |-> 0, contradicting |-> 0, critique |-> None]
           rows == {<<c, e, "supporting">> : e \in Errors(c)}
<1>1. h \in Claimed
  <2>1. PropsOf(Errors(c)) \subseteq {PropOf[m] : m \in Market}
    <3>1. Errors(c) \subseteq Episode
      BY HypothesesAssumption DEF Errors
    <3>2. \A e \in Errors(c) : MarketOf[e] \in Market
      BY <3>1, SampleAssumption
    <3> QED  BY <3>2 DEF PropsOf, MarketsOf
  <2>2. now \in Nat
    BY DEF BeliefsInv, BeliefsTyped
  <2> HIDE DEF BeliefsInv
  <2> QED  BY <2>1, <2>2 DEF Claimed, ClaimStatus, Author
<1>2. rows \subseteq Link /\ \A l \in rows : l[3] = "supporting" /\ Supports(l[1], l[2])
  BY HypothesesAssumption DEF Link, Relationship, Errors, Supports
<1>3. /\ hypothesis[c] = None /\ hypothesis' = [hypothesis EXCEPT ![c] = h]
      /\ linked' = linked \cup rows /\ now' = now + 1
      /\ UNCHANGED <<attributed, nightly, proposals, advisories, work>>
  BY DEF Claim
<1> HIDE DEF rows
<1>4. h.status = "proposed" /\ h.critique = None
  OBVIOUS
<1> HIDE DEF h
<1>5. BeliefsTyped'
  <2>1. hypothesis' \in [Cause -> Claimed \cup {None}]
    BY <1>1, <1>3 DEF BeliefsInv, BeliefsTyped
  <2>2. linked' \in SUBSET Link
    BY <1>2, <1>3 DEF BeliefsInv, BeliefsTyped
  <2>3. now' \in Nat
    BY <1>3 DEF BeliefsInv, BeliefsTyped
  <2> QED  BY <1>3, <2>1, <2>2, <2>3 DEF BeliefsInv, BeliefsTyped
<1>6. LinksInv' /\ ChargesInv'
  BY <1>2, <1>3 DEF BeliefsInv, LinksInv, ChargesInv
<1>7. KeepTheirTime(hypothesis, hypothesis') /\ Later(attributed, attributed') /\ linked \subseteq linked'
  BY <1>3 DEF KeepTheirTime, Later, BeliefsInv, BeliefsTyped
<1>8. WorksInv'
  BY <1>3, <1>7, WorksStandStill DEF BeliefsInv
<1>9. ClaimsInv'
  <2> SUFFICES ASSUME NEW d \in Cause, hypothesis'[d] # None
               PROVE  /\ hypothesis'[d].status # "proposed" => Judgement(attributed', d, hypothesis'[d], linked')
                      /\ Told(advisories', hypothesis'[d].critique, "review", d)
    BY DEF ClaimsInv
  <2>1. CASE d = c
    <3>1. hypothesis'[d] = h
      BY <1>3, <2>1 DEF BeliefsInv, BeliefsTyped
    <3> QED  BY <1>4, <3>1 DEF Told
  <2>2. CASE d # c
    <3>1. hypothesis'[d] = hypothesis[d]
      BY <1>3, <2>2 DEF BeliefsInv, BeliefsTyped
    <3> QED  BY <1>3, <1>7, <3>1, ClaimsStand DEF BeliefsInv
  <2> QED  BY <2>1, <2>2
<1>10. AuthorsInv'
  BY <1>3, AuthorsStand DEF BeliefsInv
<1> QED  BY <1>5, <1>6, <1>8, <1>9, <1>10 DEF BeliefsInv

\* A step of one process that commits nothing.
LEMMA WorkingStands ==
    ASSUME BeliefsInv, NEW p \in Reviewer, NEW w \in Labour, work' = [work EXCEPT ![p] = w],
           UNCHANGED <<now, attributed, nightly, hypothesis, linked, proposals, advisories>>,
           WorkOK(w, hypothesis, attributed, linked), Charged(w.asked),
           \A l \in w.links : l[3] = "supporting" <=> Supports(l[1], l[2])
    PROVE  BeliefsInv'
<1>1. work' \in [Reviewer -> Labour] /\ work'[p] = w /\ Others(p)
  BY OthersStay DEF BeliefsInv
<1>2. BeliefsTyped'
  BY <1>1 DEF BeliefsInv, BeliefsTyped
<1>3. LinksInv' /\ ChargesInv'
  BY <1>1 DEF BeliefsInv, LinksInv, ChargesInv, Others
<1>4. KeepTheirTime(hypothesis, hypothesis') /\ Later(attributed, attributed') /\ linked \subseteq linked'
  BY DEF KeepTheirTime, Later
<1>5. WorksInv'
  BY <1>1, <1>4, WorksStand DEF BeliefsInv
<1>6. ClaimsInv' /\ AuthorsInv'
  BY DEF BeliefsInv, ClaimsInv, AuthorsInv
<1> QED  BY <1>2, <1>3, <1>5, <1>6 DEF BeliefsInv

\* What the invariant says of one process.
LEMMA WorkIs ==
    ASSUME BeliefsInv, NEW p \in Reviewer
    PROVE  /\ work[p] \in Labour /\ WorkOK(work[p], hypothesis, attributed, linked) /\ Charged(work[p].asked)
           /\ \A l \in work[p].links : l[3] = "supporting" <=> Supports(l[1], l[2])
BY DEF BeliefsInv, BeliefsTyped, WorksInv, ChargesInv, LinksInv

\* A review begins with nothing in hand but claims.
LEMMA BeginReviewStands ==
    ASSUME BeliefsInv, NEW p \in Reviewer, BeginReview(p)
    PROVE  BeliefsInv'
<1>1. PICK key \in Configured :
        work' = [work EXCEPT ![p] = [Resting(work[p].runs + 1) EXCEPT
                  !.at = "review", !.enabled = key,
                  !.todo = {c \in Cause : hypothesis[c] # None /\ hypothesis[c].status \in Open}]]
  BY DEF BeginReview
<1> DEFINE todo == {c \in Cause : hypothesis[c] # None /\ hypothesis[c].status \in Open}
           rest == Resting(work[p].runs + 1)
           w == [rest EXCEPT !.at = "review", !.enabled = key, !.todo = todo]
<1>2. rest \in Labour /\ WorkOK(rest, hypothesis, attributed, linked)
  BY WorkIs, RestingIsWork DEF Labour
<1>3. key \in BOOLEAN /\ todo \in SUBSET Cause /\ \A c \in todo : hypothesis[c] # None
  BY HypothesesAssumption
<1>4. rest.asked = {} /\ rest.links = {} /\ rest.added = {} /\ rest.wrote = [c \in Cause |-> None]
  BY DEF Resting
<1>5. work' = [work EXCEPT ![p] = w]
  BY <1>1
<1> HIDE DEF todo, rest
<1>6. /\ w \in Labour
      /\ w.at = "review" /\ w.todo = todo
      /\ w.asked = {} /\ w.links = {} /\ w.added = {} /\ w.wrote = [c \in Cause |-> None]
  BY <1>2, <1>3, <1>4 DEF Labour
<1> HIDE DEF w
<1>7. WorkOK(w, hypothesis, attributed, linked)
  BY <1>3, <1>6 DEF WorkOK
<1>8. Charged(w.asked) /\ \A l \in w.links : l[3] = "supporting" <=> Supports(l[1], l[2])
  BY <1>6 DEF Charged
<1>9. UNCHANGED <<now, attributed, nightly, hypothesis, linked, proposals, advisories>>
  BY DEF BeginReview
<1> QED  BY <1>5, <1>6, <1>7, <1>8, <1>9, WorkingStands

\* The eldest of some claims is one of them.
LEMMA EldestIsThere ==
    ASSUME BeliefsTyped, NEW todo \in SUBSET Cause, todo # {}, \A c \in todo : hypothesis[c] # None
    PROVE  Eldest(todo) \in todo
<1> DEFINE T == {hypothesis[c].created : c \in todo}
<1>1. \A c \in todo : hypothesis[c].created \in Nat
  BY DEF BeliefsTyped, Claimed
<1>2. T \in SUBSET Nat /\ T # {}
  BY <1>1
<1>3. PICK t \in T : \A y \in T : t <= y
  <2> HIDE DEF T
  <2> QED  BY <1>2, LeastOfNat
<1>4. PICK c \in todo : t = hypothesis[c].created
  BY <1>3
<1>5. \A d \in todo : hypothesis[c].created <= hypothesis[d].created
  BY <1>3, <1>4
<1> QED  BY <1>5 DEF Eldest

\* What is weighed came after the claim, and its links are there or are added.
LEMMA WeighStands ==
    ASSUME BeliefsInv, NEW p \in Reviewer, Weigh(p)
    PROVE  BeliefsInv'
<1> DEFINE c == Eldest(work[p].todo)
           evidence == Evidence(hypothesis[c])
           rows == {LinkRow(c, e) : e \in {d \in evidence : ~\E r \in linked : r[1] = c /\ r[2] = d}}
           links == work[p].links \cup rows
           w == [work[p] EXCEPT !.at = "judge", !.subject = c, !.evidence = evidence, !.links = links]
<1>1. /\ work[p] \in Labour /\ WorkOK(work[p], hypothesis, attributed, linked) /\ Charged(work[p].asked)
      /\ \A l \in work[p].links : l[3] = "supporting" <=> Supports(l[1], l[2])
  BY WorkIs
<1>2. work[p].at = "review" /\ work[p].todo # {} /\ work' = [work EXCEPT ![p] = w]
  BY DEF Weigh
<1>3. c \in work[p].todo /\ \A d \in work[p].todo : d \in Cause /\ hypothesis[d] # None
  <2>1. work[p].todo \in SUBSET Cause
    BY <1>1 DEF Labour
  <2>2. \A d \in work[p].todo : hypothesis[d] # None
    BY <1>1, <1>2 DEF WorkOK
  <2> QED  BY <1>2, <2>1, <2>2, EldestIsThere DEF BeliefsInv
<1> HIDE DEF c
<1>4. evidence \in SUBSET Episode /\ \A e \in evidence : attributed[e] > hypothesis[c].created
  BY HypothesesAssumption DEF Evidence
<1> HIDE DEF evidence
<1>5. rows \in SUBSET Link /\ \A l \in rows : l[3] = "supporting" <=> Supports(l[1], l[2])
  BY <1>3, <1>4 DEF LinkRow, Link, Relationship
<1>6. \A e \in evidence : LinkRow(c, e) \in linked \cup rows
  <2> TAKE e \in evidence
  <2>1. CASE ~\E r \in linked : r[1] = c /\ r[2] = e
    BY <2>1
  <2>2. ASSUME NEW r \in linked, r[1] = c, r[2] = e
        PROVE  LinkRow(c, e) \in linked
    <3>1. r \in Link /\ (r[3] = "supporting" <=> Supports(c, e))
      BY <2>2 DEF BeliefsInv, BeliefsTyped, LinksInv
    <3>2. r = <<c, e, r[3]>> /\ r[3] \in Relationship
      BY <2>2, <3>1 DEF Link
    <3>3. r = LinkRow(c, e)
      BY <3>1, <3>2 DEF LinkRow, Relationship
    <3> QED  BY <3>3
  <2> QED  BY <2>1, <2>2
<1> HIDE DEF rows
<1>7. links \in SUBSET Link /\ \A l \in links : l[3] = "supporting" <=> Supports(l[1], l[2])
  BY <1>1, <1>5 DEF Labour
<1>8. linked \cup work[p].links \subseteq linked \cup links /\ \A e \in evidence : LinkRow(c, e) \in linked \cup links
  BY <1>6
<1> HIDE DEF links
<1>9. /\ w \in Labour
      /\ w.at = "judge" /\ w.subject = c /\ w.evidence = evidence /\ w.links = links
      /\ w.todo = work[p].todo /\ w.wrote = work[p].wrote /\ w.asked = work[p].asked /\ w.added = work[p].added
  BY <1>1, <1>3, <1>4, <1>7 DEF Labour
<1> HIDE DEF w
<1>10. WorkOK(w, hypothesis, attributed, linked)
  <2>1. \A e \in w.evidence : Weighed(attributed, w.subject, hypothesis[w.subject].created, e, linked \cup w.links)
    BY <1>4, <1>8, <1>9 DEF Weighed
  <2>2. ASSUME NEW d \in Cause, w.wrote[d] # None
        PROVE  /\ hypothesis[d] # None /\ w.wrote[d].created = hypothesis[d].created
               /\ w.wrote[d].status # "proposed" => Judgement(attributed, d, w.wrote[d], linked \cup w.links)
               /\ Told(w.asked, w.wrote[d].critique, "review", d)
    <3>1. /\ hypothesis[d] # None /\ w.wrote[d].created = hypothesis[d].created
          /\ w.wrote[d].status # "proposed" => Judgement(attributed, d, w.wrote[d], linked \cup work[p].links)
          /\ Told(w.asked, w.wrote[d].critique, "review", d)
      BY <1>1, <1>9, <2>2 DEF WorkOK
    <3>2. w.wrote[d].created \in Nat
      BY <1>9, <2>2 DEF Labour, Claimed
    <3>3. attributed \in [Episode -> Nat] /\ Later(attributed, attributed)
      BY DEF BeliefsInv, BeliefsTyped, Later
    <3> QED  BY <1>8, <1>9, <3>1, <3>2, <3>3, JudgementStands
  <2>3. \A a \in w.added : Told(w.asked, a[2], "propose", a[1])
    BY <1>1, <1>9 DEF WorkOK
  <2> QED  BY <1>3, <1>9, <2>1, <2>2, <2>3 DEF WorkOK
<1>11. UNCHANGED <<now, attributed, nightly, hypothesis, linked, proposals, advisories>>
  BY DEF Weigh
<1> QED  BY <1>1, <1>2, <1>7, <1>9, <1>10, <1>11, WorkingStands

\* However the model's part ends, it leaves a row that says whose it is, and a used
\* one is charged with its own call or none.
AdviceFor(advice, p, task, c) ==
    /\ advice.usage \in Charge /\ advice.row \in Advised
    /\ advice.row.run = <<p, work[p].runs>> /\ advice.row.task = task /\ advice.row.subject = c
    /\ advice.used => advice.row.disposition = "used"
    /\ advice.row.disposition = "used" => advice.row.charged \in {None, <<task, c>>}

LEMMA AdviceIs ==
    ASSUME BeliefsInv, NEW p \in Reviewer, NEW task \in Task, NEW c \in Cause, NEW advice \in Advice(p, task, c)
    PROVE  AdviceFor(advice, p, task, c)
<1>1. work[p] \in Labour
  BY WorkIs
<1>2. work[p].runs \in Nat /\ work[p].usage \in Charge
  BY <1>1 DEF Labour
<1>3. None \in Charge /\ <<task, c>> \in Charge
  BY DEF Charge
<1>4. CASE ~work[p].enabled
  <2>1. advice = [used |-> FALSE, usage |-> None, row |-> AdvisoryRow(p, task, c, "fallback", None)]
    BY <1>4 DEF Advice
  <2> QED  BY <1>2, <1>3, <2>1 DEF AdviceFor, AdvisoryRow, Advised
<1>5. CASE work[p].enabled
  <2>1. PICK end \in Completion :
          LET usage == UsageAfter(work[p].usage, <<task, c>>, end)
          IN advice = [used |-> end.valid, usage |-> usage,
                       row |-> AdvisoryRow(p, task, c, IF end.valid THEN "used" ELSE "fallback", usage)]
    BY <1>5 DEF Advice
  <2> DEFINE usage == UsageAfter(work[p].usage, <<task, c>>, end)
  <2>2. usage \in Charge /\ (end.valid => usage \in {None, <<task, c>>})
    BY <1>2, <1>3 DEF UsageAfter
  <2> HIDE DEF usage
  <2>3. advice = [used |-> end.valid, usage |-> usage,
                  row |-> AdvisoryRow(p, task, c, IF end.valid THEN "used" ELSE "fallback", usage)]
    BY <2>1 DEF usage
  <2> QED  BY <1>2, <1>3, <2>2, <2>3 DEF AdviceFor, AdvisoryRow, Advised
<1> QED  BY <1>4, <1>5

\* What a process has in hand when it has judged one more claim, c, to be h.
HasJudged(p, c, h, asked, w) ==
    /\ work[p].at = "judge" /\ c = work[p].subject
    /\ h \in Claimed /\ h.created = hypothesis[c].created
    /\ Judgement(attributed, c, h, linked \cup work[p].links)
    /\ work[p].asked \subseteq asked /\ Charged(asked) /\ Told(asked, h.critique, "review", c)
    /\ w \in Labour /\ w.at = "review" /\ w.todo = work[p].todo \ {c} /\ w.links = work[p].links
    /\ w.asked = asked /\ w.added = work[p].added /\ w.wrote = [work[p].wrote EXCEPT ![c] = h]

\* Such a step keeps the invariant.
LEMMA JudgedStands ==
    ASSUME BeliefsInv, NEW p \in Reviewer, NEW c, NEW h, NEW asked, NEW w, HasJudged(p, c, h, asked, w),
           work' = [work EXCEPT ![p] = w],
           UNCHANGED <<now, attributed, nightly, hypothesis, linked, proposals, advisories>>
    PROVE  BeliefsInv'
<1>1. /\ work[p] \in Labour /\ WorkOK(work[p], hypothesis, attributed, linked)
      /\ \A l \in work[p].links : l[3] = "supporting" <=> Supports(l[1], l[2])
  BY WorkIs
<1> USE DEF HasJudged
<1>2. c \in work[p].todo /\ \A d \in work[p].todo : hypothesis[d] # None
  BY <1>1 DEF WorkOK
<1>3. c \in Cause /\ work[p].wrote \in [Cause -> Claimed \cup {None}]
  BY <1>1, <1>2 DEF Labour
<1>4. ASSUME NEW d \in Cause, w.wrote[d] # None
      PROVE  /\ hypothesis[d] # None /\ w.wrote[d].created = hypothesis[d].created
             /\ w.wrote[d].status # "proposed" => Judgement(attributed, d, w.wrote[d], linked \cup w.links)
             /\ Told(w.asked, w.wrote[d].critique, "review", d)
  <2>1. CASE d = c
    <3>1. w.wrote[d] = h
      BY <1>3, <2>1
    <3> QED  BY <1>2, <2>1, <3>1
  <2>2. CASE d # c
    <3>1. w.wrote[d] = work[p].wrote[d]
      BY <1>3, <2>2
    <3>2. Told(work[p].asked, w.wrote[d].critique, "review", d)
      BY <1>1, <1>4, <3>1 DEF WorkOK
    <3>3. Told(asked, w.wrote[d].critique, "review", d)
      BY <3>2, ToldStays
    <3> QED  BY <1>1, <1>4, <3>1, <3>3 DEF WorkOK
  <2> QED  BY <2>1, <2>2
<1>5. \A a \in w.added : Told(w.asked, a[2], "propose", a[1])
  <2> TAKE a \in w.added
  <2>1. Told(work[p].asked, a[2], "propose", a[1])
    BY <1>1 DEF WorkOK
  <2> QED  BY <2>1, ToldStays
<1>6. WorkOK(w, hypothesis, attributed, linked)
  BY <1>2, <1>4, <1>5 DEF WorkOK
<1> QED  BY <1>1, <1>6, WorkingStands

\* The verdict of the weighed evidence is a judgement, advised or not.
LEMMA JudgeStands ==
    ASSUME BeliefsInv, NEW p \in Reviewer, Judge(p)
    PROVE  BeliefsInv'
<1>1. PICK c : c = work[p].subject
  OBVIOUS
<1> DEFINE supporting == {e \in work[p].evidence : Supports(c, e)}
           contradicting == work[p].evidence \ supporting
           judged(critique) ==
               [hypothesis[c] EXCEPT !.status = Verdict(supporting, contradicting), !.critique = critique,
                   !.supporting = Cardinality(supporting), !.contradicting = Cardinality(contradicting)]
           next == [work[p] EXCEPT !.at = "review", !.todo = @ \ {c}, !.subject = None, !.evidence = {}]
<1>2. /\ work[p] \in Labour /\ WorkOK(work[p], hypothesis, attributed, linked) /\ Charged(work[p].asked)
  BY WorkIs
<1>3. work[p].at = "judge" /\ UNCHANGED <<now, attributed, nightly, hypothesis, linked, proposals, advisories>>
  BY DEF Judge
<1>4. c \in Cause /\ hypothesis[c] \in Claimed
  <2>1. c \in work[p].todo /\ \A d \in work[p].todo : hypothesis[d] # None
    BY <1>1, <1>2, <1>3 DEF WorkOK
  <2>2. work[p].todo \subseteq Cause
    BY <1>2 DEF Labour
  <2> QED  BY <2>1, <2>2 DEF BeliefsInv, BeliefsTyped
<1>5. \/ work' = [work EXCEPT ![p] = [next EXCEPT !.wrote[c] = judged(None)]]
      \/ \E advice \in Advice(p, "review", c) :
           work' = [work EXCEPT ![p] = [next EXCEPT
                      !.usage = advice.usage, !.asked = @ \cup {advice.row},
                      !.wrote[c] = judged(IF advice.used THEN advice.row.run ELSE None)]]
  BY <1>1 DEF Judge
<1>6. ASSUME NEW critique \in Author
      PROVE  /\ judged(critique) \in Claimed /\ judged(critique).created = hypothesis[c].created
             /\ judged(critique).critique = critique
             /\ Judgement(attributed, c, judged(critique), linked \cup work[p].links)
  <2>1. Verdict(supporting, contradicting) \in ClaimStatus
    BY DEF Verdict, ClaimStatus
  <2>2. supporting \in SUBSET Episode /\ contradicting \in SUBSET Episode /\ work[p].evidence \in SUBSET Episode
    BY <1>2 DEF Labour
  <2>3. \A e \in work[p].evidence : Weighed(attributed, c, hypothesis[c].created, e, linked \cup work[p].links)
    BY <1>1, <1>2, <1>3 DEF WorkOK
  <2> DEFINE s == Cardinality(supporting)
             k == Cardinality(contradicting)
             v == Verdict(supporting, contradicting)
  <2>4. s \in {Cardinality(rows) : rows \in SUBSET Episode} /\ k \in {Cardinality(rows) : rows \in SUBSET Episode}
    BY <2>2
  <2> HIDE DEF s, k, v
  <2>5. judged(critique) = [hypothesis[c] EXCEPT !.status = v, !.critique = critique, !.supporting = s, !.contradicting = k]
    BY DEF s, k, v
  <2> HIDE DEF judged
  <2>6. /\ judged(critique) \in Claimed /\ judged(critique).created = hypothesis[c].created
        /\ judged(critique).critique = critique /\ judged(critique).status = v
        /\ judged(critique).supporting = s /\ judged(critique).contradicting = k
    BY <1>4, <2>1, <2>4, <2>5 DEF Claimed, v
  <2>7. Judgement(attributed, c, judged(critique), linked \cup work[p].links)
    BY <2>2, <2>3, <2>6 DEF Judgement, s, k, v
  <2> QED  BY <2>6, <2>7
<1>7. /\ next \in Labour /\ next.at = "review" /\ next.todo = work[p].todo \ {c} /\ next.links = work[p].links
      /\ next.asked = work[p].asked /\ next.added = work[p].added /\ next.wrote = work[p].wrote
  BY <1>2 DEF Labour
<1> HIDE DEF judged, next, supporting, contradicting
<1>8. CASE work' = [work EXCEPT ![p] = [next EXCEPT !.wrote[c] = judged(None)]]
  <2>1. None \in Author
    BY DEF Author
  <2> DEFINE w == [next EXCEPT !.wrote[c] = judged(None)]
  <2>2. judged(None) \in Claimed /\ judged(None).critique = None
    BY <1>6, <2>1
  <2>3. /\ w \in Labour /\ w.at = "review" /\ w.todo = work[p].todo \ {c} /\ w.links = work[p].links
        /\ w.asked = work[p].asked /\ w.added = work[p].added
        /\ w.wrote = [work[p].wrote EXCEPT ![c] = judged(None)]
    BY <1>4, <1>7, <2>2 DEF Labour
  <2>4. work' = [work EXCEPT ![p] = w]
    BY <1>8
  <2> HIDE DEF w
  <2>5. Told(work[p].asked, judged(None).critique, "review", c)
    BY <2>2 DEF Told
  <2>6. work[p].asked \in SUBSET Advised
    BY <1>2 DEF Labour
  <2>7. PICK h, asked, v : h = judged(None) /\ asked = work[p].asked /\ v = w
    OBVIOUS
  <2>8. /\ h \in Claimed /\ h.created = hypothesis[c].created /\ Judgement(attributed, c, h, linked \cup work[p].links)
        /\ Told(asked, h.critique, "review", c) /\ asked \in SUBSET Advised /\ work[p].asked \subseteq asked
        /\ Charged(asked)
    BY <1>2, <1>6, <2>1, <2>5, <2>6, <2>7
  <2>9. /\ v \in Labour /\ v.at = "review" /\ v.todo = work[p].todo \ {c} /\ v.links = work[p].links
        /\ v.asked = asked /\ v.added = work[p].added /\ v.wrote = [work[p].wrote EXCEPT ![c] = h]
        /\ work' = [work EXCEPT ![p] = v]
    BY <2>3, <2>4, <2>7
  <2>10. HasJudged(p, c, h, asked, v)
    BY <1>1, <1>3, <2>8, <2>9 DEF HasJudged
  <2> QED  BY <1>3, <2>9, <2>10, JudgedStands
<1>9. ASSUME NEW advice \in Advice(p, "review", c),
             work' = [work EXCEPT ![p] = [next EXCEPT
                        !.usage = advice.usage, !.asked = @ \cup {advice.row},
                        !.wrote[c] = judged(IF advice.used THEN advice.row.run ELSE None)]]
      PROVE  BeliefsInv'
  <2>1. AdviceFor(advice, p, "review", c)
    BY <1>4, AdviceIs DEF Task
  <2> DEFINE critique == IF advice.used THEN advice.row.run ELSE None
             asked == work[p].asked \cup {advice.row}
             w == [next EXCEPT !.usage = advice.usage, !.asked = @ \cup {advice.row}, !.wrote[c] = judged(critique)]
  <2>2. critique \in Author
    <3>1. advice.row.run \in Reviewer \X Nat
      BY <2>1 DEF AdviceFor, Advised
    <3> QED  BY <3>1 DEF Author
  <2>3. asked \in SUBSET Advised /\ Charged(asked)
    BY <1>2, <2>1 DEF Labour, AdviceFor, Charged
  <2>4. Told(asked, critique, "review", c)
    BY <2>1 DEF Told, AdviceFor
  <2>5. work' = [work EXCEPT ![p] = w]
    BY <1>9
  <2> HIDE DEF critique
  <2>6. judged(critique) \in Claimed /\ judged(critique).critique = critique
    BY <1>6, <2>2
  <2>7. /\ w \in Labour /\ w.at = "review" /\ w.todo = work[p].todo \ {c} /\ w.links = work[p].links
        /\ w.asked = asked /\ w.added = work[p].added
        /\ w.wrote = [work[p].wrote EXCEPT ![c] = judged(critique)]
    <3>1. advice.usage \in Charge /\ advice.row \in Advised
      BY <2>1 DEF AdviceFor
    <3> QED  BY <1>4, <1>7, <2>6, <3>1 DEF Labour
  <2> HIDE DEF w
  <2>8. work[p].asked \subseteq asked
    OBVIOUS
  <2> HIDE DEF asked
  <2>9. PICK h, rows, v : h = judged(critique) /\ rows = asked /\ v = w
    OBVIOUS
  <2>10. /\ h \in Claimed /\ h.created = hypothesis[c].created /\ Judgement(attributed, c, h, linked \cup work[p].links)
         /\ Told(rows, h.critique, "review", c) /\ rows \in SUBSET Advised /\ work[p].asked \subseteq rows
         /\ Charged(rows)
    BY <1>6, <2>2, <2>3, <2>4, <2>8, <2>9
  <2>11. /\ v \in Labour /\ v.at = "review" /\ v.todo = work[p].todo \ {c} /\ v.links = work[p].links
         /\ v.asked = rows /\ v.added = work[p].added /\ v.wrote = [work[p].wrote EXCEPT ![c] = h]
         /\ work' = [work EXCEPT ![p] = v]
    BY <2>5, <2>7, <2>9
  <2>12. HasJudged(p, c, h, rows, v)
    BY <1>1, <1>3, <2>10, <2>11 DEF HasJudged
  <2> QED  BY <1>3, <2>11, <2>12, JudgedStands
<1> QED  BY <1>5, <1>8, <1>9

\* What a run did stands once it is committed, and the process rests.
LEMMA CommitReviewStands ==
    ASSUME BeliefsInv, NEW p \in Reviewer, CommitReview(p)
    PROVE  BeliefsInv'
<1>1. /\ work[p] \in Labour /\ WorkOK(work[p], hypothesis, attributed, linked) /\ Charged(work[p].asked)
      /\ \A l \in work[p].links : l[3] = "supporting" <=> Supports(l[1], l[2])
  BY WorkIs
<1>2. /\ hypothesis' = [c \in Cause |-> IF work[p].wrote[c] # None THEN work[p].wrote[c] ELSE hypothesis[c]]
      /\ linked' = linked \cup work[p].links
      /\ advisories' = advisories \cup work[p].asked
      /\ UNCHANGED <<now, attributed, nightly, proposals, losses>>
  BY DEF CommitReview
<1>3. PICK rest : rest = Resting(work[p].runs)
  OBVIOUS
<1>4. work' = [work EXCEPT ![p] = rest]
  BY <1>3 DEF CommitReview
<1>5. /\ rest \in Labour /\ rest.asked = {} /\ rest.links = {}
      /\ \A claims, times, links : WorkOK(rest, claims, times, links)
  <2>1. work[p].runs \in Nat
    BY <1>1 DEF Labour
  <2>2. Resting(work[p].runs).asked = {} /\ Resting(work[p].runs).links = {}
    BY DEF Resting
  <2> QED  BY <1>3, <2>1, <2>2, RestingIsWork
<1>6. work' \in [Reviewer -> Labour] /\ work'[p] = rest /\ Others(p)
  BY <1>4, <1>5, OthersStay DEF BeliefsInv
<1>7. work[p].links \subseteq Link /\ work[p].asked \subseteq Advised /\ work[p].wrote \in [Cause -> Claimed \cup {None}]
  BY <1>1 DEF Labour
<1>8. BeliefsTyped'
  <2>1. hypothesis' \in [Cause -> Claimed \cup {None}]
    BY <1>2, <1>7 DEF BeliefsInv, BeliefsTyped
  <2> QED  BY <1>2, <1>6, <1>7, <2>1 DEF BeliefsInv, BeliefsTyped
<1>9. LinksInv'
  <2>1. \A l \in linked' : l[3] = "supporting" <=> Supports(l[1], l[2])
    BY <1>1, <1>2 DEF BeliefsInv, LinksInv
  <2>2. ASSUME NEW q \in Reviewer, NEW l \in work'[q].links
        PROVE  l[3] = "supporting" <=> Supports(l[1], l[2])
    BY <1>5, <1>6, <2>2 DEF BeliefsInv, LinksInv, Others
  <2> QED  BY <2>1, <2>2 DEF LinksInv
<1>10. ChargesInv'
  <2>1. Charged(advisories')
    BY <1>1, <1>2 DEF BeliefsInv, ChargesInv, Charged
  <2>2. \A q \in Reviewer : Charged(work'[q].asked)
    BY <1>5, <1>6 DEF BeliefsInv, ChargesInv, Charged, Others
  <2> QED  BY <2>1, <2>2 DEF ChargesInv
<1>11. KeepTheirTime(hypothesis, hypothesis') /\ Later(attributed, attributed') /\ linked \subseteq linked'
  <2>1. ASSUME NEW c \in Cause, hypothesis[c] # None
        PROVE  hypothesis'[c] # None /\ hypothesis'[c].created = hypothesis[c].created
    BY <1>1, <1>2, <2>1 DEF WorkOK
  <2> QED  BY <1>2, <2>1 DEF KeepTheirTime, Later
<1>12. WorksInv'
  BY <1>5, <1>6, <1>11, WorksStand DEF BeliefsInv
<1>13. ClaimsInv'
  <2> SUFFICES ASSUME NEW c \in Cause, hypothesis'[c] # None
               PROVE  /\ hypothesis'[c].status # "proposed" => Judgement(attributed', c, hypothesis'[c], linked')
                      /\ Told(advisories', hypothesis'[c].critique, "review", c)
    BY DEF ClaimsInv
  <2>1. CASE work[p].wrote[c] = None
    <3>1. hypothesis'[c] = hypothesis[c] /\ advisories \subseteq advisories'
      BY <1>2, <2>1
    <3> QED  BY <1>11, <3>1, ClaimsStand DEF BeliefsInv
  <2>2. CASE work[p].wrote[c] # None
    <3>1. hypothesis'[c] = work[p].wrote[c]
      BY <1>2, <2>2
    <3>2. /\ work[p].wrote[c].status # "proposed" => Judgement(attributed, c, work[p].wrote[c], linked \cup work[p].links)
          /\ Told(work[p].asked, work[p].wrote[c].critique, "review", c)
      BY <1>1, <2>2 DEF WorkOK
    <3>3. Told(advisories \cup work[p].asked, work[p].wrote[c].critique, "review", c)
      BY <3>2, ToldStays
    <3> QED  BY <1>2, <3>1, <3>2, <3>3
  <2> QED  BY <2>1, <2>2
<1>14. AuthorsInv'
  BY <1>2, AuthorsStand DEF BeliefsInv
<1> QED  BY <1>8, <1>9, <1>10, <1>12, <1>13, <1>14 DEF BeliefsInv

\* A run that dies leaves nothing.
LEMMA LoseStands ==
    ASSUME BeliefsInv, NEW p \in Reviewer, Lose(p)
    PROVE  BeliefsInv'
<1>1. PICK rest : rest = Resting(work[p].runs)
  OBVIOUS
<1>2. work[p].runs \in Nat
  BY WorkIs DEF Labour
<1>3. rest \in Labour /\ rest.asked = {} /\ rest.links = {} /\ WorkOK(rest, hypothesis, attributed, linked)
  <2>1. Resting(work[p].runs).asked = {} /\ Resting(work[p].runs).links = {}
    BY DEF Resting
  <2> QED  BY <1>1, <1>2, <2>1, RestingIsWork
<1>4. work' = [work EXCEPT ![p] = rest]
  BY <1>1 DEF Lose
<1>5. UNCHANGED <<now, attributed, nightly, hypothesis, linked, proposals, advisories>>
  BY DEF Lose
<1>6. Charged(rest.asked) /\ \A l \in rest.links : l[3] = "supporting" <=> Supports(l[1], l[2])
  BY <1>3 DEF Charged
<1> QED  BY <1>3, <1>4, <1>5, <1>6, WorkingStands

-----------------------------------------------------------------------------
\* The queue of proposals: each step keeps the invariant.
LEMMA BeginProposeStands ==
    ASSUME BeliefsInv, NEW p \in Reviewer, BeginPropose(p)
    PROVE  BeliefsInv'
<1>1. PICK key \in Configured :
        work' = [work EXCEPT ![p] = [Resting(work[p].runs + 1) EXCEPT
                  !.at = "propose", !.enabled = key,
                  !.todo = {c \in Cause : Cardinality(Errors(c)) >= MinimumErrors}]]
  BY DEF BeginPropose
<1> DEFINE todo == {c \in Cause : Cardinality(Errors(c)) >= MinimumErrors}
           rest == Resting(work[p].runs + 1)
           w == [rest EXCEPT !.at = "propose", !.enabled = key, !.todo = todo]
<1>2. rest \in Labour
  BY WorkIs, RestingIsWork DEF Labour
<1>3. key \in BOOLEAN /\ todo \in SUBSET Cause
  BY HypothesesAssumption
<1>4. rest.asked = {} /\ rest.links = {} /\ rest.added = {} /\ rest.wrote = [c \in Cause |-> None]
  BY DEF Resting
<1>5. work' = [work EXCEPT ![p] = w]
  BY <1>1
<1> HIDE DEF todo, rest
<1>6. /\ w \in Labour /\ w.at = "propose"
      /\ w.asked = {} /\ w.links = {} /\ w.added = {} /\ w.wrote = [c \in Cause |-> None]
  BY <1>2, <1>3, <1>4 DEF Labour
<1> HIDE DEF w
<1>7. WorkOK(w, hypothesis, attributed, linked)
  BY <1>6 DEF WorkOK
<1>8. Charged(w.asked) /\ \A l \in w.links : l[3] = "supporting" <=> Supports(l[1], l[2])
  BY <1>6 DEF Charged
<1>9. UNCHANGED <<now, attributed, nightly, hypothesis, linked, proposals, advisories>>
  BY DEF BeginPropose
<1> QED  BY <1>5, <1>6, <1>7, <1>8, <1>9, WorkingStands

LEMMA LookForStands ==
    ASSUME BeliefsInv, NEW p \in Reviewer, LookFor(p)
    PROVE  BeliefsInv'
<1>1. /\ work[p] \in Labour /\ WorkOK(work[p], hypothesis, attributed, linked) /\ Charged(work[p].asked)
      /\ \A l \in work[p].links : l[3] = "supporting" <=> Supports(l[1], l[2])
  BY WorkIs
<1>2. PICK c \in work[p].todo :
        \/ work' = [work EXCEPT ![p].todo = @ \ {c}]
        \/ work' = [work EXCEPT ![p].at = "design"]
  BY DEF LookFor
<1>3. work[p].at = "propose" /\ UNCHANGED <<now, attributed, nightly, hypothesis, linked, proposals, advisories>>
  BY DEF LookFor
<1>4. CASE work' = [work EXCEPT ![p].todo = @ \ {c}]
  <2>1. PICK w : w = [work[p] EXCEPT !.todo = @ \ {c}]
    OBVIOUS
  <2>2. /\ w \in Labour /\ w.at = work[p].at /\ w.asked = work[p].asked /\ w.links = work[p].links
        /\ w.added = work[p].added /\ w.wrote = work[p].wrote
    BY <1>1, <2>1 DEF Labour
  <2>3. work' = [work EXCEPT ![p] = w]
    BY <1>4, <2>1
  <2>4. WorkOK(w, hypothesis, attributed, linked)
    BY <1>1, <1>3, <2>2 DEF WorkOK
  <2> QED  BY <1>1, <1>3, <2>2, <2>3, <2>4, WorkingStands
<1>5. CASE work' = [work EXCEPT ![p].at = "design"]
  <2>1. PICK w : w = [work[p] EXCEPT !.at = "design"]
    OBVIOUS
  <2>2. /\ w \in Labour /\ w.at = "design" /\ w.asked = work[p].asked /\ w.links = work[p].links
        /\ w.added = work[p].added /\ w.wrote = work[p].wrote /\ w.todo = work[p].todo
    BY <1>1, <2>1 DEF Labour
  <2>3. work' = [work EXCEPT ![p] = w]
    BY <1>5, <2>1
  <2>4. WorkOK(w, hypothesis, attributed, linked)
    BY <1>1, <1>2, <1>3, <2>2 DEF WorkOK
  <2> QED  BY <1>1, <1>3, <2>2, <2>3, <2>4, WorkingStands
<1> QED  BY <1>2, <1>4, <1>5

LEMMA DesignStands ==
    ASSUME BeliefsInv, NEW p \in Reviewer, Design(p)
    PROVE  BeliefsInv'
<1>1. /\ work[p] \in Labour /\ WorkOK(work[p], hypothesis, attributed, linked) /\ Charged(work[p].asked)
      /\ \A l \in work[p].links : l[3] = "supporting" <=> Supports(l[1], l[2])
  BY WorkIs
<1>2. work[p].at = "design" /\ UNCHANGED <<now, attributed, nightly, hypothesis, linked, proposals, advisories>>
  BY DEF Design
<1>3. PICK c : c = CHOOSE d \in work[p].todo : TRUE
  OBVIOUS
<1>4. c \in Cause
  <2>1. work[p].todo # {} /\ work[p].todo \subseteq Cause
    BY <1>1, <1>2 DEF WorkOK, Labour
  <2> QED  BY <1>3, <2>1
<1>5. PICK advice \in Advice(p, "propose", c) :
        work' = [work EXCEPT ![p].at = "propose", ![p].todo = @ \ {c}, ![p].usage = advice.usage,
                             ![p].asked = @ \cup {advice.row},
                             ![p].added = @ \cup {<<c, IF advice.used THEN advice.row.run ELSE None>>}]
  BY <1>3 DEF Design
<1>6. AdviceFor(advice, p, "propose", c)
  BY <1>4, AdviceIs DEF Task
<1>7. PICK author : author = IF advice.used THEN advice.row.run ELSE None
  OBVIOUS
<1>8. author \in Author /\ advice.row \in Advised /\ advice.usage \in Charge
  <2>1. advice.row.run \in Reviewer \X Nat
    BY <1>6 DEF AdviceFor, Advised
  <2> QED  BY <1>6, <1>7, <2>1 DEF Author, AdviceFor
<1>9. PICK w : w = [work[p] EXCEPT !.at = "propose", !.todo = @ \ {c}, !.usage = advice.usage,
                      !.asked = @ \cup {advice.row}, !.added = @ \cup {<<c, author>>}]
  OBVIOUS
<1>10. work' = [work EXCEPT ![p] = w]
  BY <1>5, <1>7, <1>9
<1>11. /\ w \in Labour /\ w.at = "propose" /\ w.asked = work[p].asked \cup {advice.row} /\ w.links = work[p].links
       /\ w.added = work[p].added \cup {<<c, author>>} /\ w.wrote = work[p].wrote
  <2>1. work[p].asked \cup {advice.row} \in SUBSET Advised
    BY <1>1, <1>8 DEF Labour
  <2>2. work[p].added \cup {<<c, author>>} \in SUBSET (Cause \X Author)
    BY <1>1, <1>4, <1>8 DEF Labour
  <2>3. work[p].todo \ {c} \in SUBSET Cause
    BY <1>1 DEF Labour
  <2> QED  BY <1>1, <1>8, <1>9, <2>1, <2>2, <2>3 DEF Labour
<1>12. Charged(w.asked)
  BY <1>1, <1>6, <1>11 DEF Charged, AdviceFor
<1>13. WorkOK(w, hypothesis, attributed, linked)
  <2>1. ASSUME NEW d \in Cause, w.wrote[d] # None
        PROVE  /\ hypothesis[d] # None /\ w.wrote[d].created = hypothesis[d].created
               /\ w.wrote[d].status # "proposed" => Judgement(attributed, d, w.wrote[d], linked \cup w.links)
               /\ Told(w.asked, w.wrote[d].critique, "review", d)
    <3>1. /\ hypothesis[d] # None /\ w.wrote[d].created = hypothesis[d].created
          /\ w.wrote[d].status # "proposed" => Judgement(attributed, d, w.wrote[d], linked \cup w.links)
          /\ Told(work[p].asked, w.wrote[d].critique, "review", d)
      BY <1>1, <1>11, <2>1 DEF WorkOK
    <3>2. Told(w.asked, w.wrote[d].critique, "review", d)
      BY <1>11, <3>1, ToldStays
    <3> QED  BY <3>1, <3>2
  <2>2. ASSUME NEW a \in w.added
        PROVE  Told(w.asked, a[2], "propose", a[1])
    <3>1. CASE a \in work[p].added
      <4>1. Told(work[p].asked, a[2], "propose", a[1])
        BY <1>1, <3>1 DEF WorkOK
      <4> QED  BY <1>11, <4>1, ToldStays
    <3>2. CASE a = <<c, author>>
      BY <1>6, <1>7, <1>11, <3>2 DEF Told, AdviceFor
    <3> QED  BY <1>11, <3>1, <3>2
  <2> QED  BY <1>11, <2>1, <2>2 DEF WorkOK
<1> QED  BY <1>1, <1>2, <1>10, <1>11, <1>12, <1>13, WorkingStands

Proposal == [status : {"proposed", "approved", "rejected"}, author : Author]

\* What a run committed has its advisories committed beside it.
LEMMA CommitProposeStands ==
    ASSUME BeliefsInv, NEW p \in Reviewer, CommitPropose(p)
    PROVE  BeliefsInv'
<1>1. /\ work[p] \in Labour /\ WorkOK(work[p], hypothesis, attributed, linked) /\ Charged(work[p].asked)
  BY WorkIs
<1> DEFINE author(c) == (CHOOSE a \in work[p].added : a[1] = c)[2]
           row(c) == [status |-> "proposed", author |-> author(c)]
<1>2. /\ proposals' = [c \in Cause |-> IF \E a \in work[p].added : a[1] = c
                                        THEN Append(proposals[c], row(c)) ELSE proposals[c]]
      /\ advisories' = advisories \cup work[p].asked
      /\ UNCHANGED <<now, attributed, nightly, hypothesis, linked, losses>>
  BY DEF CommitPropose
<1>3. PICK rest : rest = Resting(work[p].runs)
  OBVIOUS
<1>4. work' = [work EXCEPT ![p] = rest]
  BY <1>3 DEF CommitPropose
<1>5. /\ rest \in Labour /\ rest.asked = {} /\ rest.links = {}
      /\ \A claims, times, links : WorkOK(rest, claims, times, links)
  <2>1. work[p].runs \in Nat
    BY <1>1 DEF Labour
  <2>2. Resting(work[p].runs).asked = {} /\ Resting(work[p].runs).links = {}
    BY DEF Resting
  <2> QED  BY <1>3, <2>1, <2>2, RestingIsWork
<1>6. work' \in [Reviewer -> Labour] /\ work'[p] = rest /\ Others(p)
  BY <1>4, <1>5, OthersStay DEF BeliefsInv
<1>7. work[p].asked \subseteq Advised /\ work[p].added \subseteq Cause \X Author
  BY <1>1 DEF Labour
<1>8. ASSUME NEW c \in Cause, \E a \in work[p].added : a[1] = c
      PROVE  author(c) \in Author /\ Told(work[p].asked, author(c), "propose", c)
  <2>1. PICK a \in work[p].added : a[1] = c /\ a[2] = author(c)
    BY <1>8
  <2>2. Told(work[p].asked, a[2], "propose", a[1])
    BY <1>1 DEF WorkOK
  <2> QED  BY <1>7, <2>1, <2>2
<1> HIDE DEF author
<1>9. ASSUME NEW c \in Cause
      PROVE  /\ proposals'[c] \in Seq(Proposal)
             /\ \A i \in DOMAIN proposals'[c] : Told(advisories', proposals'[c][i].author, "propose", c)
  <2>1. proposals[c] \in Seq(Proposal)
    BY DEF BeliefsInv, BeliefsTyped, Proposal
  <2>2. ASSUME NEW i \in DOMAIN proposals[c]
        PROVE  Told(advisories', proposals[c][i].author, "propose", c)
    <3>1. Told(advisories, proposals[c][i].author, "propose", c)
      BY DEF BeliefsInv, AuthorsInv
    <3> QED  BY <1>2, <3>1, ToldStays
  <2>3. CASE \E a \in work[p].added : a[1] = c
    <3>1. proposals'[c] = Append(proposals[c], row(c))
      BY <1>2, <2>3
    <3>2. row(c) \in Proposal /\ row(c).author = author(c)
      BY <1>8, <2>3 DEF Proposal
    <3>3. Told(advisories', author(c), "propose", c)
      <4>1. Told(work[p].asked, author(c), "propose", c)
        BY <1>8, <2>3
      <4> QED  BY <1>2, <4>1, ToldStays
    <3> HIDE DEF row
    <3>4. proposals'[c] \in Seq(Proposal)
      BY <2>1, <3>1, <3>2
    <3>5. ASSUME NEW i \in DOMAIN proposals'[c]
          PROVE  Told(advisories', proposals'[c][i].author, "propose", c)
      <4>1. CASE i \in DOMAIN proposals[c]
        <5>1. proposals'[c][i] = proposals[c][i]
          BY <2>1, <3>1, <3>2, <4>1
        <5> QED  BY <2>2, <4>1, <5>1
      <4>2. CASE i \notin DOMAIN proposals[c]
        <5>1. proposals'[c][i] = row(c)
          BY <2>1, <3>1, <3>2, <3>5, <4>2
        <5> QED  BY <3>2, <3>3, <5>1
      <4> QED  BY <4>1, <4>2
    <3> QED  BY <3>4, <3>5
  <2>4. CASE ~\E a \in work[p].added : a[1] = c
    <3>1. proposals'[c] = proposals[c]
      BY <1>2, <2>4
    <3> QED  BY <2>1, <2>2, <3>1
  <2> QED  BY <2>3, <2>4
<1>10. BeliefsTyped'
  <2>1. proposals' \in [Cause -> Seq(Proposal)]
    BY <1>2, <1>9
  <2>2. advisories' \in SUBSET Advised
    BY <1>2, <1>7 DEF BeliefsInv, BeliefsTyped
  <2> QED  BY <1>2, <1>6, <2>1, <2>2 DEF BeliefsInv, BeliefsTyped, Proposal
<1>11. LinksInv'
  BY <1>2, <1>5, <1>6 DEF BeliefsInv, LinksInv, Others
<1>12. ChargesInv'
  <2>1. Charged(advisories')
    BY <1>1, <1>2 DEF BeliefsInv, ChargesInv, Charged
  <2>2. \A q \in Reviewer : Charged(work'[q].asked)
    BY <1>5, <1>6 DEF BeliefsInv, ChargesInv, Charged, Others
  <2> QED  BY <2>1, <2>2 DEF ChargesInv
<1>13. KeepTheirTime(hypothesis, hypothesis') /\ Later(attributed, attributed') /\ linked \subseteq linked'
  BY <1>2 DEF KeepTheirTime, Later
<1>14. WorksInv'
  BY <1>5, <1>6, <1>13, WorksStand DEF BeliefsInv
<1>15. ClaimsInv'
  <2>1. advisories \subseteq advisories'
    BY <1>2
  <2> QED  BY <1>2, <1>13, <2>1, ClaimsStand DEF BeliefsInv, ClaimsInv
<1>16. AuthorsInv'
  BY <1>9 DEF AuthorsInv
<1> QED  BY <1>10, <1>11, <1>12, <1>14, <1>15, <1>16 DEF BeliefsInv

\* The owner's decision leaves a proposal its author.
LEMMA ReviewProposalStands ==
    ASSUME BeliefsInv, NEW c \in Cause, NEW i \in DOMAIN proposals[c], NEW verdict \in {"approved", "rejected"},
           ReviewProposal(c, i, verdict)
    PROVE  BeliefsInv'
<1>1. /\ proposals' = [proposals EXCEPT ![c][i].status = verdict]
      /\ UNCHANGED <<now, attributed, nightly, hypothesis, linked, advisories, work, losses>>
  BY DEF ReviewProposal
<1>2. proposals \in [Cause -> Seq(Proposal)]
  BY DEF BeliefsInv, BeliefsTyped, Proposal
<1>3. PICK rows : rows = [proposals[c] EXCEPT ![i].status = verdict]
  OBVIOUS
<1>4. proposals' = [proposals EXCEPT ![c] = rows]
  BY <1>1, <1>3
<1>5. /\ rows \in Seq(Proposal) /\ DOMAIN rows = DOMAIN proposals[c]
      /\ \A j \in DOMAIN rows : rows[j].author = proposals[c][j].author
  <2>1. proposals[c] \in Seq(Proposal) /\ proposals[c][i] \in Proposal
    BY <1>2
  <2>2. PICK row : row = [proposals[c][i] EXCEPT !.status = verdict]
    OBVIOUS
  <2>3. row \in Proposal /\ row.author = proposals[c][i].author
    BY <2>1, <2>2 DEF Proposal
  <2>4. rows = [proposals[c] EXCEPT ![i] = row]
    BY <1>3, <2>2
  <2> QED  BY <2>1, <2>3, <2>4
<1>6. BeliefsTyped'
  <2>1. proposals' \in [Cause -> Seq(Proposal)]
    BY <1>2, <1>4, <1>5
  <2> QED  BY <1>1, <2>1 DEF BeliefsInv, BeliefsTyped, Proposal
<1>7. LinksInv' /\ WorksInv' /\ ChargesInv' /\ ClaimsInv'
  BY <1>1 DEF BeliefsInv, LinksInv, WorksInv, ChargesInv, ClaimsInv
<1>8. AuthorsInv'
  <2> SUFFICES ASSUME NEW d \in Cause, NEW j \in DOMAIN proposals'[d]
               PROVE  Told(advisories, proposals'[d][j].author, "propose", d)
    BY <1>1 DEF AuthorsInv
  <2>1. j \in DOMAIN proposals[d] /\ proposals'[d][j].author = proposals[d][j].author
    BY <1>2, <1>4, <1>5
  <2> QED  BY <2>1 DEF BeliefsInv, AuthorsInv
<1> QED  BY <1>6, <1>7, <1>8 DEF BeliefsInv

-----------------------------------------------------------------------------
\* Nothing is believed at first.
LEMMA BeliefsBegin ==
    ASSUME HypothesesInit
    PROVE  BeliefsInv
<1>1. Resting(0) \in Labour /\ WorkOK(Resting(0), hypothesis, attributed, linked)
  BY RestingIsWork
<1>2. Resting(0).asked = {} /\ Resting(0).links = {}
  BY DEF Resting
<1>3. BeliefsTyped
  BY <1>1 DEF HypothesesInit, BeliefsTyped
<1>4. LinksInv /\ ChargesInv
  BY <1>2 DEF HypothesesInit, LinksInv, ChargesInv, Charged
<1>5. WorksInv
  BY <1>1 DEF HypothesesInit, WorksInv
<1>6. ClaimsInv /\ AuthorsInv
  BY DEF HypothesesInit, ClaimsInv, AuthorsInv
<1> QED  BY <1>3, <1>4, <1>5, <1>6 DEF BeliefsInv

\* Every step keeps the invariant.
LEMMA BeliefsStand ==
    ASSUME BeliefsInv, [HypothesesNext]_hypothesesVars
    PROVE  BeliefsInv'
<1>1. CASE EvaluationNext
  BY <1>1, EvaluationStands DEF EvaluationNext
<1>2. CASE ReviewNext
  BY <1>2, ClaimStands, BeginReviewStands, WeighStands, JudgeStands, CommitReviewStands DEF ReviewNext
<1>3. CASE ProposalNext
  BY <1>3, BeginProposeStands, LookForStands, DesignStands, CommitProposeStands, ReviewProposalStands DEF ProposalNext
<1>4. CASE \E p \in Reviewer : Lose(p)
  BY <1>4, LoseStands
<1>5. CASE UNCHANGED hypothesesVars
  BY <1>5 DEF BeliefsInv, BeliefsTyped, LinksInv, WorksInv, ChargesInv, ClaimsInv, AuthorsInv, hypothesesVars
<1> QED  BY <1>1, <1>2, <1>3, <1>4, <1>5 DEF HypothesesNext

\* The evidence of a judgement is linked in both senses.
LEMMA JudgementIsLinked ==
    ASSUME BeliefsTyped, NEW c \in Cause, hypothesis[c] # None, Judgement(attributed, c, hypothesis[c], linked)
    PROVE  \E s \in SUBSET {e \in LinkedAs(c, "supporting") : attributed[e] > hypothesis[c].created},
              k \in SUBSET {e \in LinkedAs(c, "contradicting") : attributed[e] > hypothesis[c].created} :
             /\ Cardinality(s) = hypothesis[c].supporting /\ Cardinality(k) = hypothesis[c].contradicting
             /\ hypothesis[c].status = Verdict(s, k)
<1>1. PICK evidence \in SUBSET Episode :
        LET s == {e \in evidence : Supports(c, e)}
            k == evidence \ s
        IN /\ \A e \in evidence : Weighed(attributed, c, hypothesis[c].created, e, linked)
           /\ hypothesis[c].status = Verdict(s, k)
           /\ hypothesis[c].supporting = Cardinality(s) /\ hypothesis[c].contradicting = Cardinality(k)
  BY DEF Judgement
<1> DEFINE s == {e \in evidence : Supports(c, e)}
           k == evidence \ s
<1>2. ASSUME NEW e \in evidence, NEW sense, LinkRow(c, e) = <<c, e, sense>>
      PROVE  e \in LinkedAs(c, sense) /\ attributed[e] > hypothesis[c].created
  <2>1. <<c, e, sense>> \in linked /\ attributed[e] > hypothesis[c].created
    BY <1>1, <1>2 DEF Weighed
  <2>2. <<c, e, sense>> \in {l \in linked : l[1] = c /\ l[3] = sense}
    BY <2>1
  <2>3. <<c, e, sense>>[2] = e
    OBVIOUS
  <2> QED  BY <2>1, <2>2, <2>3 DEF LinkedAs
<1>3. s \subseteq {e \in LinkedAs(c, "supporting") : attributed[e] > hypothesis[c].created}
  BY <1>2 DEF LinkRow
<1>4. k \subseteq {e \in LinkedAs(c, "contradicting") : attributed[e] > hypothesis[c].created}
  BY <1>2 DEF LinkRow
<1>5. hypothesis[c].status = Verdict(s, k) /\ hypothesis[c].supporting = Cardinality(s) /\ hypothesis[c].contradicting = Cardinality(k)
  BY <1>1
<1> HIDE DEF s, k
<1> QED  BY <1>3, <1>4, <1>5

\* The invariant is what was to be shown.
LEMMA BeliefsAreRecorded == BeliefsInv => BeliefsAreOnRecord
<1> SUFFICES ASSUME BeliefsInv
             PROVE  VerdictsAreAnswerable /\ AdviceIsOnRecord
  BY DEF BeliefsAreOnRecord
<1>1. VerdictsAreAnswerable
  <2> SUFFICES ASSUME NEW c \in Cause, hypothesis[c] # None, hypothesis[c].status # "proposed"
               PROVE  \E s \in {rows \in SUBSET {e \in LinkedAs(c, "supporting") : attributed[e] > hypothesis[c].created} :
                                  Cardinality(rows) = hypothesis[c].supporting},
                         k \in {rows \in SUBSET {e \in LinkedAs(c, "contradicting") : attributed[e] > hypothesis[c].created} :
                                  Cardinality(rows) = hypothesis[c].contradicting} :
                         hypothesis[c].status = Verdict(s, k)
    BY DEF VerdictsAreAnswerable
  <2>1. Judgement(attributed, c, hypothesis[c], linked)
    BY DEF BeliefsInv, ClaimsInv
  <2> QED  BY <2>1, JudgementIsLinked DEF BeliefsInv
<1>2. AdviceIsOnRecord
  BY DEF AdviceIsOnRecord, BeliefsInv, ClaimsInv, AuthorsInv, ChargesInv, Charged, Told
<1> QED  BY <1>1, <1>2

\* What the loop believes about its own errors is answerable and on record
\* (027_closed_learning_loop.sql:14, advisor.py:95), whatever the causes, the
\* episodes, the markets, the gates and the number of processes, and whichever
\* runs overlap, lose the provider or die: a hypothesis counts errors that came
\* after it and are linked to it, and what is the model's has its advisory.
THEOREM BeliefsStayOnRecord == HypothesesSpec => []BeliefsAreOnRecord
BY BeliefsBegin, BeliefsStand, BeliefsAreRecorded, PTL DEF HypothesesSpec

-----------------------------------------------------------------------------
(***************************************************************************)
(* Dialogue. A turn's rows are told by where its call is: while the answer *)
(* is open every call of an envelope has its answer but those still to do, *)
(* and what was read to be replayed is a whole table, which the log goes   *)
(* on holding in order. Carrying a table along by an increasing function   *)
(* of places serves appends, commits and rollbacks alike.                  *)
(***************************************************************************)

(***************************************************************************)
(* Tables: the rows at some places, and the rows of one turn.              *)
(***************************************************************************)
\* f counts the places in order.
Counts(f, n, places) ==
    /\ n \in Nat /\ f \in [1..n -> places]
    /\ \A a, b \in 1..n : a < b => f[a] < f[b]
    /\ \A i \in places : \E k \in 1..n : f[k] = i

\* How many places there are up to one of them.
Rank(places, i) == Cardinality({j \in places : j <= i})

LEMMA RanksGrow ==
    ASSUME NEW places \in SUBSET Nat, IsFiniteSet(places), NEW i \in places
    PROVE  /\ Rank(places, i) \in 1..Cardinality(places)
           /\ \A h \in places : h < i => Rank(places, h) < Rank(places, i)
<1> DEFINE upTo(h) == {j \in places : j <= h}
<1>1. \A h \in places : /\ IsFiniteSet(upTo(h)) /\ Cardinality(upTo(h)) \in Nat
                       /\ Cardinality(upTo(h)) <= Cardinality(places)
  BY FS_Subset, FS_CardinalityType
<1>2. Cardinality(places) \in Nat /\ i \in upTo(i)
  BY FS_CardinalityType
<1>3. Cardinality(upTo(i)) # 0
  BY <1>1, <1>2, FS_EmptySet
<1>4. ASSUME NEW h \in places, h < i
      PROVE  Cardinality(upTo(h)) < Cardinality(upTo(i))
  <2>1. upTo(h) \in SUBSET upTo(i)
    <3>1. h \in Nat /\ i \in Nat /\ \A j \in places : j \in Nat
      OBVIOUS
    <3>2. \A j \in places : j <= h => j <= i
      BY <1>4, <3>1
    <3> QED  BY <3>2
  <2>2. upTo(h) # upTo(i)
    <3>1. i \notin upTo(h)
      BY <1>4
    <3> QED  BY <1>2, <3>1
  <2>3. /\ Cardinality(upTo(h)) <= Cardinality(upTo(i))
        /\ Cardinality(upTo(i)) # Cardinality(upTo(h))
    <3> HIDE DEF upTo
    <3> QED  BY <1>1, <2>1, <2>2, FS_Subset
  <2> QED  BY <1>1, <1>4, <2>3
<1>5. /\ Rank(places, i) = Cardinality(upTo(i)) /\ \A h \in places : Rank(places, h) = Cardinality(upTo(h))
  BY DEF Rank
<1>6. Cardinality(upTo(i)) \in 1..Cardinality(places)
  <2> HIDE DEF upTo
  <2> QED  BY <1>1, <1>2, <1>3
<1> QED  BY <1>4, <1>5, <1>6

\* Every number up to their own is the rank of one of the places.
LEMMA RanksAreAll ==
    ASSUME NEW places \in SUBSET Nat, IsFiniteSet(places), NEW k \in 1..Cardinality(places)
    PROVE  \E i \in places : Rank(places, i) = k
<1> DEFINE n == Cardinality(places)
           ranks == {Rank(places, i) : i \in places}
           f == [i \in places |-> Rank(places, i)]
<1>1. n \in Nat
  BY FS_CardinalityType
<1>2. \A i \in places : Rank(places, i) \in 1..n
  BY RanksGrow
<1>3. f \in Surjection(places, ranks)
  BY DEF Surjection
<1>4. f \in Injection(places, ranks)
  <2>1. ASSUME NEW i \in places, NEW j \in places, i < j
        PROVE  f[i] # f[j]
    <3>1. Rank(places, i) < Rank(places, j) /\ Rank(places, i) \in Nat /\ Rank(places, j) \in Nat
      BY <1>1, <1>2, <2>1, RanksGrow
    <3> QED  BY <3>1
  <2>2. \A i, j \in places : i = j \/ i < j \/ j < i
    OBVIOUS
  <2>3. \A i, j \in places : f[i] = f[j] => i = j
    BY <2>1, <2>2
  <2>4. f \in [places -> ranks]
    OBVIOUS
  <2> QED  BY <2>3, <2>4 DEF Injection, IsInjective
<1>5. IsFiniteSet(ranks) /\ Cardinality(ranks) = n
  <2> HIDE DEF ranks, f
  <2> QED  BY <1>3, <1>4, FS_Surjection
<1>6. ranks \in SUBSET (1..n)
  BY <1>2
<1>7. IsFiniteSet(1..n) /\ Cardinality(1..n) = n
  BY <1>1, FS_Interval
<1>8. ranks = 1..n
  <2> HIDE DEF ranks
  <2> QED  BY <1>5, <1>6, <1>7, FS_Subset
<1> QED  BY <1>8

\* The rows of places are counted off in order and picked so.
PickedInOrder(rows, places) ==
    \E n \in Nat : \E f \in [1..n -> places] :
        Counts(f, n, places) /\ Pick(rows, places) = [k \in 1..n |-> rows[f[k]]]

\* What Pick leaves are the rows at the places, counted in order.
LEMMA PickCounts ==
    ASSUME NEW rows, NEW places \in SUBSET Nat, IsFiniteSet(places)
    PROVE  PickedInOrder(rows, places)
<1> DEFINE n == Cardinality(places)
           f == [k \in 1..n |-> NthPlace(places, k)]
<1>1. n \in Nat
  BY FS_CardinalityType
<1>2. \A k \in 1..n : NthPlace(places, k) \in places /\ Rank(places, NthPlace(places, k)) = k
  <2> SUFFICES ASSUME NEW k \in 1..n
               PROVE  NthPlace(places, k) \in places /\ Rank(places, NthPlace(places, k)) = k
    OBVIOUS
  <2>1. \E i \in places : Cardinality({j \in places : j <= i}) = k
    BY RanksAreAll DEF Rank
  <2>2. NthPlace(places, k) \in places /\ Cardinality({j \in places : j <= NthPlace(places, k)}) = k
    BY <2>1 DEF NthPlace
  <2> QED  BY <2>2 DEF Rank
<1>3. f \in [1..n -> places]
  BY <1>2
<1>4. \A i, j \in places : i < j => Rank(places, i) < Rank(places, j)
  BY RanksGrow
<1>5. \A a, b \in 1..n : a < b => f[a] < f[b]
  <2> SUFFICES ASSUME NEW a \in 1..n, NEW b \in 1..n, a < b
               PROVE  f[a] < f[b]
    OBVIOUS
  <2>1. /\ f[a] \in places /\ f[b] \in places /\ f[a] \in Nat /\ f[b] \in Nat
        /\ Rank(places, f[a]) = a /\ Rank(places, f[b]) = b
    BY <1>2
  <2>2. ~(f[b] < f[a]) /\ f[b] # f[a]
    <3> HIDE DEF f, n
    <3>1. CASE f[b] < f[a]
      BY <1>1, <1>4, <2>1, <3>1
    <3> QED  BY <1>1, <2>1, <3>1
  <2> HIDE DEF f, n
  <2> QED  BY <2>1, <2>2
<1>6. \A i \in places : \E k \in 1..n : f[k] = i
  <2> SUFFICES ASSUME NEW i \in places
               PROVE  \E k \in 1..n : f[k] = i
    OBVIOUS
  <2> DEFINE k == Rank(places, i)
  <2>1. k \in 1..n
    BY RanksGrow
  <2>2. /\ f[k] \in places /\ Rank(places, f[k]) = Rank(places, i)
    BY <1>2, <2>1
  <2>3. /\ f[k] \in Nat /\ i \in Nat
        /\ \A h \in places : Rank(places, h) \in Nat
    <3>1. ASSUME NEW h \in places
          PROVE  Rank(places, h) \in Nat
      <4>1. Rank(places, h) \in 1..n
        BY RanksGrow
      <4> HIDE DEF n
      <4> QED  BY <1>1, <4>1
    <3> HIDE DEF f, k, n
    <3> QED  BY <2>2, <3>1
  <2>4. f[k] = i
    <3> HIDE DEF f, k, n
    <3>1. CASE f[k] < i
      BY <1>4, <2>2, <2>3, <3>1
    <3>2. CASE i < f[k]
      BY <1>4, <2>2, <2>3, <3>2
    <3> QED  BY <2>3, <3>1, <3>2
  <2> QED  BY <2>1, <2>4
<1>7. Pick(rows, places) = [k \in 1..n |-> rows[f[k]]]
  BY DEF Pick
<1>8. Counts(f, n, places)
  BY <1>1, <1>3, <1>5, <1>6 DEF Counts
<1> HIDE DEF n, f
<1> QED  BY <1>1, <1>3, <1>7, <1>8 DEF PickedInOrder

(***************************************************************************)
(* What the rows of a turn are to each other. rows is the table, mine the  *)
(* places of the turn's rows in it.                                        *)
(***************************************************************************)
OfTurn(rows, t) == {i \in DOMAIN rows : rows[i].turn = t}

\* A turn opens with its one question.
Opens(rows, mine) == \A i \in mine :
    /\ rows[i].kind = "question" => \A j \in mine : i <= j
    /\ rows[i].kind # "question" => \E q \in mine : q < i /\ rows[q].kind = "question"

\* A result follows its envelope, with nothing but results between them.
AskedFor(rows, mine) == \A i \in mine : rows[i].kind = "result" =>
    \E c \in mine : /\ c < i /\ rows[c].kind = "calls" /\ rows[i].ids \subseteq rows[c].ids
                    /\ \A k \in mine : c < k /\ k <= i => rows[k].kind = "result"

\* A result is of one call, and no other result is.
Once(rows, mine) ==
    /\ \A i \in mine : rows[i].kind = "result" => \E id \in rows[i].ids : rows[i].ids = {id}
    /\ \A i, j \in mine : /\ rows[i].kind = "result" /\ rows[j].kind = "result"
                          /\ rows[i].ids = rows[j].ids
                          => i = j

\* A call of an envelope has its result, with nothing but results of that
\* envelope between them.
ResultAt(rows, mine, c, id) == \E r \in mine :
    /\ c < r /\ rows[r].kind = "result" /\ rows[r].ids = {id}
    /\ \A k \in mine : c < k /\ k <= r => rows[k].kind = "result" /\ rows[k].ids \subseteq rows[c].ids

\* So have all calls but those still to be made.
Given(rows, mine, todo) == \A c \in mine : rows[c].kind = "calls" =>
    /\ IsFiniteSet(rows[c].ids)
    /\ \A id \in rows[c].ids \ todo : ResultAt(rows, mine, c, id)

\* A reply is the last row, and calls and results are not.
Closed(rows, mine) == \A i \in mine :
    /\ rows[i].kind = "reply" => \A j \in mine : j <= i
    /\ rows[i].kind \in {"calls", "result"} => \E j \in mine : i < j

Answers(rows, mine, todo) ==
    Opens(rows, mine) /\ AskedFor(rows, mine) /\ Once(rows, mine) /\ Given(rows, mine, todo)

Whole(rows, mine) == Answers(rows, mine, {}) /\ Closed(rows, mine)

\* The rows of one table at some places are, in the same order, those of another.
Carries(f, rows, mine, others, theirs) ==
    /\ f \in [theirs -> mine]
    /\ \A i \in mine : \E k \in theirs : f[k] = i
    /\ \A a, b \in theirs : (a < b <=> f[a] < f[b]) /\ (a <= b <=> f[a] <= f[b])
    /\ \A a, b \in theirs : f[a] = f[b] => a = b
    /\ \A k \in theirs : others[k].kind = rows[f[k]].kind /\ others[k].ids = rows[f[k]].ids

\* What is counted in order is carried.
LEMMA InOrderCarries ==
    ASSUME NEW rows, NEW mine \in SUBSET Nat, NEW others, NEW theirs \in SUBSET Nat,
           NEW f \in [theirs -> mine],
           \A i \in mine : \E k \in theirs : f[k] = i,
           \A a, b \in theirs : a < b => f[a] < f[b],
           \A k \in theirs : others[k].kind = rows[f[k]].kind /\ others[k].ids = rows[f[k]].ids
    PROVE  Carries(f, rows, mine, others, theirs)
<1>1. ASSUME NEW a \in theirs, NEW b \in theirs
      PROVE  /\ (a < b <=> f[a] < f[b]) /\ (a <= b <=> f[a] <= f[b])
             /\ f[a] = f[b] => a = b
  <2>1. a \in Nat /\ b \in Nat /\ f[a] \in Nat /\ f[b] \in Nat
    OBVIOUS
  <2>2. (a < b => f[a] < f[b]) /\ (b < a => f[b] < f[a])
    OBVIOUS
  <2> QED  BY <2>1, <2>2
<1> QED  BY <1>1 DEF Carries

LEMMA OpensCarried ==
    ASSUME NEW rows, NEW mine, NEW others, NEW theirs, NEW f, Carries(f, rows, mine, others, theirs),
           Opens(rows, mine)
    PROVE  Opens(others, theirs)
<1> SUFFICES ASSUME NEW i \in theirs
             PROVE  /\ others[i].kind = "question" => \A j \in theirs : i <= j
                    /\ others[i].kind # "question" => \E q \in theirs : q < i /\ others[q].kind = "question"
  BY DEF Opens
<1>1. f[i] \in mine /\ others[i].kind = rows[f[i]].kind
  BY DEF Carries
<1>2. CASE others[i].kind = "question"
  <2>1. \A j \in mine : f[i] <= j
    BY <1>1, <1>2 DEF Opens
  <2> QED  BY <1>2, <2>1 DEF Carries
<1>3. CASE others[i].kind # "question"
  <2>1. PICK q \in mine : q < f[i] /\ rows[q].kind = "question"
    BY <1>1, <1>3 DEF Opens
  <2>2. PICK k \in theirs : f[k] = q
    BY DEF Carries
  <2> QED  BY <1>3, <2>1, <2>2 DEF Carries
<1> QED  BY <1>2, <1>3

LEMMA AskedForCarried ==
    ASSUME NEW rows, NEW mine, NEW others, NEW theirs, NEW f, Carries(f, rows, mine, others, theirs),
           AskedFor(rows, mine)
    PROVE  AskedFor(others, theirs)
<1> SUFFICES ASSUME NEW i \in theirs, others[i].kind = "result"
             PROVE  \E c \in theirs : /\ c < i /\ others[c].kind = "calls" /\ others[i].ids \subseteq others[c].ids
                                      /\ \A k \in theirs : c < k /\ k <= i => others[k].kind = "result"
  BY DEF AskedFor
<1>1. f[i] \in mine /\ rows[f[i]].kind = "result" /\ others[i].ids = rows[f[i]].ids
  BY DEF Carries
<1>2. PICK c \in mine : /\ c < f[i] /\ rows[c].kind = "calls" /\ rows[f[i]].ids \subseteq rows[c].ids
                        /\ \A k \in mine : c < k /\ k <= f[i] => rows[k].kind = "result"
  BY <1>1 DEF AskedFor
<1>3. PICK d \in theirs : f[d] = c
  BY DEF Carries
<1>4. d < i /\ others[d].kind = "calls" /\ others[i].ids \subseteq others[d].ids
  BY <1>1, <1>2, <1>3 DEF Carries
<1>5. ASSUME NEW k \in theirs, d < k, k <= i
      PROVE  others[k].kind = "result"
  <2>1. f[k] \in mine /\ c < f[k] /\ f[k] <= f[i] /\ others[k].kind = rows[f[k]].kind
    BY <1>3, <1>5 DEF Carries
  <2> QED  BY <1>2, <2>1
<1> QED  BY <1>4, <1>5

LEMMA OnceCarried ==
    ASSUME NEW rows, NEW mine, NEW others, NEW theirs, NEW f, Carries(f, rows, mine, others, theirs),
           Once(rows, mine)
    PROVE  Once(others, theirs)
<1>1. \A i \in theirs : f[i] \in mine /\ others[i].kind = rows[f[i]].kind /\ others[i].ids = rows[f[i]].ids
  BY DEF Carries
<1>2. \A i, j \in theirs : f[i] = f[j] => i = j
  BY DEF Carries
<1> QED  BY <1>1, <1>2 DEF Once

LEMMA GivenCarried ==
    ASSUME NEW rows, NEW mine, NEW others, NEW theirs, NEW f, Carries(f, rows, mine, others, theirs),
           NEW todo, Given(rows, mine, todo)
    PROVE  Given(others, theirs, todo)
<1> SUFFICES ASSUME NEW c \in theirs, others[c].kind = "calls"
             PROVE  /\ IsFiniteSet(others[c].ids)
                    /\ \A id \in others[c].ids \ todo : ResultAt(others, theirs, c, id)
  BY DEF Given
<1>1. f[c] \in mine /\ rows[f[c]].kind = "calls" /\ others[c].ids = rows[f[c]].ids
  BY DEF Carries
<1>2. IsFiniteSet(others[c].ids)
  BY <1>1 DEF Given
<1>3. ASSUME NEW id \in others[c].ids \ todo
      PROVE  ResultAt(others, theirs, c, id)
  <2>1. ResultAt(rows, mine, f[c], id)
    BY <1>1, <1>3 DEF Given
  <2>2. PICK r \in mine :
            /\ f[c] < r /\ rows[r].kind = "result" /\ rows[r].ids = {id}
            /\ \A k \in mine : f[c] < k /\ k <= r => rows[k].kind = "result" /\ rows[k].ids \subseteq rows[f[c]].ids
    BY <2>1 DEF ResultAt
  <2>3. PICK s \in theirs : f[s] = r
    BY DEF Carries
  <2>4. c < s /\ others[s].kind = "result" /\ others[s].ids = {id}
    BY <2>2, <2>3 DEF Carries
  <2>5. ASSUME NEW k \in theirs, c < k, k <= s
        PROVE  others[k].kind = "result" /\ others[k].ids \subseteq others[c].ids
    <3>1. /\ f[k] \in mine /\ f[c] < f[k] /\ f[k] <= r
          /\ others[k].kind = rows[f[k]].kind /\ others[k].ids = rows[f[k]].ids
      BY <2>3, <2>5 DEF Carries
    <3> QED  BY <1>1, <2>2, <3>1
  <2> QED  BY <2>4, <2>5 DEF ResultAt
<1> QED  BY <1>2, <1>3

LEMMA ClosedCarried ==
    ASSUME NEW rows, NEW mine, NEW others, NEW theirs, NEW f, Carries(f, rows, mine, others, theirs),
           Closed(rows, mine)
    PROVE  Closed(others, theirs)
<1> SUFFICES ASSUME NEW i \in theirs
             PROVE  /\ others[i].kind = "reply" => \A j \in theirs : j <= i
                    /\ others[i].kind \in {"calls", "result"} => \E j \in theirs : i < j
  BY DEF Closed
<1>1. f[i] \in mine /\ others[i].kind = rows[f[i]].kind
  BY DEF Carries
<1>2. ASSUME others[i].kind = "reply", NEW j \in theirs
      PROVE  j <= i
  <2>1. f[j] \in mine /\ f[j] <= f[i]
    BY <1>1, <1>2 DEF Closed, Carries
  <2> QED  BY <2>1 DEF Carries
<1>3. ASSUME others[i].kind \in {"calls", "result"}
      PROVE  \E j \in theirs : i < j
  <2>1. PICK j \in mine : f[i] < j
    BY <1>1, <1>3 DEF Closed
  <2>2. PICK k \in theirs : f[k] = j
    BY DEF Carries
  <2> QED  BY <2>1, <2>2 DEF Carries
<1> QED  BY <1>2, <1>3

LEMMA AnswersCarried ==
    ASSUME NEW rows, NEW mine, NEW others, NEW theirs, NEW f, Carries(f, rows, mine, others, theirs),
           NEW todo, Answers(rows, mine, todo)
    PROVE  Answers(others, theirs, todo)
BY OpensCarried, AskedForCarried, OnceCarried, GivenCarried DEF Answers

LEMMA WholeCarried ==
    ASSUME NEW rows, NEW mine, NEW others, NEW theirs, NEW f, Carries(f, rows, mine, others, theirs),
           Whole(rows, mine)
    PROVE  Whole(others, theirs)
BY AnswersCarried, ClosedCarried DEF Whole

(***************************************************************************)
(* Whole turns next to each other are a conversation.                      *)
(***************************************************************************)
Ids == Turn \X (0..MaxRounds) \X (1..MaxCalls)
Message == [turn : Turn, kind : Kind, ids : SUBSET Ids, stored : BOOLEAN]

WholeTurns(rows) == \A t \in Turn : Whole(rows, OfTurn(rows, t))

\* Places from one on, without a gap, are an interval.
LEMMA NoGap ==
    ASSUME NEW i \in Nat, NEW bound \in Nat, NEW places \in SUBSET (i + 1..bound),
           \A r \in places : \A k \in i + 1..r : k \in places
    PROVE  places = i + 1..i + Cardinality(places)
<1>1. CASE places = {}
  <2>1. Cardinality(places) = 0
    BY <1>1, FS_EmptySet
  <2> QED  BY <1>1, <2>1
<1>2. CASE places # {}
  <2> DEFINE gaps == {bound - r : r \in places}
  <2>0. \A r \in places : r \in Nat /\ i + 1 <= r /\ r <= bound /\ bound - r \in Nat
    <3> SUFFICES ASSUME NEW r \in places
                 PROVE  r \in Nat /\ i + 1 <= r /\ r <= bound /\ bound - r \in Nat
      OBVIOUS
    <3>1. r \in i + 1..bound
      OBVIOUS
    <3> QED  BY <3>1
  <2>1. gaps \in SUBSET Nat /\ gaps # {}
    BY <1>2, <2>0
  <2>2. PICK g \in gaps : \A h \in gaps : g <= h
    <3> HIDE DEF gaps
    <3> QED  BY <2>1, LeastOfNat
  <2>3. PICK top \in places : g = bound - top
    BY <2>2
  <2>4. \A r \in places : r <= top
    <3> SUFFICES ASSUME NEW r \in places
                 PROVE  r <= top
      OBVIOUS
    <3>1. bound - top <= bound - r
      BY <2>2, <2>3
    <3> HIDE DEF gaps
    <3> QED  BY <2>0, <3>1
  <2>5. places = i + 1..top
    <3>1. \A r \in places : r \in i + 1..top
      <4> HIDE DEF gaps
      <4> QED  BY <2>0, <2>4
    <3>2. \A k \in i + 1..top : k \in places
      OBVIOUS
    <3> QED  BY <3>1, <3>2
  <2>6. top \in Nat /\ i + 1 <= top
    BY <2>0
  <2>7. Cardinality(places) = top - i
    BY <2>5, <2>6, FS_Interval
  <2> QED  BY <2>5, <2>6, <2>7
<1> QED  BY <1>1, <1>2

\* Between two messages of a turn there are only messages of it.
LEMMA TurnsAreTogether ==
    ASSUME NEW rows \in Seq(Message), ~Interleaved(rows),
           NEW i \in 1..Len(rows), NEW k \in 1..Len(rows), NEW j \in i..k,
           rows[i].turn = rows[k].turn
    PROVE  j \in OfTurn(rows, rows[i].turn)
<1>1. DOMAIN rows = 1..Len(rows) /\ Len(rows) \in Nat
  OBVIOUS
<1>2. rows[j].turn = rows[i].turn
  BY <1>1 DEF Interleaved
<1>3. j \in 1..Len(rows)
  BY <1>1
<1> QED  BY <1>1, <1>2, <1>3 DEF OfTurn

LEMMA MessageIs ==
    ASSUME NEW rows \in Seq(Message), NEW i \in 1..Len(rows)
    PROVE  /\ rows[i] \in Message /\ rows[i].turn \in Turn /\ rows[i].kind \in Kind
           /\ i \in OfTurn(rows, rows[i].turn) /\ i \in Nat
           /\ \A j \in OfTurn(rows, rows[i].turn) : j \in 1..Len(rows) /\ rows[j].turn = rows[i].turn
<1>1. DOMAIN rows = 1..Len(rows) /\ Len(rows) \in Nat
  OBVIOUS
<1>2. rows[i] \in Message
  OBVIOUS
<1> QED  BY <1>1, <1>2 DEF Message, OfTurn

\* An envelope is followed by as many results as it has calls.
LEMMA CallsAreAnswered ==
    ASSUME NEW rows \in Seq(Message), WholeTurns(rows), ~Interleaved(rows),
           NEW i \in 1..Len(rows), rows[i].kind = "calls"
    PROVE  LET n == Cardinality(rows[i].ids)
           IN /\ n \in Nat /\ i + n <= Len(rows)
              /\ UNION {rows[j].ids : j \in i + 1..i + n} = rows[i].ids
<1> DEFINE t == rows[i].turn
           mine == OfTurn(rows, t)
           ids == rows[i].ids
           Follows(r) == /\ i < r /\ rows[r].kind = "result"
                         /\ \A k \in mine : i < k /\ k <= r => rows[k].kind = "result" /\ rows[k].ids \subseteq ids
           places == {r \in mine : Follows(r)}
<1>1. Whole(rows, mine) /\ i \in mine /\ i \in Nat /\ Len(rows) \in Nat
  BY MessageIs DEF WholeTurns
<1>2. Once(rows, mine) /\ IsFiniteSet(ids) /\ \A id \in ids : ResultAt(rows, mine, i, id)
  BY <1>1 DEF Whole, Answers, Given
<1>3. \A j \in mine : j \in 1..Len(rows) /\ rows[j].turn = t
  BY MessageIs
<1>4. places \in SUBSET (i + 1..Len(rows))
  BY <1>1, <1>3
<1>5. ASSUME NEW r \in places, NEW k \in i + 1..r
      PROVE  k \in places
  <2>1. r \in mine /\ r \in 1..Len(rows) /\ rows[r].turn = t /\ Follows(r)
    BY <1>3
  <2>2. k \in i..r
    BY <1>1, <2>1
  <2>3. k \in mine
    BY <1>1, <2>1, <2>2, TurnsAreTogether
  <2>4. i < k /\ k <= r /\ k \in Nat
    BY <1>1, <2>1
  <2>5. \A h \in mine : h <= k => h <= r
    BY <1>3, <2>1, <2>4
  <2>6. rows[k].kind = "result"
    BY <2>1, <2>3, <2>4
  <2> QED  BY <2>1, <2>3, <2>4, <2>5, <2>6
<1>6. \A r \in places : \E id \in ids : rows[r].ids = {id}
  <2> SUFFICES ASSUME NEW r \in places
               PROVE  \E id \in ids : rows[r].ids = {id}
    OBVIOUS
  <2>1. r \in mine /\ rows[r].kind = "result" /\ r <= r /\ i < r
    BY <1>3
  <2>2. rows[r].ids \subseteq ids
    BY <2>1
  <2>3. \E id \in rows[r].ids : rows[r].ids = {id}
    BY <1>2, <2>1 DEF Once
  <2> QED  BY <2>2, <2>3
<1>7. ASSUME NEW id \in ids
      PROVE  \E r \in places : rows[r].ids = {id}
  BY <1>2, <1>7 DEF ResultAt
<1> DEFINE of == [r \in places |-> CHOOSE id \in ids : rows[r].ids = {id}]
<1>8. \A r \in places : of[r] \in ids /\ rows[r].ids = {of[r]}
  BY <1>6
<1>9. of \in Surjection(places, ids)
  <2>1. of \in [places -> ids]
    BY <1>8
  <2>2. \A id \in ids : \E r \in places : of[r] = id
    <3> SUFFICES ASSUME NEW id \in ids
                 PROVE  \E r \in places : of[r] = id
      OBVIOUS
    <3>1. PICK r \in places : rows[r].ids = {id}
      BY <1>7
    <3>2. of[r] = id
      BY <1>8, <3>1
    <3> QED  BY <3>2
  <2> HIDE DEF of, places
  <2> QED  BY <2>1, <2>2 DEF Surjection
<1>10. of \in Injection(places, ids)
  <2>1. of \in [places -> ids]
    BY <1>8
  <2>2. \A a, b \in places : of[a] = of[b] => a = b
    <3> SUFFICES ASSUME NEW a \in places, NEW b \in places, of[a] = of[b]
                 PROVE  a = b
      OBVIOUS
    <3>1. rows[a].ids = rows[b].ids
      BY <1>8
    <3>2. a \in mine /\ b \in mine /\ rows[a].kind = "result" /\ rows[b].kind = "result"
      OBVIOUS
    <3> QED  BY <1>2, <3>1, <3>2 DEF Once
  <2> HIDE DEF of, places
  <2> QED  BY <2>1, <2>2 DEF Injection, IsInjective
<1>11. IsFiniteSet(places) /\ Cardinality(places) = Cardinality(ids) /\ Cardinality(ids) \in Nat
  <2>1. IsFiniteSet(places)
    <3> HIDE DEF places
    <3> QED  BY <1>2, <1>10, FS_Injection
  <2> HIDE DEF of, places
  <2> QED  BY <1>2, <1>9, <1>10, <2>1, FS_Surjection, FS_CardinalityType
<1>12. places = i + 1..i + Cardinality(ids)
  <2> HIDE DEF places
  <2> QED  BY <1>1, <1>4, <1>5, <1>11, NoGap
<1>13. UNION {rows[j].ids : j \in places} = ids
  <2>1. ASSUME NEW id \in ids
        PROVE  \E r \in places : id \in rows[r].ids
    BY <1>7
  <2>2. ASSUME NEW r \in places, NEW id \in rows[r].ids
        PROVE  id \in ids
    <3> HIDE DEF places, ids
    <3> QED  BY <1>6, <2>2
  <2> HIDE DEF places, ids
  <2> QED  BY <2>1, <2>2
<1>14. i + Cardinality(ids) <= Len(rows)
  <2>1. CASE Cardinality(ids) = 0
    BY <1>1, <2>1
  <2>2. CASE Cardinality(ids) # 0
    <3>1. i + Cardinality(ids) \in places
      <4> HIDE DEF places
      <4> QED  BY <1>1, <1>11, <1>12, <2>2
    <3> HIDE DEF places
    <3>2. places \subseteq i + 1..Len(rows)
      BY <1>4
    <3> HIDE DEF ids
    <3>3. i + Cardinality(ids) \in i + 1..Len(rows)
      BY ONLY <3>1, <3>2
    <3>4. i \in Int /\ Len(rows) \in Int
      BY <1>1
    <3> QED  BY ONLY <3>3, <3>4
  <2> QED  BY <2>1, <2>2
<1> QED
  <2> HIDE DEF places
  <2> QED  BY <1>11, <1>12, <1>13, <1>14

\* A turn that reaches the far side of a question began there or after it.
LEMMA NothingBeforeTheQuestion ==
    ASSUME NEW rows \in Seq(Message), WholeTurns(rows), ~Interleaved(rows),
           NEW m \in 1..Len(rows), rows[m].kind = "question",
           NEW i \in m..Len(rows), NEW c \in OfTurn(rows, rows[i].turn)
    PROVE  m <= c
<1>1. Len(rows) \in Nat /\ m \in Nat /\ i \in Nat /\ m <= i /\ i \in 1..Len(rows)
  OBVIOUS
<1>2. c \in 1..Len(rows) /\ rows[c].turn = rows[i].turn
  BY <1>1, MessageIs
<1>3. CASE c < m
  <2>1. m \in c..i
    BY <1>1, <1>2, <1>3
  <2>2. m \in OfTurn(rows, rows[c].turn)
    BY <1>1, <1>2, <2>1, TurnsAreTogether
  <2>3. Opens(rows, OfTurn(rows, rows[c].turn))
    BY <1>2, MessageIs DEF WholeTurns, Whole, Answers
  <2>4. m <= c
    BY <1>2, <2>2, <2>3 DEF Opens
  <2> QED  BY <1>1, <1>2, <1>3, <2>4
<1> QED  BY <1>1, <1>2, <1>3

\* What follows a question.
LEMMA SuffixIs ==
    ASSUME NEW rows \in Seq(Message), NEW m \in 1..Len(rows)
    PROVE  LET s == SubSeq(rows, m, Len(rows))
           IN /\ s \in Seq(Message) /\ Len(s) = Len(rows) - m + 1 /\ DOMAIN s = 1..Len(rows) - m + 1
              /\ \A i \in 1..Len(rows) - m + 1 : s[i] = rows[m + i - 1] /\ m + i - 1 \in m..Len(rows)
<1>1. Len(rows) \in Nat /\ m \in Nat /\ m <= Len(rows)
  OBVIOUS
<1>2. \A i \in m..Len(rows) : rows[i] \in Message
  OBVIOUS
<1>3. /\ SubSeq(rows, m, Len(rows)) \in Seq(Message)
      /\ Len(SubSeq(rows, m, Len(rows))) = Len(rows) - m + 1
      /\ \A i \in 1..Len(rows) - m + 1 : SubSeq(rows, m, Len(rows))[i] = rows[m + i - 1]
  BY <1>1, <1>2, SubSeqProperties
<1>4. \A i \in 1..Len(rows) - m + 1 : m + i - 1 \in m..Len(rows)
  BY <1>1
<1>5. DOMAIN SubSeq(rows, m, Len(rows)) = 1..Len(SubSeq(rows, m, Len(rows)))
  BY <1>3
<1> QED  BY <1>3, <1>4, <1>5

LEMMA SuffixConverses ==
    ASSUME NEW rows \in Seq(Message), WholeTurns(rows), ~Interleaved(rows),
           NEW m \in 1..Len(rows), rows[m].kind = "question"
    PROVE  IsConversation(SubSeq(rows, m, Len(rows)))
<1> DEFINE s == SubSeq(rows, m, Len(rows))
           last == Len(rows) - m + 1
<1>1. /\ s \in Seq(Message) /\ Len(s) = last /\ DOMAIN s = 1..last
      /\ \A i \in 1..last : s[i] = rows[m + i - 1] /\ m + i - 1 \in m..Len(rows)
  BY SuffixIs
<1>2. Len(rows) \in Nat /\ m \in Nat /\ 1 <= m /\ m <= Len(rows)
  OBVIOUS
<1> HIDE DEF s
<1> SUFFICES ASSUME NEW i \in 1..last
             PROVE  /\ s[i].kind = "calls" =>
                         LET after == i + 1..i + Cardinality(s[i].ids)
                         IN after \subseteq DOMAIN s /\ UNION {s[j].ids : j \in after} = s[i].ids
                    /\ s[i].kind = "result" =>
                         \E j \in 1..i - 1 : /\ s[j].kind = "calls" /\ s[i].ids \subseteq s[j].ids
                                             /\ \A k \in j + 1..i : s[k].kind = "result"
  BY <1>1 DEF IsConversation, s
<1> DEFINE p == m + i - 1
<1>3. s[i] = rows[p] /\ p \in m..Len(rows) /\ p \in 1..Len(rows)
  BY <1>1, <1>2
<1>4. CASE s[i].kind = "calls"
  <2> DEFINE n == Cardinality(s[i].ids)
             after == i + 1..i + n
  <2>1. n \in Nat /\ p + n <= Len(rows) /\ UNION {rows[j].ids : j \in p + 1..p + n} = s[i].ids
    <3>1. rows[p].kind = "calls"
      BY <1>3, <1>4
    <3> HIDE DEF p
    <3> QED  BY <1>3, <3>1, CallsAreAnswered
  <2>2. after \subseteq DOMAIN s
    <3> HIDE DEF n
    <3> QED  BY <1>1, <1>2, <2>1
  <2>3. {s[j].ids : j \in after} = {rows[j].ids : j \in p + 1..p + n}
    <3>1. ASSUME NEW j \in after
          PROVE  s[j].ids = rows[m + j - 1].ids /\ m + j - 1 \in p + 1..p + n
      <4>1. j \in 1..last
        BY <1>1, <2>2
      <4>2. m + j - 1 \in p + 1..p + n
        <5> HIDE DEF n
        <5>1. m \in Int /\ i \in Int /\ n \in Int /\ j \in Int /\ i + 1 <= j /\ j <= i + n
          BY <1>2, <2>1
        <5> HIDE DEF p
        <5>2. p = m + i - 1
          BY DEF p
        <5> QED  BY ONLY <5>1, <5>2
      <4> QED  BY <1>1, <4>1, <4>2
    <3>2. ASSUME NEW q \in p + 1..p + n
          PROVE  \E j \in after : rows[q].ids = s[j].ids
      <4>1. q - m + 1 \in after /\ m + (q - m + 1) - 1 = q
        <5> HIDE DEF n
        <5> QED  BY <1>2, <2>1
      <4>2. s[q - m + 1] = rows[q]
        BY <1>1, <2>2, <4>1
      <4> QED  BY <4>1, <4>2
    <3> HIDE DEF after, p, n
    <3>3. \A j \in after : \E q \in p + 1..p + n : s[j].ids = rows[q].ids
      BY <3>1
    <3>4. \A q \in p + 1..p + n : \E j \in after : rows[q].ids = s[j].ids
      BY <3>2
    <3> QED  BY ONLY <3>3, <3>4
  <2> QED  BY <1>4, <2>1, <2>2, <2>3
<1>5. CASE s[i].kind = "result"
  <2> DEFINE mine == OfTurn(rows, rows[p].turn)
  <2>1. AskedFor(rows, mine) /\ p \in mine
    BY <1>3, MessageIs DEF WholeTurns, Whole, Answers
  <2>2. PICK c \in mine : /\ c < p /\ rows[c].kind = "calls" /\ rows[p].ids \subseteq rows[c].ids
                          /\ \A k \in mine : c < k /\ k <= p => rows[k].kind = "result"
    BY <1>3, <1>5, <2>1 DEF AskedFor
  <2>3. m <= c
    BY <1>3, NothingBeforeTheQuestion
  <2>4. c \in 1..Len(rows) /\ rows[c].turn = rows[p].turn
    BY <1>3, MessageIs
  <2> DEFINE j == c - m + 1
  <2>5. j \in 1..i - 1 /\ j \in 1..last /\ m + j - 1 = c
    BY <1>2, <2>2, <2>3, <2>4
  <2>6. s[j] = rows[c]
    BY <1>1, <2>5
  <2>7. ASSUME NEW k \in j + 1..i
        PROVE  s[k].kind = "result"
    <3> DEFINE h == m + k - 1
    <3>1. k \in 1..last /\ h \in c..p /\ c < h /\ h <= p
      <4>1. k \in Int /\ j + 1 <= k /\ k <= i /\ i \in 1..last /\ j \in 1..last /\ c \in Nat
        BY <1>2, <2>4, <2>5
      <4>2. k \in 1..last
        BY <1>2, <4>1
      <4> HIDE DEF j
      <4> QED  BY <1>2, <2>5, <4>1, <4>2
    <3>2. h \in mine
      BY <1>3, <2>4, <3>1, TurnsAreTogether
    <3>3. s[k] = rows[h]
      BY <1>1, <3>1
    <3> QED  BY <2>2, <3>1, <3>2, <3>3
  <2> HIDE DEF j
  <2> QED  BY <1>3, <1>5, <2>2, <2>5, <2>6, <2>7
<1> QED  BY <1>4, <1>5

LEMMA SuffixIsAnswered ==
    ASSUME NEW rows \in Seq(Message), WholeTurns(rows), ~Interleaved(rows),
           NEW m \in 1..Len(rows), rows[m].kind = "question"
    PROVE  IsAnswered(SubSeq(rows, m, Len(rows)))
<1> DEFINE s == SubSeq(rows, m, Len(rows))
           last == Len(rows) - m + 1
<1>1. /\ s \in Seq(Message) /\ Len(s) = last /\ DOMAIN s = 1..last
      /\ \A i \in 1..last : s[i] = rows[m + i - 1] /\ m + i - 1 \in m..Len(rows)
  BY SuffixIs
<1>2. Len(rows) \in Nat /\ m \in Nat /\ 1 <= m /\ m <= Len(rows)
  OBVIOUS
<1>3. ASSUME NEW p \in 1..Len(rows)
      PROVE  /\ Opens(rows, OfTurn(rows, rows[p].turn)) /\ Closed(rows, OfTurn(rows, rows[p].turn))
             /\ p \in OfTurn(rows, rows[p].turn) /\ rows[p].kind \in Kind
  BY MessageIs DEF WholeTurns, Whole, Answers
<1>4. Last(s).kind \in {"question", "reply"}
  <2>1. Last(s) = rows[Len(rows)]
    <3>1. last \in 1..last /\ m + last - 1 = Len(rows)
      BY <1>2
    <3>2. s[last] = rows[Len(rows)]
      BY <1>1, <3>1
    <3> QED  BY <1>1, <3>2 DEF Last
  <2>2. CASE rows[Len(rows)].kind \in {"calls", "result"}
    <3>1. Len(rows) \in 1..Len(rows)
      BY <1>2
    <3>2. PICK j \in OfTurn(rows, rows[Len(rows)].turn) : Len(rows) < j
      BY <1>3, <2>2, <3>1 DEF Closed
    <3>3. j \in 1..Len(rows)
      BY <3>1, MessageIs
    <3> QED  BY <1>2, <3>2, <3>3
  <2>3. rows[Len(rows)].kind \in Kind
    BY <1>2, <1>3
  <2> QED  BY <2>1, <2>2, <2>3 DEF Kind
<1>5. ASSUME NEW i \in 1..last, NEW j \in {i + 1} \cap 1..last
      PROVE  /\ s[j].kind = "question" => s[i].kind \in {"question", "reply"}
             /\ s[j].kind # "question" => s[i].turn = s[j].turn /\ s[i].kind # "reply"
  <2> DEFINE p == m + i - 1
             q == m + j - 1
  <2>1. /\ s[i] = rows[p] /\ s[j] = rows[q] /\ p \in 1..Len(rows) /\ q \in 1..Len(rows)
        /\ q = p + 1 /\ p \in Nat /\ q \in m..Len(rows) /\ m <= p
    BY <1>1, <1>2
  <2> HIDE DEF p, q
  <2>2. ASSUME rows[q].kind = "question", rows[p].kind \in {"calls", "result"}
        PROVE  FALSE
    <3>1. PICK k \in OfTurn(rows, rows[p].turn) : p < k
      BY <1>3, <2>1, <2>2 DEF Closed
    <3>2. k \in 1..Len(rows) /\ rows[k].turn = rows[p].turn
      BY <2>1, MessageIs
    <3>3. q \in p..k
      <4>1. p \in Int /\ q \in Int /\ k \in Int /\ q = p + 1 /\ p < k
        BY <2>1, <3>1, <3>2
      <4>2. p <= q /\ q <= k
        BY ONLY <4>1
      <4> QED  BY ONLY <4>1, <4>2
    <3>4. q \in OfTurn(rows, rows[p].turn)
      BY <2>1, <3>2, <3>3, TurnsAreTogether
    <3>5. q <= p
      BY <1>3, <2>1, <2>2, <3>4 DEF Opens
    <3> QED  BY <2>1, <3>5
  <2>3. ASSUME rows[q].kind # "question"
        PROVE  rows[p].turn = rows[q].turn /\ rows[p].kind # "reply"
    <3>1. PICK o \in OfTurn(rows, rows[q].turn) : o < q
      BY <1>3, <2>1, <2>3 DEF Opens
    <3>2. o \in 1..Len(rows) /\ rows[o].turn = rows[q].turn
      BY <2>1, MessageIs
    <3>3. p \in o..q
      <4>1. m \in Int /\ p \in Int /\ q \in Int /\ o \in Int /\ q = p + 1 /\ o < q
        BY <2>1, <3>1, <3>2
      <4>2. o <= p /\ p <= q
        BY ONLY <4>1
      <4> QED  BY ONLY <4>1, <4>2
    <3>4. p \in OfTurn(rows, rows[o].turn)
      BY <2>1, <3>2, <3>3, TurnsAreTogether
    <3>5. rows[p].turn = rows[q].turn
      BY <3>2, <3>4 DEF OfTurn
    <3>6. CASE rows[p].kind = "reply"
      <4>1. q <= p
        BY <1>3, <2>1, <3>5, <3>6 DEF Closed
      <4> QED  BY <2>1, <4>1
    <3> QED  BY <3>5, <3>6
  <2>4. rows[p].kind \in Kind
    BY <1>3, <2>1
  <2> QED  BY <2>1, <2>2, <2>3, <2>4 DEF Kind
<1> HIDE DEF s, last
<1> QED  BY <1>1, <1>4, <1>5 DEF IsAnswered, s, last

LEMMA NothingConverses == IsConversation(<<>>) /\ IsAnswered(<<>>)
BY DEF IsConversation, IsAnswered

\* Whole turns, each in one piece, converse.
LEMMA WholeTurnsConverse ==
    ASSUME NEW rows \in Seq(Message), WholeTurns(rows), ~Interleaved(rows)
    PROVE  IsConversation(rows) /\ IsAnswered(rows)
<1>1. CASE rows = <<>>
  BY <1>1, NothingConverses
<1>2. CASE rows # <<>>
  <2>1. Len(rows) \in Nat /\ 1 \in 1..Len(rows)
    BY <1>2, EmptySeq
  <2>2. Opens(rows, OfTurn(rows, rows[1].turn)) /\ 1 \in OfTurn(rows, rows[1].turn)
    BY <2>1, MessageIs DEF WholeTurns, Whole, Answers
  <2>3. \A q \in OfTurn(rows, rows[1].turn) : q \in 1..Len(rows)
    BY <2>1, MessageIs
  <2>4. rows[1].kind = "question"
    BY <2>1, <2>2, <2>3 DEF Opens
  <2>5. SubSeq(rows, 1, Len(rows)) = rows
    BY SubSeqFull
  <2>6. IsConversation(SubSeq(rows, 1, Len(rows))) /\ IsAnswered(SubSeq(rows, 1, Len(rows)))
    BY <2>1, <2>4, SuffixConverses, SuffixIsAnswered
  <2> QED  BY <2>5, <2>6
<1> QED  BY <1>1, <1>2

\* So does what a window leaves of them, from its first question on.
LEMMA WindowConverses ==
    ASSUME NEW rows \in Seq(Message), WholeTurns(rows), ~Interleaved(rows)
    PROVE  IsConversation(FromAQuestion(Window(rows))) /\ IsAnswered(FromAQuestion(Window(rows)))
<1> DEFINE from == IF Len(rows) > MaxReplay THEN Len(rows) - MaxReplay + 1 ELSE 1
           win == Window(rows)
           first == {i \in DOMAIN win : win[i].kind = "question"}
           m == CHOOSE i \in first : \A j \in first : i <= j
<1>1. Len(rows) \in Nat /\ MaxReplay \in Nat /\ from \in Nat /\ 1 <= from
  BY DialogueAssumption
<1>2. win = SubSeq(rows, from, Len(rows))
  BY DEF Window
<1>3. CASE first = {}
  <2>1. FromAQuestion(win) = <<>>
    BY <1>3 DEF FromAQuestion
  <2> QED  BY <2>1, NothingConverses
<1>4. CASE first # {} /\ from <= Len(rows)
  <2>1. from \in 1..Len(rows)
    BY <1>1, <1>4
  <2>2. /\ win \in Seq(Message) /\ Len(win) = Len(rows) - from + 1 /\ DOMAIN win = 1..Len(rows) - from + 1
        /\ \A i \in 1..Len(rows) - from + 1 : win[i] = rows[from + i - 1] /\ from + i - 1 \in from..Len(rows)
    <3> HIDE DEF from, win
    <3> QED  BY <1>2, <2>1, SuffixIs
  <2>3. first \in SUBSET Nat
    <3>1. \A i \in first : i \in 1..Len(rows) - from + 1
      BY <2>2
    <3> HIDE DEF first, from
    <3> QED  BY <1>1, <3>1
  <2>4. \E i \in first : \A j \in first : i <= j
    <3> HIDE DEF first
    <3> QED  BY <1>4, <2>3, LeastOfNat
  <2>5. m \in first
    <3> HIDE DEF first
    <3> QED  BY <2>4
  <2>6. FromAQuestion(win) = SubSeq(win, m, Len(win))
    BY <1>4 DEF FromAQuestion
  <2>7. m \in 1..Len(rows) - from + 1 /\ win[m].kind = "question"
    BY <2>2, <2>5
  <2> HIDE DEF m, win, first, from
  <2>8. /\ from + m - 1 \in 1..Len(rows) /\ rows[from + m - 1].kind = "question"
        /\ Len(rows) \in 1..Len(rows) /\ Len(win) \in 1..Len(rows) - from + 1 /\ from + Len(win) - 1 = Len(rows)
    BY <1>1, <2>1, <2>2, <2>7
  <2>9. SubSeq(SubSeq(rows, from, Len(rows)), m, Len(win)) = SubSeq(rows, from + m - 1, from + Len(win) - 1)
    BY <2>1, <2>7, <2>8, SubSeqOfSubSeq
  <2>10. FromAQuestion(win) = SubSeq(rows, from + m - 1, Len(rows))
    BY <1>2, <2>6, <2>8, <2>9
  <2>11. IsConversation(SubSeq(rows, from + m - 1, Len(rows))) /\ IsAnswered(SubSeq(rows, from + m - 1, Len(rows)))
    BY <2>8, SuffixConverses, SuffixIsAnswered
  <2> QED  BY <2>10, <2>11 DEF win
<1>5. CASE ~(from <= Len(rows))
  <2>1. win = <<>>
    <3> HIDE DEF from, win
    <3> QED  BY <1>1, <1>2, <1>5, SubSeqEmpty
  <2>2. first = {}
    BY <2>1
  <2>3. FromAQuestion(win) = <<>>
    BY <2>2 DEF FromAQuestion
  <2> QED  BY <2>3, NothingConverses
<1> QED  BY <1>3, <1>4, <1>5

(***************************************************************************)
(* What was once read: its rows are still in the table, in their order.    *)
(***************************************************************************)
StoredIn(rows) == {i \in DOMAIN rows : rows[i].stored}

Holds(old, rows) == \E f \in [1..Len(old) -> StoredIn(rows)] :
    /\ \A a, b \in 1..Len(old) : a < b => f[a] < f[b]
    /\ \A k \in 1..Len(old) : old[k] = rows[f[k]]

Replays(rows, replay) == \E old \in Seq(Message) :
    WholeTurns(old) /\ Holds(old, rows) /\ replay = Window(old)

LEMMA HeldInOnePiece ==
    ASSUME NEW rows \in Seq(Message), NEW old \in Seq(Message), Holds(old, rows), ~Interleaved(rows)
    PROVE  ~Interleaved(old)
<1>1. PICK f \in [1..Len(old) -> StoredIn(rows)] :
        /\ \A a, b \in 1..Len(old) : a < b => f[a] < f[b]
        /\ \A k \in 1..Len(old) : old[k] = rows[f[k]]
  BY DEF Holds
<1>2. DOMAIN old = 1..Len(old) /\ Len(old) \in Nat /\ DOMAIN rows = 1..Len(rows) /\ Len(rows) \in Nat
  OBVIOUS
<1>3. \A a \in 1..Len(old) : f[a] \in DOMAIN rows /\ f[a] \in Nat /\ a \in Nat
  BY <1>2 DEF StoredIn
<1>4. \A a, b \in 1..Len(old) : a <= b => f[a] <= f[b]
  BY <1>1, <1>3
<1>5. ASSUME NEW i \in DOMAIN old, NEW k \in DOMAIN old, NEW j \in i..k, old[i].turn = old[k].turn
      PROVE  old[j].turn = old[i].turn
  <2>1. i \in 1..Len(old) /\ k \in 1..Len(old) /\ j \in 1..Len(old) /\ i <= j /\ j <= k
    BY <1>2
  <2>2. f[i] <= f[j] /\ f[j] <= f[k]
    BY <1>4, <2>1
  <2>3. f[j] \in f[i]..f[k] /\ f[i] \in DOMAIN rows /\ f[k] \in DOMAIN rows
    BY <1>3, <2>1, <2>2
  <2>4. rows[f[i]].turn = rows[f[k]].turn
    BY <1>1, <1>5, <2>1
  <2>5. rows[f[j]].turn = rows[f[i]].turn
    BY <2>3, <2>4 DEF Interleaved
  <2> QED  BY <1>1, <2>1, <2>5
<1> QED  BY <1>5 DEF Interleaved

\* The rows stored in one table are in another, in their order.
Keeps(g, rows, others) ==
    /\ g \in [StoredIn(rows) -> StoredIn(others)]
    /\ \A i, j \in StoredIn(rows) : i < j => g[i] < g[j]
    /\ \A i \in StoredIn(rows) : others[g[i]] = rows[i]

LEMMA ReplaysKept ==
    ASSUME NEW rows, NEW others, NEW g, Keeps(g, rows, others), NEW replay, Replays(rows, replay)
    PROVE  Replays(others, replay)
<1>1. PICK old \in Seq(Message) : WholeTurns(old) /\ Holds(old, rows) /\ replay = Window(old)
  BY DEF Replays
<1>2. PICK f \in [1..Len(old) -> StoredIn(rows)] :
        /\ \A a, b \in 1..Len(old) : a < b => f[a] < f[b]
        /\ \A k \in 1..Len(old) : old[k] = rows[f[k]]
  BY <1>1 DEF Holds
<1> DEFINE h == [k \in 1..Len(old) |-> g[f[k]]]
<1>3. h \in [1..Len(old) -> StoredIn(others)]
  BY DEF Keeps
<1>4. \A a, b \in 1..Len(old) : a < b => h[a] < h[b]
  BY <1>2 DEF Keeps
<1>5. \A k \in 1..Len(old) : old[k] = others[h[k]]
  BY <1>2 DEF Keeps
<1>6. Holds(old, others)
  <2> HIDE DEF h
  <2> QED  BY <1>3, <1>4, <1>5 DEF Holds
<1> QED  BY <1>1, <1>6 DEF Replays

LEMMA ReplaysConverse ==
    ASSUME NEW rows \in Seq(Message), ~Interleaved(rows), NEW replay, Replays(rows, replay)
    PROVE  IsConversation(FromAQuestion(replay)) /\ IsAnswered(FromAQuestion(replay))
<1>1. PICK old \in Seq(Message) : WholeTurns(old) /\ Holds(old, rows) /\ replay = Window(old)
  BY DEF Replays
<1> QED  BY <1>1, HeldInOnePiece, WindowConverses

(***************************************************************************)
(* A call of send_message and the rows of its turn.                        *)
(***************************************************************************)
\* The calls still to be made are of the envelope that came last.
Awaits(rows, mine, todo) ==
    /\ todo # {} => \E c \in mine : rows[c].kind = "calls" /\ todo \subseteq rows[c].ids
    /\ \A c \in mine : rows[c].kind = "calls" /\ rows[c].ids \cap todo # {} =>
           \A k \in mine : c < k => rows[k].kind = "result" /\ rows[k].ids \subseteq rows[c].ids
    /\ \A i \in mine : rows[i].kind = "result" => rows[i].ids \cap todo = {}

\* Calls of rounds before n.
Below(ids, n) == \A id \in ids : id[2] < n

RoundsBelow(rows, mine, n) == \A i \in mine : rows[i].kind \in {"calls", "result"} => Below(rows[i].ids, n)

\* The open transaction holds the answer as far as it has come; only the question
\* is stored.
OpenOK(rows, mine, c) ==
    /\ Answers(rows, mine, c.todo)
    /\ \E q \in mine : rows[q].kind = "question"
    /\ \A i \in mine : rows[i].stored <=> rows[i].kind = "question"
    /\ Awaits(rows, mine, c.todo)
    /\ c.at = "replied" => Closed(rows, mine)
    /\ c.at # "replied" => \A i \in mine : rows[i].kind # "reply"
    /\ c.at = "waiting" => RoundsBelow(rows, mine, c.round)
    /\ c.at = "called" => RoundsBelow(rows, mine, c.round + 1) /\ Below(c.todo, c.round + 1)

Early == {"unsent", "missing", "found", "asking"}
Answering == {"waiting", "called", "replied"}

AskedOnly(rows, mine) == \E q \in mine : mine = {q} /\ rows[q].kind = "question" /\ ~rows[q].stored

TurnOK(rows, mine, c) ==
    /\ c.at # "called" => c.todo = {}
    /\ c.at \in Early => mine = {}
    /\ c.at = "asked" => AskedOnly(rows, mine)
    /\ c.at \in Answering => OpenOK(rows, mine, c)
    /\ c.at = "ended" => Whole(rows, mine) /\ \A i \in mine : rows[i].stored

SameStored(f, rows, others, theirs) == \A k \in theirs : others[k].stored = rows[f[k]].stored

LEMMA AwaitsCarried ==
    ASSUME NEW rows, NEW mine, NEW others, NEW theirs, NEW f, Carries(f, rows, mine, others, theirs),
           NEW todo, Awaits(rows, mine, todo)
    PROVE  Awaits(others, theirs, todo)
<1>1. \A k \in theirs : f[k] \in mine /\ others[k].kind = rows[f[k]].kind /\ others[k].ids = rows[f[k]].ids
  BY DEF Carries
<1>2. ASSUME todo # {}
      PROVE  \E c \in theirs : others[c].kind = "calls" /\ todo \subseteq others[c].ids
  <2>1. PICK c \in mine : rows[c].kind = "calls" /\ todo \subseteq rows[c].ids
    BY <1>2 DEF Awaits
  <2>2. PICK k \in theirs : f[k] = c
    BY DEF Carries
  <2> QED  BY <1>1, <2>1, <2>2
<1>3. ASSUME NEW c \in theirs, others[c].kind = "calls", others[c].ids \cap todo # {},
             NEW k \in theirs, c < k
      PROVE  others[k].kind = "result" /\ others[k].ids \subseteq others[c].ids
  <2>1. f[c] < f[k]
    BY <1>3 DEF Carries
  <2>2. rows[f[k]].kind = "result" /\ rows[f[k]].ids \subseteq rows[f[c]].ids
    BY <1>1, <1>3, <2>1 DEF Awaits
  <2> QED  BY <1>1, <2>2
<1>4. ASSUME NEW i \in theirs, others[i].kind = "result"
      PROVE  others[i].ids \cap todo = {}
  BY <1>1, <1>4 DEF Awaits
<1> QED  BY <1>2, <1>3, <1>4 DEF Awaits

LEMMA RoundsCarried ==
    ASSUME NEW rows, NEW mine, NEW others, NEW theirs, NEW f, Carries(f, rows, mine, others, theirs),
           NEW n, RoundsBelow(rows, mine, n)
    PROVE  RoundsBelow(others, theirs, n)
<1>1. \A k \in theirs : f[k] \in mine /\ others[k].kind = rows[f[k]].kind /\ others[k].ids = rows[f[k]].ids
  BY DEF Carries
<1> QED  BY <1>1 DEF RoundsBelow

LEMMA OpenCarried ==
    ASSUME NEW rows, NEW mine, NEW others, NEW theirs, NEW f, Carries(f, rows, mine, others, theirs),
           SameStored(f, rows, others, theirs), NEW c, OpenOK(rows, mine, c)
    PROVE  OpenOK(others, theirs, c)
<1>1. \A k \in theirs : /\ f[k] \in mine /\ others[k].kind = rows[f[k]].kind
                        /\ others[k].stored = rows[f[k]].stored
  BY DEF Carries, SameStored
<1>2. Answers(others, theirs, c.todo) /\ Awaits(others, theirs, c.todo)
  BY AnswersCarried, AwaitsCarried DEF OpenOK
<1>3. \E q \in theirs : others[q].kind = "question"
  <2>1. PICK q \in mine : rows[q].kind = "question"
    BY DEF OpenOK
  <2>2. PICK k \in theirs : f[k] = q
    BY DEF Carries
  <2> QED  BY <1>1, <2>1, <2>2
<1>4. \A i \in theirs : others[i].stored <=> others[i].kind = "question"
  BY <1>1 DEF OpenOK
<1>5. c.at = "replied" => Closed(others, theirs)
  BY ClosedCarried DEF OpenOK
<1>6. c.at # "replied" => \A i \in theirs : others[i].kind # "reply"
  BY <1>1 DEF OpenOK
<1>7. /\ c.at = "waiting" => RoundsBelow(others, theirs, c.round)
      /\ c.at = "called" => RoundsBelow(others, theirs, c.round + 1) /\ Below(c.todo, c.round + 1)
  BY RoundsCarried DEF OpenOK
<1> QED  BY <1>2, <1>3, <1>4, <1>5, <1>6, <1>7 DEF OpenOK

LEMMA TurnCarried ==
    ASSUME NEW rows, NEW mine, NEW others, NEW theirs, NEW f, Carries(f, rows, mine, others, theirs),
           SameStored(f, rows, others, theirs), NEW c, TurnOK(rows, mine, c)
    PROVE  TurnOK(others, theirs, c)
<1>1. \A k \in theirs : /\ f[k] \in mine /\ others[k].kind = rows[f[k]].kind
                        /\ others[k].stored = rows[f[k]].stored
  BY DEF Carries, SameStored
<1>2. c.at \in Early => theirs = {}
  BY <1>1 DEF TurnOK
<1>3. ASSUME c.at = "asked"
      PROVE  AskedOnly(others, theirs)
  <2>1. PICK q \in mine : mine = {q} /\ rows[q].kind = "question" /\ ~rows[q].stored
    BY <1>3 DEF TurnOK, AskedOnly
  <2>2. PICK k \in theirs : f[k] = q
    BY DEF Carries
  <2>3. \A j \in theirs : j = k
    BY <1>1, <2>1, <2>2 DEF Carries
  <2>4. theirs = {k}
    BY <2>3
  <2> QED  BY <1>1, <2>1, <2>2, <2>4 DEF AskedOnly
<1>4. c.at \in Answering => OpenOK(others, theirs, c)
  BY OpenCarried DEF TurnOK
<1>5. c.at = "ended" => Whole(others, theirs)
  BY WholeCarried DEF TurnOK
<1>6. c.at = "ended" => \A i \in theirs : others[i].stored
  BY <1>1 DEF TurnOK
<1> QED  BY <1>2, <1>3, <1>4, <1>5, <1>6 DEF TurnOK

\* What a turn has stored is whole: nothing, its question, or all of it.
LEMMA StoredIsWhole ==
    ASSUME NEW rows, NEW mine \in SUBSET Nat, NEW c, TurnOK(rows, mine, c),
           c.at \in Early \cup {"asked", "ended"} \cup Answering
    PROVE  Whole(rows, {i \in mine : rows[i].stored})
<1> DEFINE kept == {i \in mine : rows[i].stored}
<1>1. CASE c.at = "ended"
  <2>1. kept = mine
    BY <1>1 DEF TurnOK
  <2> QED  BY <1>1, <2>1 DEF TurnOK
<1>2. CASE c.at # "ended"
  <2>1. \A i \in kept : rows[i].kind = "question" /\ i \in Nat
    BY <1>2 DEF TurnOK, AskedOnly, OpenOK
  <2>2. \A i, j \in kept : i <= j
    <3>1. CASE c.at \in Answering
      BY <2>1, <3>1 DEF TurnOK, OpenOK, Answers, Opens
    <3>2. CASE c.at \notin Answering
      BY <1>2, <3>2 DEF TurnOK, AskedOnly
    <3> QED  BY <3>1, <3>2
  <2> HIDE DEF kept
  <2>3. Opens(rows, kept)
    BY <2>1, <2>2 DEF Opens
  <2>4. AskedFor(rows, kept) /\ Once(rows, kept) /\ Given(rows, kept, {}) /\ Closed(rows, kept)
    BY <2>1 DEF AskedFor, Once, Given, Closed
  <2> QED  BY <2>3, <2>4 DEF Whole, Answers, kept
<1> QED  BY <1>1, <1>2

(***************************************************************************)
(* A row that comes last.                                                  *)
(***************************************************************************)
Comes(n, mine) == n \in Nat /\ mine \subseteq Nat /\ \A i \in mine : i < n

LEMMA LastComes ==
    ASSUME NEW n, NEW mine, Comes(n, mine)
    PROVE  n <= n /\ ~(n < n) /\ \A i \in mine : i < n /\ i <= n /\ ~(n < i)
BY DEF Comes

LEMMA OpensOn ==
    ASSUME NEW rows, NEW mine, NEW n, Comes(n, mine), Opens(rows, mine),
           \E q \in mine : rows[q].kind = "question", rows[n].kind # "question"
    PROVE  Opens(rows, mine \cup {n})
<1>1. PICK q \in mine : rows[q].kind = "question"
  OBVIOUS
<1> SUFFICES ASSUME NEW i \in mine \cup {n}
             PROVE  /\ rows[i].kind = "question" => \A j \in mine \cup {n} : i <= j
                    /\ rows[i].kind # "question" =>
                         \E p \in mine \cup {n} : p < i /\ rows[p].kind = "question"
  BY DEF Opens
<1>2. CASE i \in mine
  <2>1. i < n /\ i \in Nat /\ n \in Nat
    BY <1>2 DEF Comes
  <2> QED  BY <1>2, <2>1 DEF Opens
<1>3. CASE i = n
  BY <1>1, <1>3 DEF Comes
<1> QED  BY <1>2, <1>3

LEMMA AskedForOn ==
    ASSUME NEW rows, NEW mine, NEW n, Comes(n, mine), AskedFor(rows, mine),
           rows[n].kind = "result" =>
              \E c \in mine : /\ rows[c].kind = "calls" /\ rows[n].ids \subseteq rows[c].ids
                              /\ \A k \in mine : c < k => rows[k].kind = "result"
    PROVE  AskedFor(rows, mine \cup {n})
<1> SUFFICES ASSUME NEW i \in mine \cup {n}, rows[i].kind = "result"
             PROVE  \E c \in mine \cup {n} :
                       /\ c < i /\ rows[c].kind = "calls" /\ rows[i].ids \subseteq rows[c].ids
                       /\ \A k \in mine \cup {n} : c < k /\ k <= i => rows[k].kind = "result"
  BY DEF AskedFor
<1>1. CASE i \in mine
  <2>1. PICK c \in mine : /\ c < i /\ rows[c].kind = "calls" /\ rows[i].ids \subseteq rows[c].ids
                          /\ \A k \in mine : c < k /\ k <= i => rows[k].kind = "result"
    BY <1>1 DEF AskedFor
  <2>2. ~(n <= i)
    BY <1>1 DEF Comes
  <2> QED  BY <2>1, <2>2
<1>2. CASE i = n
  <2>1. PICK c \in mine : /\ rows[c].kind = "calls" /\ rows[n].ids \subseteq rows[c].ids
                          /\ \A k \in mine : c < k => rows[k].kind = "result"
    BY <1>2
  <2> QED  BY <1>2, <2>1 DEF Comes
<1> QED  BY <1>1, <1>2

LEMMA ResultStays ==
    ASSUME NEW rows, NEW mine, NEW n, Comes(n, mine), NEW c \in mine, NEW id, ResultAt(rows, mine, c, id)
    PROVE  ResultAt(rows, mine \cup {n}, c, id)
<1>1. PICK r \in mine :
        /\ c < r /\ rows[r].kind = "result" /\ rows[r].ids = {id}
        /\ \A k \in mine : c < k /\ k <= r => rows[k].kind = "result" /\ rows[k].ids \subseteq rows[c].ids
  BY DEF ResultAt
<1>2. ~(n <= r)
  BY DEF Comes
<1> QED  BY <1>1, <1>2 DEF ResultAt

LEMMA CallsComeLast ==
    ASSUME NEW rows, NEW mine, NEW n, Comes(n, mine), Answers(rows, mine, {}),
           \E q \in mine : rows[q].kind = "question",
           rows[n].kind = "calls", IsFiniteSet(rows[n].ids),
           \A i \in mine : rows[i].kind \in {"calls", "result"} => rows[i].ids \cap rows[n].ids = {}
    PROVE  /\ Answers(rows, mine \cup {n}, rows[n].ids) /\ Awaits(rows, mine \cup {n}, rows[n].ids)
<1>1. Opens(rows, mine \cup {n}) /\ AskedFor(rows, mine \cup {n})
  BY OpensOn, AskedForOn DEF Answers
<1>2. Once(rows, mine \cup {n})
  BY DEF Answers, Once
<1>3. Given(rows, mine \cup {n}, rows[n].ids)
  <2> SUFFICES ASSUME NEW c \in mine \cup {n}, rows[c].kind = "calls"
               PROVE  /\ IsFiniteSet(rows[c].ids)
                      /\ \A id \in rows[c].ids \ rows[n].ids : ResultAt(rows, mine \cup {n}, c, id)
    BY DEF Given
  <2>1. CASE c \in mine
    <3>1. IsFiniteSet(rows[c].ids) /\ \A id \in rows[c].ids : ResultAt(rows, mine, c, id)
      BY <2>1 DEF Answers, Given
    <3> QED  BY <2>1, <3>1, ResultStays
  <2>2. CASE c = n
    BY <2>2
  <2> QED  BY <2>1, <2>2
<1>4. Awaits(rows, mine \cup {n}, rows[n].ids)
  <2>1. \A k \in mine \cup {n} : ~(n < k)
    <3>1. ~(n < n) /\ \A k \in mine : ~(n < k)
      BY LastComes
    <3> QED  BY <3>1
  <2> QED  BY <2>1 DEF Awaits
<1> QED  BY <1>1, <1>2, <1>3, <1>4 DEF Answers

LEMMA ResultComesLast ==
    ASSUME NEW rows, NEW mine, NEW n, Comes(n, mine), NEW todo, NEW id \in todo,
           Answers(rows, mine, todo), Awaits(rows, mine, todo),
           \E q \in mine : rows[q].kind = "question",
           rows[n].kind = "result", rows[n].ids = {id}
    PROVE  /\ Answers(rows, mine \cup {n}, todo \ {id}) /\ Awaits(rows, mine \cup {n}, todo \ {id})
<1>1. PICK c0 \in mine : rows[c0].kind = "calls" /\ todo \subseteq rows[c0].ids
  BY DEF Awaits
<1>2. ASSUME NEW c \in mine, rows[c].kind = "calls", rows[c].ids \cap todo # {}
      PROVE  c = c0 /\ \A k \in mine : c < k => rows[k].kind = "result" /\ rows[k].ids \subseteq rows[c].ids
  <2>1. rows[c0].ids \cap todo # {}
    BY <1>1
  <2>2. /\ \A k \in mine : c < k => rows[k].kind = "result" /\ rows[k].ids \subseteq rows[c].ids
        /\ \A k \in mine : c0 < k => rows[k].kind = "result"
    BY <1>1, <1>2, <2>1 DEF Awaits
  <2>3. ~(c < c0) /\ ~(c0 < c)
    BY <1>1, <1>2, <2>2
  <2>4. c \in Nat /\ c0 \in Nat
    BY DEF Comes
  <2>5. c = c0
    BY <2>3, <2>4
  <2> QED  BY <2>2, <2>5
<1>3. Opens(rows, mine \cup {n})
  BY OpensOn DEF Answers
<1>4. AskedFor(rows, mine \cup {n})
  <2>1. rows[n].ids \subseteq rows[c0].ids /\ rows[c0].ids \cap todo # {}
    BY <1>1
  <2>2. \A k \in mine : c0 < k => rows[k].kind = "result"
    BY <1>1, <1>2, <2>1
  <2> QED  BY <1>1, <2>1, <2>2, AskedForOn DEF Answers
<1>5. Once(rows, mine \cup {n})
  <2>1. \A i \in mine : rows[i].kind = "result" => rows[i].ids # {id}
    BY DEF Awaits
  <2>2. \E x \in rows[n].ids : rows[n].ids = {x}
    OBVIOUS
  <2>3. Once(rows, mine)
    BY DEF Answers
  <2>4. \A i \in mine \cup {n} : rows[i].kind = "result" => \E x \in rows[i].ids : rows[i].ids = {x}
    BY <2>2, <2>3 DEF Once
  <2>5. ASSUME NEW i \in mine \cup {n}, NEW j \in mine \cup {n},
               rows[i].kind = "result", rows[j].kind = "result", rows[i].ids = rows[j].ids
        PROVE  i = j
    BY <2>1, <2>3, <2>5 DEF Once
  <2> QED  BY <2>4, <2>5 DEF Once
<1>6. Given(rows, mine \cup {n}, todo \ {id})
  <2> SUFFICES ASSUME NEW c \in mine, rows[c].kind = "calls"
               PROVE  /\ IsFiniteSet(rows[c].ids)
                      /\ \A x \in rows[c].ids \ (todo \ {id}) : ResultAt(rows, mine \cup {n}, c, x)
    BY DEF Given
  <2>1. IsFiniteSet(rows[c].ids) /\ \A x \in rows[c].ids \ todo : ResultAt(rows, mine, c, x)
    BY DEF Answers, Given
  <2>2. ASSUME NEW x \in rows[c].ids \ todo
        PROVE  ResultAt(rows, mine \cup {n}, c, x)
    BY <2>1, <2>2, ResultStays
  <2>3. ASSUME id \in rows[c].ids
        PROVE  ResultAt(rows, mine \cup {n}, c, id)
    <3>1. \A k \in mine : c < k => rows[k].kind = "result" /\ rows[k].ids \subseteq rows[c].ids
      BY <1>2, <2>3
    <3>2. c < n
      BY DEF Comes
    <3> QED  BY <2>3, <3>1, <3>2 DEF ResultAt
  <2> QED  BY <2>1, <2>2, <2>3
<1>7. Awaits(rows, mine \cup {n}, todo \ {id})
  <2>1. \E c \in mine \cup {n} : rows[c].kind = "calls" /\ todo \ {id} \subseteq rows[c].ids
    BY <1>1
  <2>2. ASSUME NEW c \in mine \cup {n}, rows[c].kind = "calls", rows[c].ids \cap (todo \ {id}) # {},
               NEW k \in mine \cup {n}, c < k
        PROVE  rows[k].kind = "result" /\ rows[k].ids \subseteq rows[c].ids
    <3>1. c \in mine /\ rows[c].ids \cap todo # {}
      BY <2>2
    <3>2. c = c0
      BY <1>2, <2>2, <3>1
    <3>3. CASE k \in mine
      BY <1>2, <2>2, <3>1, <3>3
    <3>4. CASE k = n
      BY <1>1, <3>2, <3>4
    <3> QED  BY <3>3, <3>4
  <2>3. ASSUME NEW i \in mine \cup {n}, rows[i].kind = "result"
        PROVE  rows[i].ids \cap (todo \ {id}) = {}
    BY <2>3 DEF Awaits
  <2> QED  BY <2>1, <2>2, <2>3 DEF Awaits
<1> QED  BY <1>3, <1>4, <1>5, <1>6, <1>7 DEF Answers

LEMMA ReplyComesLast ==
    ASSUME NEW rows, NEW mine, NEW n, Comes(n, mine), Answers(rows, mine, {}),
           \E q \in mine : rows[q].kind = "question",
           \A i \in mine : rows[i].kind # "reply", rows[n].kind = "reply"
    PROVE  Answers(rows, mine \cup {n}, {}) /\ Closed(rows, mine \cup {n})
<1>1. Opens(rows, mine \cup {n}) /\ AskedFor(rows, mine \cup {n})
  BY OpensOn, AskedForOn DEF Answers
<1>2. Once(rows, mine \cup {n})
  BY DEF Answers, Once
<1>3. Given(rows, mine \cup {n}, {})
  <2> SUFFICES ASSUME NEW c \in mine, rows[c].kind = "calls"
               PROVE  /\ IsFiniteSet(rows[c].ids)
                      /\ \A id \in rows[c].ids : ResultAt(rows, mine \cup {n}, c, id)
    BY DEF Given
  <2>1. IsFiniteSet(rows[c].ids) /\ \A id \in rows[c].ids : ResultAt(rows, mine, c, id)
    BY DEF Answers, Given
  <2> QED  BY <2>1, ResultStays
<1>4. Closed(rows, mine \cup {n})
  <2>1. n <= n /\ \A j \in mine : j <= n /\ j < n
    BY LastComes
  <2>2. ASSUME NEW i \in mine \cup {n}, rows[i].kind = "reply"
        PROVE  i = n
    BY <2>2
  <2>3. ASSUME NEW i \in mine \cup {n}, rows[i].kind \in {"calls", "result"}
        PROVE  i \in mine
    BY <2>3
  <2> QED  BY <2>1, <2>2, <2>3 DEF Closed
<1> QED  BY <1>1, <1>2, <1>3, <1>4 DEF Answers

(***************************************************************************)
(* What a statement does to the table.                                     *)
(***************************************************************************)
OfTurnStored(rows, t) == {i \in OfTurn(rows, t) : rows[i].stored}

\* The rows of a turn are where they were, in their order.
Untouched(rows, others, u) == \E f :
    Carries(f, rows, OfTurn(rows, u), others, OfTurn(others, u)) /\ SameStored(f, rows, others, OfTurn(others, u))

LEMMA PlacesAre ==
    ASSUME NEW rows \in Seq(Message)
    PROVE  /\ DOMAIN rows = 1..Len(rows) /\ Len(rows) \in Nat
           /\ \A i \in DOMAIN rows : i \in Nat /\ rows[i] \in Message
           /\ \A t : OfTurn(rows, t) \in SUBSET Nat /\ OfTurn(rows, t) \in SUBSET DOMAIN rows
BY DEF OfTurn

LEMMA CarriedInPlace ==
    ASSUME NEW rows, NEW others, NEW mine \in SUBSET Nat,
           \A i \in mine : others[i].kind = rows[i].kind /\ others[i].ids = rows[i].ids
    PROVE  Carries([i \in mine |-> i], rows, mine, others, mine)
<1> DEFINE f == [i \in mine |-> i]
<1>1. f \in [mine -> mine] /\ \A i \in mine : f[i] = i
  OBVIOUS
<1>2. /\ \A i \in mine : \E k \in mine : f[k] = i
      /\ \A a, b \in mine : a < b => f[a] < f[b]
      /\ \A k \in mine : others[k].kind = rows[f[k]].kind /\ others[k].ids = rows[f[k]].ids
  BY <1>1
<1> HIDE DEF f
<1>3. Carries(f, rows, mine, others, mine)
  BY <1>1, <1>2, InOrderCarries
<1> QED  BY <1>3 DEF f

LEMMA UntouchedInPlace ==
    ASSUME NEW rows \in Seq(Message), NEW others, NEW u, OfTurn(others, u) = OfTurn(rows, u),
           \A i \in OfTurn(rows, u) : others[i] = rows[i]
    PROVE  Untouched(rows, others, u)
<1> DEFINE mine == OfTurn(rows, u)
           f == [i \in mine |-> i]
<1>1. mine \in SUBSET Nat
  BY PlacesAre
<1>2. Carries(f, rows, mine, others, mine)
  BY <1>1, CarriedInPlace
<1>3. SameStored(f, rows, others, mine)
  BY DEF SameStored
<1> HIDE DEF f
<1> QED  BY <1>2, <1>3 DEF Untouched

LEMMA KeptInPlace ==
    ASSUME NEW rows \in Seq(Message), NEW others,
           \A i \in DOMAIN rows : i \in DOMAIN others /\ (rows[i].stored => others[i] = rows[i])
    PROVE  \E g : Keeps(g, rows, others)
<1> DEFINE g == [i \in StoredIn(rows) |-> i]
<1>1. \A i \in StoredIn(rows) : i \in StoredIn(others) /\ others[i] = rows[i]
  BY DEF StoredIn
<1>2. Keeps(g, rows, others)
  BY <1>1 DEF Keeps
<1> QED  BY <1>2

\* An inserted row comes last of its turn's and moves nothing.
LEMMA AppendKeeps ==
    ASSUME NEW rows \in Seq(Message), NEW row \in Message
    PROVE  LET others == Append(rows, row)
               n == Len(rows) + 1
               mine == OfTurn(rows, row.turn)
           IN /\ others \in Seq(Message) /\ others[n] = row /\ Comes(n, mine)
              /\ OfTurn(others, row.turn) = mine \cup {n}
              /\ \A i \in mine : others[i] = rows[i]
              /\ \A u \in Turn \ {row.turn} : Untouched(rows, others, u)
              /\ \E g : Keeps(g, rows, others)
<1> DEFINE others == Append(rows, row)
           n == Len(rows) + 1
           mine == OfTurn(rows, row.turn)
<1>1. /\ DOMAIN rows = 1..Len(rows) /\ Len(rows) \in Nat
      /\ \A t : OfTurn(rows, t) \in SUBSET Nat /\ OfTurn(rows, t) \in SUBSET DOMAIN rows
  BY PlacesAre
<1>2. /\ others \in Seq(Message) /\ others[n] = row /\ DOMAIN others = 1..n
      /\ \A i \in 1..Len(rows) : others[i] = rows[i]
  OBVIOUS
<1> HIDE DEF others
<1>3. n \in Nat /\ 1..n = (1..Len(rows)) \cup {n} /\ \A i \in 1..Len(rows) : i < n
  BY <1>1
<1>4. Comes(n, mine)
  BY <1>1, <1>3 DEF Comes
<1>5. OfTurn(others, row.turn) = mine \cup {n}
  BY <1>1, <1>2, <1>3 DEF OfTurn
<1>6. \A i \in mine : others[i] = rows[i]
  BY <1>1, <1>2
<1>7. ASSUME NEW u \in Turn \ {row.turn}
      PROVE  Untouched(rows, others, u)
  <2>1. OfTurn(others, u) = OfTurn(rows, u)
    BY <1>1, <1>2, <1>3 DEF OfTurn
  <2>2. \A i \in OfTurn(rows, u) : others[i] = rows[i]
    BY <1>1, <1>2
  <2> QED  BY <2>1, <2>2, UntouchedInPlace
<1>8. \E g : Keeps(g, rows, others)
  <2>1. \A i \in DOMAIN rows : i \in DOMAIN others /\ others[i] = rows[i]
    BY <1>1, <1>2, <1>3
  <2> QED  BY <2>1, KeptInPlace
<1> QED  BY <1>2, <1>4, <1>5, <1>6, <1>7, <1>8 DEF others

StoredTo(rows, t, others) ==
    others = [i \in DOMAIN rows |-> IF rows[i].turn = t THEN [rows[i] EXCEPT !.stored = TRUE] ELSE rows[i]]

\* A commit stores the rows of its turn.
LEMMA StoreKeeps ==
    ASSUME NEW rows \in Seq(Message), NEW t \in Turn, NEW others, StoredTo(rows, t, others)
    PROVE  /\ others \in Seq(Message)
           /\ OfTurn(others, t) = OfTurn(rows, t)
           /\ Carries([i \in OfTurn(rows, t) |-> i], rows, OfTurn(rows, t), others, OfTurn(rows, t))
           /\ \A i \in OfTurn(rows, t) : others[i].stored /\ others[i].kind = rows[i].kind
           /\ \A u \in Turn \ {t} : Untouched(rows, others, u)
           /\ \E g : Keeps(g, rows, others)
<1>1. /\ DOMAIN rows = 1..Len(rows) /\ Len(rows) \in Nat
      /\ \A i \in DOMAIN rows : i \in Nat /\ rows[i] \in Message
      /\ \A u : OfTurn(rows, u) \in SUBSET Nat /\ OfTurn(rows, u) \in SUBSET DOMAIN rows
  BY PlacesAre
<1>2. DOMAIN others = DOMAIN rows
  BY DEF StoredTo
<1>3. \A i \in DOMAIN rows :
        /\ others[i] \in Message /\ others[i].turn = rows[i].turn
        /\ others[i].kind = rows[i].kind /\ others[i].ids = rows[i].ids
        /\ rows[i].turn # t => others[i] = rows[i]
        /\ rows[i].turn = t => others[i].stored
  BY <1>1 DEF Message, StoredTo
<1>4. ASSUME NEW i \in DOMAIN rows, rows[i].stored
      PROVE  others[i] = rows[i]
  <2>1. CASE rows[i].turn = t
    <3>1. rows[i] \in Message
      BY <1>1
    <3>2. rows[i].stored = TRUE
      BY <1>4, <3>1 DEF Message
    <3>3. [rows[i] EXCEPT !.stored = TRUE] = rows[i]
      BY <3>1, <3>2 DEF Message
    <3> QED  BY <2>1, <3>3 DEF StoredTo
  <2> QED  BY <1>3, <2>1
<1>5. others \in Seq(Message)
  <2>1. others \in [1..Len(rows) -> Message]
    BY <1>1, <1>3 DEF StoredTo
  <2> HIDE DEF Message
  <2> QED  BY <1>1, <2>1, SeqDef
<1>6. \A u : OfTurn(others, u) = OfTurn(rows, u)
  BY <1>2, <1>3 DEF OfTurn
<1>7. Carries([i \in OfTurn(rows, t) |-> i], rows, OfTurn(rows, t), others, OfTurn(rows, t))
  BY <1>1, <1>3, CarriedInPlace
<1>8. \A i \in OfTurn(rows, t) : others[i].stored /\ others[i].kind = rows[i].kind
  BY <1>1, <1>3 DEF OfTurn
<1>9. ASSUME NEW u \in Turn \ {t}
      PROVE  Untouched(rows, others, u)
  <2>1. \A i \in OfTurn(rows, u) : others[i] = rows[i]
    BY <1>3 DEF OfTurn
  <2> QED  BY <1>6, <2>1, UntouchedInPlace
<1>10. \E g : Keeps(g, rows, others)
  BY <1>2, <1>4, KeptInPlace
<1> QED  BY <1>5, <1>6, <1>7, <1>8, <1>9, <1>10

\* Rows that are picked in order are carried, turn by turn.
LEMMA PickCarries ==
    ASSUME NEW rows \in Seq(Message), NEW places \in SUBSET DOMAIN rows, NEW others,
           NEW n \in Nat, NEW f, Counts(f, n, places), others = [k \in 1..n |-> rows[f[k]]],
           NEW u
    PROVE  LET theirs == OfTurn(others, u)
               of == [k \in theirs |-> f[k]]
           IN /\ Carries(of, rows, OfTurn(rows, u) \cap places, others, theirs)
              /\ SameStored(of, rows, others, theirs)
<1> DEFINE theirs == OfTurn(others, u)
           mine == OfTurn(rows, u) \cap places
           of == [k \in theirs |-> f[k]]
<1>1. /\ f \in [1..n -> places] /\ DOMAIN others = 1..n
      /\ \A k \in 1..n : f[k] \in places /\ others[k] = rows[f[k]]
      /\ \A a, b \in 1..n : a < b => f[a] < f[b]
      /\ \A i \in places : \E k \in 1..n : f[k] = i
  BY DEF Counts
<1>2. mine \in SUBSET Nat /\ theirs \in SUBSET Nat /\ theirs \in SUBSET (1..n)
  BY <1>1, PlacesAre DEF OfTurn
<1>3. of \in [theirs -> mine]
  BY <1>1, <1>2 DEF OfTurn
<1>4. \A i \in mine : \E k \in theirs : of[k] = i
  <2> SUFFICES ASSUME NEW i \in mine
               PROVE  \E k \in theirs : of[k] = i
    OBVIOUS
  <2>1. PICK k \in 1..n : f[k] = i
    BY <1>1
  <2>2. k \in theirs
    BY <1>1, <2>1 DEF OfTurn
  <2> QED  BY <2>1, <2>2
<1>5. \A a, b \in theirs : a < b => of[a] < of[b]
  BY <1>1, <1>2
<1>6. \A k \in theirs : others[k] = rows[of[k]]
  BY <1>1, <1>2
<1> HIDE DEF of, theirs, mine
<1>7. Carries(of, rows, mine, others, theirs)
  BY <1>2, <1>3, <1>4, <1>5, <1>6, InOrderCarries
<1>8. SameStored(of, rows, others, theirs)
  BY <1>6 DEF SameStored
<1> QED  BY <1>7, <1>8 DEF of, theirs, mine

\* A table is what was picked of another, by f in order.
Picked(others, rows, f, n, places) == Counts(f, n, places) /\ others = [k \in 1..n |-> rows[f[k]]]

LEMMA PickIsATable ==
    ASSUME NEW rows \in Seq(Message), NEW places \in SUBSET DOMAIN rows
    PROVE  /\ Pick(rows, places) \in Seq(Message)
           /\ \E n \in Nat : \E f : Picked(Pick(rows, places), rows, f, n, places)
<1>1. DOMAIN rows = 1..Len(rows) /\ Len(rows) \in Nat /\ \A i \in DOMAIN rows : i \in Nat /\ rows[i] \in Message
  BY PlacesAre
<1>2. places \in SUBSET Nat
  BY <1>1
<1>3. IsFiniteSet(places)
  <2>1. IsFiniteSet(1..Len(rows))
    BY <1>1, FS_Interval
  <2> QED  BY <1>1, <2>1, FS_Subset
<1>9. PickedInOrder(rows, places)
  BY ONLY <1>2, <1>3, PickCounts
<1>0. PICK n \in Nat : \E f \in [1..n -> places] :
        Counts(f, n, places) /\ Pick(rows, places) = [k \in 1..n |-> rows[f[k]]]
  BY ONLY <1>9 DEF PickedInOrder
<1>4. PICK f \in [1..n -> places] :
        Counts(f, n, places) /\ Pick(rows, places) = [k \in 1..n |-> rows[f[k]]]
  BY <1>0
<1>5. [k \in 1..n |-> rows[f[k]]] \in [1..n -> Message]
  BY <1>1
<1>6. Pick(rows, places) \in Seq(Message)
  <2> HIDE DEF Message
  <2> QED  BY <1>4, <1>5, SeqDef
<1>7. Picked(Pick(rows, places), rows, f, n, places)
  BY <1>4 DEF Picked
<1> QED  BY <1>6, <1>7

RolledTo(rows, t, others) ==
    others = Pick(rows, {i \in DOMAIN rows : rows[i].turn # t \/ rows[i].stored})

\* A rollback leaves the other turns' rows, and of its own what was stored.
LEMMA RollbackKeeps ==
    ASSUME NEW rows \in Seq(Message), NEW t \in Turn, NEW others, RolledTo(rows, t, others)
    PROVE  /\ others \in Seq(Message)
           /\ \E f : Carries(f, rows, OfTurnStored(rows, t), others, OfTurn(others, t))
           /\ \A i \in OfTurn(others, t) : others[i].stored
           /\ \A u \in Turn \ {t} : Untouched(rows, others, u)
           /\ \E g : Keeps(g, rows, others)
<1> DEFINE places == {i \in DOMAIN rows : rows[i].turn # t \/ rows[i].stored}
<1>1. others \in Seq(Message)
  BY PickIsATable DEF RolledTo
<1>0. PICK n \in Nat : \E f : Picked(others, rows, f, n, places)
  <2>1. places \in SUBSET DOMAIN rows /\ others = Pick(rows, places)
    BY DEF RolledTo
  <2> HIDE DEF places
  <2> QED  BY <2>1, PickIsATable
<1>2. PICK f : Counts(f, n, places) /\ others = [k \in 1..n |-> rows[f[k]]]
  BY <1>0 DEF Picked
<1>3. OfTurn(rows, t) \cap places = OfTurnStored(rows, t)
  BY DEF OfTurn, OfTurnStored
<1>4. \A u \in Turn \ {t} : OfTurn(rows, u) \cap places = OfTurn(rows, u)
  BY DEF OfTurn
<1>5. \A u : LET of == [k \in OfTurn(others, u) |-> f[k]]
             IN /\ Carries(of, rows, OfTurn(rows, u) \cap places, others, OfTurn(others, u))
                /\ SameStored(of, rows, others, OfTurn(others, u))
  <2> HIDE DEF places
  <2>1. places \in SUBSET DOMAIN rows
    BY DEF places
  <2> QED  BY <1>2, <2>1, PickCarries
<1>6. \E of : /\ Carries(of, rows, OfTurnStored(rows, t), others, OfTurn(others, t))
              /\ SameStored(of, rows, others, OfTurn(others, t))
  BY <1>3, <1>5
<1>7. \A i \in OfTurn(others, t) : others[i].stored
  <2>1. PICK of : /\ Carries(of, rows, OfTurnStored(rows, t), others, OfTurn(others, t))
                  /\ SameStored(of, rows, others, OfTurn(others, t))
    BY <1>6
  <2>2. \A i \in OfTurn(others, t) : of[i] \in OfTurnStored(rows, t) /\ others[i].stored = rows[of[i]].stored
    BY <2>1 DEF Carries, SameStored
  <2> QED  BY <2>2 DEF OfTurnStored
<1>8. ASSUME NEW u \in Turn \ {t}
      PROVE  Untouched(rows, others, u)
  <2>1. OfTurn(rows, u) \cap places = OfTurn(rows, u)
    BY <1>4
  <2> HIDE DEF places
  <2> QED  BY <1>5, <2>1 DEF Untouched
<1>9. \E g : Keeps(g, rows, others)
  <2> DEFINE g == [i \in StoredIn(rows) |-> CHOOSE k \in 1..n : f[k] = i]
  <2>1. /\ \A k \in 1..n : f[k] \in places /\ f[k] \in Nat /\ k \in Nat
        /\ \A a, b \in 1..n : a < b => f[a] < f[b]
        /\ \A i \in places : \E k \in 1..n : f[k] = i
    BY <1>2, PlacesAre DEF Counts
  <2>2. \A i \in StoredIn(rows) : g[i] \in 1..n /\ f[g[i]] = i
    <3>1. \A i \in StoredIn(rows) : i \in places
      BY DEF StoredIn
    <3> HIDE DEF places
    <3> QED  BY <2>1, <3>1
  <2>3. \A i \in StoredIn(rows) : g[i] \in StoredIn(others) /\ others[g[i]] = rows[i]
    <3> HIDE DEF g
    <3> QED  BY <1>2, <2>2 DEF StoredIn
  <2>4. ASSUME NEW i \in StoredIn(rows), NEW j \in StoredIn(rows), i < j
        PROVE  g[i] < g[j]
    <3> HIDE DEF g, places
    <3>1. /\ g[i] \in 1..n /\ f[g[i]] = i /\ g[j] \in 1..n /\ f[g[j]] = j
          /\ i \in Nat /\ j \in Nat /\ g[i] \in Nat /\ g[j] \in Nat
      BY <2>1, <2>2
    <3>2. CASE g[j] < g[i]
      <4>1. j < i
        BY <2>1, <3>1, <3>2
      <4> QED  BY <2>4, <3>1, <4>1
    <3>3. CASE g[j] = g[i]
      BY <2>4, <3>1, <3>3
    <3> QED  BY <3>1, <3>2, <3>3
  <2>5. g \in [StoredIn(rows) -> StoredIn(others)]
    BY <2>3
  <2> HIDE DEF g
  <2>6. Keeps(g, rows, others)
    BY <2>3, <2>4, <2>5 DEF Keeps
  <2> QED  BY <2>6
<1> QED  BY <1>1, <1>6, <1>7, <1>8, <1>9

\* What a reader is shown: the stored rows, whole turns, in the table's order.
LEMMA StoredIsRead ==
    ASSUME NEW rows \in Seq(Message), NEW old, old = Pick(rows, {i \in DOMAIN rows : rows[i].stored}),
           \A u \in Turn : Whole(rows, OfTurnStored(rows, u))
    PROVE  old \in Seq(Message) /\ WholeTurns(old) /\ Holds(old, rows)
<1> DEFINE places == {i \in DOMAIN rows : rows[i].stored}
<1>1. old \in Seq(Message)
  BY PickIsATable
<1>0. PICK n \in Nat : \E f : Picked(old, rows, f, n, places)
  <2>1. places \in SUBSET DOMAIN rows /\ old = Pick(rows, places)
    OBVIOUS
  <2> HIDE DEF places
  <2> QED  BY <2>1, PickIsATable
<1>2. PICK f : Counts(f, n, places) /\ old = [k \in 1..n |-> rows[f[k]]]
  BY <1>0 DEF Picked
<1>3. ASSUME NEW u \in Turn
      PROVE  Whole(old, OfTurn(old, u))
  <2>1. OfTurn(rows, u) \cap places = OfTurnStored(rows, u)
    BY DEF OfTurn, OfTurnStored
  <2>2. places \in SUBSET DOMAIN rows
    OBVIOUS
  <2> HIDE DEF places
  <2>3. Carries([k \in OfTurn(old, u) |-> f[k]], rows, OfTurnStored(rows, u), old, OfTurn(old, u))
    BY <1>2, <2>1, <2>2, PickCarries
  <2> QED  BY <1>3, <2>3, WholeCarried
<1>4. Holds(old, rows)
  <2>1. places = StoredIn(rows)
    BY DEF StoredIn
  <2> HIDE DEF places
  <2>2. Len(old) = n
    BY <1>1, <1>2, PlacesAre
  <2>3. /\ f \in [1..Len(old) -> StoredIn(rows)]
        /\ \A a, b \in 1..Len(old) : a < b => f[a] < f[b]
        /\ \A k \in 1..Len(old) : old[k] = rows[f[k]]
    BY <1>2, <2>1, <2>2 DEF Counts
  <2> QED  BY <2>3 DEF Holds
<1> QED  BY <1>1, <1>3, <1>4 DEF WholeTurns

(***************************************************************************)
(* The invariant, and what a step of one turn has to show.                 *)
(***************************************************************************)
Places == Early \cup {"asked", "ended"} \cup Answering
CallT == [at : Places, replay : Seq(Message), round : 0..MaxRounds, todo : SUBSET Ids]

DialogueInv ==
    /\ log \in Seq(Message)
    /\ turn \in [Turn -> CallT]
    /\ \A t \in Turn : TurnOK(log, OfTurn(log, t), turn[t]) /\ Replays(log, turn[t].replay)

LEMMA TurnMoves ==
    ASSUME DialogueInv, NEW t \in Turn, log' \in Seq(Message), turn' \in [Turn -> CallT],
           \A u \in Turn \ {t} : turn'[u] = turn[u] /\ Untouched(log, log', u),
           \E g : Keeps(g, log, log'),
           TurnOK(log', OfTurn(log', t), turn'[t]),
           turn'[t].replay = turn[t].replay \/ Replays(log', turn'[t].replay)
    PROVE  DialogueInv'
<1>1. PICK g : Keeps(g, log, log')
  OBVIOUS
<1>2. \A u \in Turn : Replays(log', turn[u].replay)
  BY <1>1, ReplaysKept DEF DialogueInv
<1>3. ASSUME NEW u \in Turn \ {t}
      PROVE  TurnOK(log', OfTurn(log', u), turn'[u])
  <2>1. PICK f : /\ Carries(f, log, OfTurn(log, u), log', OfTurn(log', u))
                 /\ SameStored(f, log, log', OfTurn(log', u))
    BY DEF Untouched
  <2>2. TurnOK(log, OfTurn(log, u), turn[u])
    BY DEF DialogueInv
  <2>3. TurnOK(log', OfTurn(log', u), turn[u])
    BY <2>1, <2>2, TurnCarried
  <2> QED  BY <2>3
<1>4. \A u \in Turn : TurnOK(log', OfTurn(log', u), turn'[u]) /\ Replays(log', turn'[u].replay)
  BY <1>2, <1>3
<1> QED  BY <1>4 DEF DialogueInv

LEMMA NothingMoves ==
    ASSUME NEW rows \in Seq(Message)
    PROVE  (\A u : Untouched(rows, rows, u)) /\ \E g : Keeps(g, rows, rows)
<1>1. \A u : Untouched(rows, rows, u)
  BY UntouchedInPlace
<1>2. \E g : Keeps(g, rows, rows)
  BY KeptInPlace
<1> QED  BY <1>1, <1>2

LEMMA NothingIsWhole ==
    ASSUME NEW rows
    PROVE  Whole(rows, {})
BY DEF Whole, Answers, Opens, AskedFor, Once, Given, Closed

LEMMA NothingReplays ==
    ASSUME NEW rows
    PROVE  Replays(rows, <<>>)
<1>1. <<>> \in Seq(Message) /\ Len(<<>>) = 0
  BY EmptySeq
<1>2. WholeTurns(<<>>)
  <2>1. \A t : OfTurn(<<>>, t) = {}
    BY DEF OfTurn
  <2> QED  BY <2>1, NothingIsWhole DEF WholeTurns
<1>3. Holds(<<>>, rows)
  <2> DEFINE f == [k \in 1..0 |-> 0]
  <2>1. f \in [1..Len(<<>>) -> StoredIn(rows)]
    BY <1>1
  <2>2. /\ \A a, b \in 1..Len(<<>>) : a < b => f[a] < f[b]
        /\ \A k \in 1..Len(<<>>) : <<>>[k] = rows[f[k]]
    BY <1>1
  <2> HIDE DEF f
  <2> QED  BY <2>1, <2>2 DEF Holds
<1>4. Window(<<>>) = <<>>
  <2>1. MaxReplay \in Nat
    BY DialogueAssumption
  <2>2. Window(<<>>) = SubSeq(<<>>, 1, 0)
    BY <1>1, <2>1 DEF Window
  <2> QED  BY <2>2, SubSeqEmpty
<1> QED  BY <1>1, <1>2, <1>3, <1>4 DEF Replays

\* Only the turn's call moves, and only to its next place.
LEMMA GoesOn ==
    ASSUME DialogueInv, NEW t \in Turn, NEW place \in Places, Goes(t, place)
    PROVE  /\ turn' \in [Turn -> CallT] /\ \A u \in Turn \ {t} : turn'[u] = turn[u]
           /\ turn'[t].at = place /\ turn'[t].replay = turn[t].replay
           /\ turn'[t].round = turn[t].round /\ turn'[t].todo = turn[t].todo
<1>1. turn \in [Turn -> CallT] /\ turn[t] \in CallT
  BY DEF DialogueInv
<1>2. turn' = [turn EXCEPT ![t] = [turn[t] EXCEPT !.at = place]]
  BY <1>1 DEF Goes
<1>3. [turn[t] EXCEPT !.at = place] \in CallT
  BY <1>1 DEF CallT
<1>4. turn'[t] = [turn[t] EXCEPT !.at = place]
  BY <1>1, <1>2
<1>5. turn' \in [Turn -> CallT]
  <2> HIDE DEF CallT
  <2> QED  BY <1>1, <1>2, <1>3
<1>6. \A u \in Turn \ {t} : turn'[u] = turn[u]
  BY <1>1, <1>2
<1>7. /\ turn'[t].at = place /\ turn'[t].replay = turn[t].replay
      /\ turn'[t].round = turn[t].round /\ turn'[t].todo = turn[t].todo
  BY <1>1, <1>4 DEF CallT
<1> QED  BY <1>5, <1>6, <1>7

LEMMA EndsThere ==
    ASSUME DialogueInv, NEW t \in Turn, Ends(t)
    PROVE  /\ turn' \in [Turn -> CallT] /\ \A u \in Turn \ {t} : turn'[u] = turn[u]
           /\ turn'[t] = Call("ended") /\ turn'[t].replay = <<>> /\ turn'[t].todo = {}
           /\ turn'[t].at = "ended"
<1>1. turn \in [Turn -> CallT]
  BY DEF DialogueInv
<1>2. Call("ended") \in CallT
  BY DialogueAssumption, EmptySeq DEF Call, CallT, Places
<1>3. turn'[t] = Call("ended")
  BY <1>1 DEF Ends
<1>4. turn' \in [Turn -> CallT] /\ \A u \in Turn \ {t} : turn'[u] = turn[u]
  <2> HIDE DEF CallT
  <2> QED  BY <1>1, <1>2 DEF Ends
<1> QED  BY <1>3, <1>4 DEF Call

LEMMA TurnIs ==
    ASSUME DialogueInv, NEW t \in Turn
    PROVE  /\ log \in Seq(Message) /\ turn[t] \in CallT /\ TurnOK(log, OfTurn(log, t), turn[t])
           /\ turn[t].at \in Places /\ turn[t].round \in 0..MaxRounds /\ turn[t].todo \in SUBSET Ids
           /\ OfTurn(log, t) \in SUBSET Nat
<1>1. turn[t] \in CallT /\ log \in Seq(Message)
  BY DEF DialogueInv
<1>2. turn[t].at \in Places /\ turn[t].round \in 0..MaxRounds /\ turn[t].todo \in SUBSET Ids
  BY <1>1 DEF CallT
<1> QED  BY <1>1, <1>2, PlacesAre DEF DialogueInv

(***************************************************************************)
(* Each action keeps the invariant.                                        *)
(***************************************************************************)
LEMMA SendKeeps ==
    ASSUME DialogueInv, NEW t \in Turn, Send(t)
    PROVE  DialogueInv'
<1>1. log' = log /\ turn[t].at = "unsent"
  BY DEF Send
<1>2. Goes(t, "found") \/ Goes(t, "missing")
  BY DEF Send
<1>3. /\ turn' \in [Turn -> CallT] /\ \A u \in Turn \ {t} : turn'[u] = turn[u]
      /\ turn'[t].at \in {"found", "missing"} /\ turn'[t].replay = turn[t].replay /\ turn'[t].todo = turn[t].todo
  BY <1>2, GoesOn DEF Places, Early
<1>4. TurnOK(log', OfTurn(log', t), turn'[t])
  BY <1>1, <1>3, TurnIs DEF TurnOK, Early, Answering
<1> QED  BY <1>1, <1>3, <1>4, NothingMoves, TurnMoves, TurnIs

LEMMA CreateKeeps ==
    ASSUME DialogueInv, NEW t \in Turn, Create(t)
    PROVE  DialogueInv'
<1>1. log' = log /\ turn[t].at = "missing"
  BY DEF Create
<1>2. CASE Goes(t, "found")
  <2>1. /\ turn' \in [Turn -> CallT] /\ \A u \in Turn \ {t} : turn'[u] = turn[u]
        /\ turn'[t].at = "found" /\ turn'[t].replay = turn[t].replay /\ turn'[t].todo = turn[t].todo
    BY <1>2, GoesOn DEF Places, Early
  <2>2. TurnOK(log', OfTurn(log', t), turn'[t])
    BY <1>1, <2>1, TurnIs DEF TurnOK, Early, Answering
  <2> QED  BY <1>1, <2>1, <2>2, NothingMoves, TurnMoves, TurnIs
<1>3. CASE Ends(t)
  <2>1. /\ turn' \in [Turn -> CallT] /\ \A u \in Turn \ {t} : turn'[u] = turn[u]
        /\ turn'[t].at = "ended" /\ turn'[t].replay = <<>> /\ turn'[t].todo = {}
    BY <1>3, EndsThere
  <2>2. OfTurn(log', t) = {}
    BY <1>1, TurnIs DEF TurnOK, Early
  <2>3. TurnOK(log', OfTurn(log', t), turn'[t])
    BY <2>1, <2>2, NothingIsWhole DEF TurnOK, Early, Answering
  <2> QED  BY <1>1, <2>1, <2>3, NothingMoves, NothingReplays, TurnMoves, TurnIs
<1> QED  BY <1>2, <1>3 DEF Create

\* What a turn reads of the history is whole turns, and stays in the table.
LEMMA StoredTurnsAreWhole ==
    ASSUME DialogueInv
    PROVE  Committed \in Seq(Message) /\ WholeTurns(Committed) /\ Holds(Committed, log)
<1>1. log \in Seq(Message)
  BY DEF DialogueInv
<1>2. ASSUME NEW u \in Turn
      PROVE  Whole(log, OfTurnStored(log, u))
  <2>1. TurnOK(log, OfTurn(log, u), turn[u]) /\ turn[u].at \in Places /\ OfTurn(log, u) \in SUBSET Nat
    BY TurnIs
  <2> QED  BY <2>1, StoredIsWhole DEF OfTurnStored, Places
<1>3. Committed = Pick(log, {i \in DOMAIN log : log[i].stored})
  BY DEF Committed
<1> QED  BY <1>1, <1>2, <1>3, StoredIsRead

LEMMA ReadHistoryKeeps ==
    ASSUME DialogueInv, NEW t \in Turn, ReadHistory(t)
    PROVE  DialogueInv'
<1>1. /\ turn[t].at = "found" /\ log' = log
      /\ turn' = [turn EXCEPT ![t].at = "asking", ![t].replay = Window(Committed)]
  BY DEF ReadHistory
<1>2. turn \in [Turn -> CallT] /\ turn[t] \in CallT
  BY DEF DialogueInv
<1>3. Committed \in Seq(Message) /\ Replays(log, Window(Committed))
  BY StoredTurnsAreWhole DEF Replays
<1> DEFINE c == [turn[t] EXCEPT !.at = "asking", !.replay = Window(Committed)]
<1>4. Window(Committed) \in Seq(Message)
  <2>1. \A i \in 1..Len(Committed) : Committed[i] \in Message
    BY <1>3
  <2>2. Len(Committed) \in Nat /\ MaxReplay \in Nat
    BY <1>3, DialogueAssumption
  <2> DEFINE from == IF Len(Committed) > MaxReplay THEN Len(Committed) - MaxReplay + 1 ELSE 1
  <2>3. from \in Int /\ \A i \in from..Len(Committed) : i \in 1..Len(Committed)
    BY <2>2
  <2>4. Window(Committed) = SubSeq(Committed, from, Len(Committed))
    BY DEF Window
  <2> HIDE DEF from
  <2> QED  BY <2>1, <2>2, <2>3, <2>4, SubSeqProperties
<1>5. c \in CallT /\ c.at = "asking" /\ c.replay = Window(Committed) /\ c.todo = turn[t].todo
  BY <1>2, <1>4 DEF CallT, Places, Early
<1>6. turn' = [turn EXCEPT ![t] = c]
  BY <1>1, <1>2
<1>7. /\ turn' \in [Turn -> CallT] /\ \A u \in Turn \ {t} : turn'[u] = turn[u]
      /\ turn'[t] = c
  <2> HIDE DEF c, CallT
  <2> QED  BY <1>2, <1>5, <1>6
<1> HIDE DEF c
<1>8. TurnOK(log', OfTurn(log', t), turn'[t])
  BY <1>1, <1>5, <1>7, TurnIs DEF TurnOK, Early, Answering
<1> QED  BY <1>1, <1>3, <1>5, <1>7, <1>8, NothingMoves, TurnMoves, TurnIs

LEMMA RowIs ==
    ASSUME NEW t \in Turn, NEW kind \in Kind, NEW ids \in SUBSET Ids
    PROVE  /\ Row(t, kind, ids) \in Message /\ Row(t, kind, ids).turn = t /\ Row(t, kind, ids).kind = kind
           /\ Row(t, kind, ids).ids = ids /\ Row(t, kind, ids).stored = FALSE
BY DEF Row, Message

LEMMA AskKeeps ==
    ASSUME DialogueInv, NEW t \in Turn, Ask(t)
    PROVE  DialogueInv'
<1> DEFINE row == Row(t, "question", {})
           n == Len(log) + 1
<1>1. turn[t].at = "asking" /\ log' = Append(log, row) /\ Goes(t, "asked")
  BY DEF Ask
<1>2. row \in Message /\ row.turn = t /\ row.kind = "question" /\ row.stored = FALSE
  BY DEF Row, Message, Kind
<1> HIDE DEF row
<1>3. /\ turn' \in [Turn -> CallT] /\ \A u \in Turn \ {t} : turn'[u] = turn[u]
      /\ turn'[t].at = "asked" /\ turn'[t].replay = turn[t].replay /\ turn'[t].todo = turn[t].todo
  BY <1>1, GoesOn DEF Places
<1>4. OfTurn(log, t) = {} /\ turn[t].todo = {}
  BY <1>1, TurnIs DEF TurnOK, Early
<1>5. /\ log' \in Seq(Message) /\ log'[n] = row /\ OfTurn(log', t) = {n}
      /\ \A u \in Turn \ {t} : Untouched(log, log', u)
      /\ \E g : Keeps(g, log, log')
  BY <1>1, <1>2, <1>4, AppendKeeps, TurnIs
<1>6. TurnOK(log', OfTurn(log', t), turn'[t])
  BY <1>2, <1>3, <1>4, <1>5 DEF TurnOK, AskedOnly, Early, Answering
<1> QED  BY <1>3, <1>5, <1>6, TurnMoves

\* A question that stands alone awaits its answer.
LEMMA QuestionAlone ==
    ASSUME NEW rows, NEW q \in Nat, rows[q].kind = "question"
    PROVE  Answers(rows, {q}, {}) /\ Awaits(rows, {q}, {})
<1>1. Opens(rows, {q}) /\ AskedFor(rows, {q}) /\ Once(rows, {q}) /\ Given(rows, {q}, {})
  BY DEF Opens, AskedFor, Once, Given
<1>2. Awaits(rows, {q}, {})
  BY DEF Awaits
<1> QED  BY <1>1, <1>2 DEF Answers

LEMMA CommitQuestionKeeps ==
    ASSUME DialogueInv, NEW t \in Turn, CommitQuestion(t)
    PROVE  DialogueInv'
<1>1. turn[t].at = "asked" /\ Goes(t, "waiting") /\ StoreRows(t)
  BY DEF CommitQuestion
<1>2. StoredTo(log, t, log')
  BY <1>1 DEF StoreRows, StoredTo
<1>3. /\ turn' \in [Turn -> CallT] /\ \A u \in Turn \ {t} : turn'[u] = turn[u]
      /\ turn'[t].at = "waiting" /\ turn'[t].replay = turn[t].replay /\ turn'[t].todo = turn[t].todo
      /\ turn'[t].round = turn[t].round
  BY <1>1, GoesOn DEF Places, Answering
<1>4. /\ log' \in Seq(Message) /\ OfTurn(log', t) = OfTurn(log, t)
      /\ \A i \in OfTurn(log, t) : log'[i].stored /\ log'[i].kind = log[i].kind
      /\ \A u \in Turn \ {t} : Untouched(log, log', u)
      /\ \E g : Keeps(g, log, log')
  BY <1>2, StoreKeeps, TurnIs
<1>5. turn[t].todo = {} /\ AskedOnly(log, OfTurn(log, t))
  BY <1>1, TurnIs DEF TurnOK
<1>6. PICK q \in OfTurn(log, t) : OfTurn(log, t) = {q} /\ log[q].kind = "question"
  BY <1>5 DEF AskedOnly
<1>7. q \in Nat /\ log'[q].stored /\ log'[q].kind = "question"
  BY <1>4, <1>6, TurnIs
<1>8. Answers(log', {q}, {}) /\ Awaits(log', {q}, {})
  BY <1>7, QuestionAlone
<1>9. OpenOK(log', {q}, turn'[t])
  BY <1>3, <1>5, <1>7, <1>8 DEF OpenOK, RoundsBelow
<1>10. TurnOK(log', OfTurn(log', t), turn'[t])
  BY <1>3, <1>4, <1>5, <1>6, <1>9 DEF TurnOK, Early
<1> QED  BY <1>3, <1>4, <1>10, TurnMoves

\* The envelopes of a round are finite and its own.
LEMMA EnvelopeIs ==
    ASSUME NEW t \in Turn, NEW round \in 0..MaxRounds, NEW ids \in Envelopes(t, round)
    PROVE  /\ ids \in SUBSET Ids /\ IsFiniteSet(ids) /\ Below(ids, round + 1)
           /\ \A below : Below(below, round) => below \cap ids = {}
<1>1. round \in Nat /\ MaxCalls \in Nat
  BY DialogueAssumption
<1>2. PICK n \in 1..MaxCalls : ids = {<<t, round, i>> : i \in 1..n}
  BY DEF Envelopes
<1> DEFINE f == [i \in 1..n |-> <<t, round, i>>]
<1>3. \A id \in ids : id \in Ids /\ id[2] = round
  <2>1. \A i \in 1..n : i \in 1..MaxCalls
    BY <1>1
  <2> QED  BY <1>2, <2>1 DEF Ids
<1>4. IsFiniteSet(ids)
  <2>1. f \in Surjection(1..n, ids)
    BY <1>2 DEF Surjection
  <2>2. IsFiniteSet(1..n)
    BY <1>1, FS_Interval
  <2> HIDE DEF f
  <2> QED  BY <2>1, <2>2, FS_Surjection
<1>5. Below(ids, round + 1)
  BY <1>1, <1>3 DEF Below
<1>6. ASSUME NEW below, Below(below, round)
      PROVE  below \cap ids = {}
  <2>1. \A id \in below : id[2] < round
    BY <1>6 DEF Below
  <2>2. \A id \in below : id[2] # round
    BY <1>1, <2>1
  <2> QED  BY <1>3, <2>2
<1> QED  BY <1>3, <1>4, <1>5, <1>6

\* What an appended row does to the turn's own rows, in one step.
LEMMA RowComes ==
    ASSUME DialogueInv, NEW t \in Turn, NEW row \in Message, row.turn = t, log' = Append(log, row)
    PROVE  LET n == Len(log) + 1
               mine == OfTurn(log, t)
           IN /\ log' \in Seq(Message) /\ log'[n] = row /\ OfTurn(log', t) = mine \cup {n}
              /\ Comes(n, mine) /\ mine \in SUBSET Nat /\ n \notin mine
              /\ \A i \in mine : log'[i] = log[i]
              /\ Carries([i \in mine |-> i], log, mine, log', mine)
              /\ \A u \in Turn \ {t} : Untouched(log, log', u)
              /\ \E g : Keeps(g, log, log')
<1> DEFINE n == Len(log) + 1
           mine == OfTurn(log, t)
<1>1. /\ log' \in Seq(Message) /\ log'[n] = row /\ OfTurn(log', t) = mine \cup {n} /\ Comes(n, mine)
      /\ \A i \in mine : log'[i] = log[i]
      /\ \A u \in Turn \ {t} : Untouched(log, log', u)
      /\ \E g : Keeps(g, log, log')
  BY AppendKeeps, TurnIs
<1>2. mine \in SUBSET Nat
  BY TurnIs
<1>3. n \notin mine
  BY <1>1 DEF Comes
<1>4. Carries([i \in mine |-> i], log, mine, log', mine)
  BY <1>1, <1>2, CarriedInPlace
<1> QED  BY <1>1, <1>2, <1>3, <1>4

\* The open answer as it is seen after a row has come.
LEMMA OpenStays ==
    ASSUME DialogueInv, NEW t \in Turn, turn[t].at \in Answering, NEW row \in Message, row.turn = t,
           log' = Append(log, row)
    PROVE  LET mine == OfTurn(log, t)
           IN /\ Answers(log', mine, turn[t].todo) /\ Awaits(log', mine, turn[t].todo)
              /\ \E q \in mine : log'[q].kind = "question"
              /\ \A i \in mine : log'[i].stored <=> log'[i].kind = "question"
              /\ turn[t].at # "replied" => \A i \in mine : log'[i].kind # "reply"
              /\ turn[t].at = "waiting" => turn[t].todo = {} /\ RoundsBelow(log', mine, turn[t].round)
              /\ turn[t].at = "called" => /\ RoundsBelow(log', mine, turn[t].round + 1)
                                          /\ Below(turn[t].todo, turn[t].round + 1)
<1> DEFINE mine == OfTurn(log, t)
<1>1. OpenOK(log, mine, turn[t]) /\ (turn[t].at = "waiting" => turn[t].todo = {})
  BY TurnIs DEF TurnOK
<1>2. \A i \in mine : log'[i] = log[i]
  BY RowComes
<1>3. Carries([i \in mine |-> i], log, mine, log', mine)
  BY RowComes
<1>4. Answers(log', mine, turn[t].todo) /\ Awaits(log', mine, turn[t].todo)
  BY <1>1, <1>3, AnswersCarried, AwaitsCarried DEF OpenOK
<1>5. /\ turn[t].at = "waiting" => RoundsBelow(log', mine, turn[t].round)
      /\ turn[t].at = "called" => RoundsBelow(log', mine, turn[t].round + 1)
  BY <1>1, <1>3, RoundsCarried DEF OpenOK
<1> HIDE DEF mine
<1>6. /\ \E q \in mine : log'[q].kind = "question"
      /\ \A i \in mine : log'[i].stored <=> log'[i].kind = "question"
      /\ turn[t].at # "replied" => \A i \in mine : log'[i].kind # "reply"
  BY <1>1, <1>2 DEF OpenOK
<1> QED  BY <1>1, <1>4, <1>5, <1>6 DEF mine, OpenOK

LEMMA AnswerKeeps ==
    ASSUME DialogueInv, NEW t \in Turn, Answer(t)
    PROVE  DialogueInv'
<1> DEFINE n == Len(log) + 1
           mine == OfTurn(log, t)
<1>1. turn[t].at = "waiting" /\ turn[t].at \in Answering
  BY DEF Answer, Answering
<1>2. turn \in [Turn -> CallT] /\ turn[t] \in CallT /\ turn[t].round \in 0..MaxRounds
  BY TurnIs DEF DialogueInv
<1>3. ASSUME NEW ids \in Envelopes(t, turn[t].round),
             log' = Append(log, Row(t, "calls", ids)),
             turn' = [turn EXCEPT ![t].at = "called", ![t].todo = ids]
      PROVE  DialogueInv'
  <2> DEFINE row == Row(t, "calls", ids)
             c == [turn[t] EXCEPT !.at = "called", !.todo = ids]
  <2>1. ids \in SUBSET Ids /\ IsFiniteSet(ids) /\ Below(ids, turn[t].round + 1)
        /\ \A below : Below(below, turn[t].round) => below \cap ids = {}
    BY <1>2, EnvelopeIs
  <2>2. row \in Message /\ row.turn = t /\ row.kind = "calls" /\ row.ids = ids /\ row.stored = FALSE
    BY <2>1 DEF Row, Message, Kind
  <2>3. c \in CallT /\ c.at = "called" /\ c.todo = ids /\ c.replay = turn[t].replay /\ c.round = turn[t].round
    BY <1>2, <2>1 DEF CallT, Places, Answering
  <2>4. turn' \in [Turn -> CallT] /\ turn'[t] = c /\ \A u \in Turn \ {t} : turn'[u] = turn[u]
    <3>1. turn' = [turn EXCEPT ![t] = c]
      BY <1>2, <1>3
    <3> HIDE DEF c, CallT
    <3> QED  BY <1>2, <2>3, <3>1
  <2> HIDE DEF row, c
  <2>5. /\ log' \in Seq(Message) /\ log'[n] = row /\ OfTurn(log', t) = mine \cup {n}
        /\ Comes(n, mine) /\ mine \in SUBSET Nat /\ n \notin mine
        /\ \A u \in Turn \ {t} : Untouched(log, log', u)
        /\ \E g : Keeps(g, log, log')
    BY <1>3, <2>2, RowComes DEF row
  <2>6. /\ Answers(log', mine, {})
        /\ \E q \in mine : log'[q].kind = "question"
        /\ \A i \in mine : log'[i].stored <=> log'[i].kind = "question"
        /\ \A i \in mine : log'[i].kind # "reply"
        /\ RoundsBelow(log', mine, turn[t].round)
    BY <1>1, <1>3, <2>2, OpenStays DEF row
  <2> HIDE DEF mine, n
  <2>7. \A i \in mine : log'[i].kind \in {"calls", "result"} => log'[i].ids \cap log'[n].ids = {}
    BY <2>1, <2>2, <2>5, <2>6 DEF RoundsBelow
  <2>8. Answers(log', mine \cup {n}, ids) /\ Awaits(log', mine \cup {n}, ids)
    BY <2>1, <2>2, <2>5, <2>6, <2>7, CallsComeLast
  <2>9. RoundsBelow(log', mine \cup {n}, turn[t].round + 1)
    <3>1. \A i \in mine : log'[i].kind \in {"calls", "result"} => Below(log'[i].ids, turn[t].round)
      BY <2>6 DEF RoundsBelow
    <3>2. log \in Seq(Message) /\ log' \in Seq(Message)
      BY <2>5, TurnIs
    <3>3. \A i \in mine : i \in DOMAIN log'
      BY <2>5 DEF OfTurn
    <3>4. \A i \in mine : \A id \in log'[i].ids : id[2] \in Nat
      <4>1. \A i \in mine : log'[i] \in Message
        BY <3>2, <3>3
      <4>2. \A i \in mine : log'[i].ids \in SUBSET Ids
        BY <4>1 DEF Message
      <4> QED  BY <4>2 DEF Ids
    <3>5. \A i \in mine : log'[i].kind \in {"calls", "result"} => Below(log'[i].ids, turn[t].round + 1)
      BY <1>2, <3>1, <3>4 DEF Below
    <3> QED  BY <2>1, <2>2, <2>5, <3>5 DEF RoundsBelow
  <2>10. OpenOK(log', mine \cup {n}, c)
    BY <2>1, <2>2, <2>3, <2>5, <2>6, <2>8, <2>9 DEF OpenOK
  <2>11. TurnOK(log', OfTurn(log', t), turn'[t])
    BY <2>3, <2>4, <2>5, <2>10 DEF TurnOK, Early
  <2> QED  BY <2>3, <2>4, <2>5, <2>11, TurnMoves
<1>4. ASSUME log' = Append(log, Row(t, "reply", {})), Goes(t, "replied")
      PROVE  DialogueInv'
  <2> DEFINE row == Row(t, "reply", {})
  <2>1. row \in Message /\ row.turn = t /\ row.kind = "reply" /\ row.stored = FALSE
    BY DEF Row, Message, Kind
  <2>2. /\ turn' \in [Turn -> CallT] /\ \A u \in Turn \ {t} : turn'[u] = turn[u]
        /\ turn'[t].at = "replied" /\ turn'[t].replay = turn[t].replay /\ turn'[t].todo = turn[t].todo
    BY <1>4, GoesOn DEF Places, Answering
  <2> HIDE DEF row
  <2>3. /\ log' \in Seq(Message) /\ log'[n] = row /\ OfTurn(log', t) = mine \cup {n}
        /\ Comes(n, mine) /\ mine \in SUBSET Nat /\ n \notin mine
        /\ \A u \in Turn \ {t} : Untouched(log, log', u)
        /\ \E g : Keeps(g, log, log')
    BY <1>4, <2>1, RowComes DEF row
  <2>4. /\ Answers(log', mine, {}) /\ turn[t].todo = {}
        /\ \E q \in mine : log'[q].kind = "question"
        /\ \A i \in mine : log'[i].stored <=> log'[i].kind = "question"
        /\ \A i \in mine : log'[i].kind # "reply"
    BY <1>1, <1>4, <2>1, OpenStays DEF row
  <2> HIDE DEF mine, n
  <2>5. Answers(log', mine \cup {n}, {}) /\ Closed(log', mine \cup {n})
    BY <2>1, <2>3, <2>4, ReplyComesLast
  <2>6. Awaits(log', mine \cup {n}, {})
    BY DEF Awaits
  <2>7. OpenOK(log', mine \cup {n}, turn'[t])
    BY <2>1, <2>2, <2>3, <2>4, <2>5, <2>6 DEF OpenOK
  <2>8. TurnOK(log', OfTurn(log', t), turn'[t])
    BY <2>2, <2>3, <2>4, <2>7 DEF TurnOK, Early
  <2> QED  BY <2>2, <2>3, <2>8, TurnMoves
<1> QED  BY <1>3, <1>4 DEF Answer

LEMMA CallToolKeeps ==
    ASSUME DialogueInv, NEW t \in Turn, CallTool(t)
    PROVE  DialogueInv'
<1>1. turn[t].at = "called" /\ turn[t].at \in Answering /\ turn[t].todo # {}
  BY DEF CallTool, Answering
<1>2. PICK id \in turn[t].todo :
        /\ \E raises \in BOOLEAN : log' = log \o ToolRows(t, id, raises)
        /\ turn' = [turn EXCEPT ![t].todo = @ \ {id}]
  BY <1>1 DEF CallTool
<1> DEFINE n == Len(log) + 1
           mine == OfTurn(log, t)
           row == Row(t, "result", {id})
           c == [turn[t] EXCEPT !.todo = turn[t].todo \ {id}]
<1>3. turn \in [Turn -> CallT] /\ turn[t] \in CallT /\ log \in Seq(Message) /\ turn[t].todo \in SUBSET Ids
  BY TurnIs DEF DialogueInv
<1>4. {id} \in SUBSET Ids
  BY <1>2, <1>3
<1>5. row \in Message /\ row.turn = t /\ row.kind = "result" /\ row.ids = {id} /\ row.stored = FALSE
  BY <1>4 DEF Row, Message, Kind
<1>6. log' = Append(log, row)
  <2>1. log' = log \o <<row>>
    BY <1>2 DEF ToolRows
  <2> HIDE DEF row, Message
  <2> QED  BY <1>3, <1>5, <2>1
<1>7. /\ c \in CallT /\ c.at = "called" /\ c.todo = turn[t].todo \ {id}
      /\ c.replay = turn[t].replay /\ c.round = turn[t].round
  BY <1>1, <1>3 DEF CallT
<1>8. turn' \in [Turn -> CallT] /\ turn'[t] = c /\ \A u \in Turn \ {t} : turn'[u] = turn[u]
  <2>1. turn' = [turn EXCEPT ![t] = c]
    BY <1>2, <1>3
  <2> HIDE DEF c, CallT
  <2> QED  BY <1>3, <1>7, <2>1
<1> HIDE DEF row, c
<1>9. /\ log' \in Seq(Message) /\ log'[n] = row /\ OfTurn(log', t) = mine \cup {n}
      /\ Comes(n, mine) /\ mine \in SUBSET Nat /\ n \notin mine
      /\ \A u \in Turn \ {t} : Untouched(log, log', u)
      /\ \E g : Keeps(g, log, log')
  BY <1>5, <1>6, RowComes
<1>10. /\ Answers(log', mine, turn[t].todo) /\ Awaits(log', mine, turn[t].todo)
       /\ \E q \in mine : log'[q].kind = "question"
       /\ \A i \in mine : log'[i].stored <=> log'[i].kind = "question"
       /\ \A i \in mine : log'[i].kind # "reply"
       /\ RoundsBelow(log', mine, turn[t].round + 1) /\ Below(turn[t].todo, turn[t].round + 1)
  BY <1>1, <1>5, <1>6, OpenStays
<1> HIDE DEF mine, n
<1>11. /\ Answers(log', mine \cup {n}, turn[t].todo \ {id})
       /\ Awaits(log', mine \cup {n}, turn[t].todo \ {id})
  BY <1>2, <1>5, <1>9, <1>10, ResultComesLast
<1>12. RoundsBelow(log', mine \cup {n}, turn[t].round + 1) /\ Below(turn[t].todo \ {id}, turn[t].round + 1)
  <2>1. Below({id}, turn[t].round + 1)
    BY <1>2, <1>10 DEF Below
  <2>2. Below(turn[t].todo \ {id}, turn[t].round + 1)
    BY <1>10 DEF Below
  <2> QED  BY <1>5, <1>9, <1>10, <2>1, <2>2 DEF RoundsBelow
<1>13. OpenOK(log', mine \cup {n}, c)
  BY <1>5, <1>7, <1>9, <1>10, <1>11, <1>12 DEF OpenOK
<1>14. TurnOK(log', OfTurn(log', t), turn'[t])
  BY <1>7, <1>8, <1>9, <1>13 DEF TurnOK, Early
<1> QED  BY <1>7, <1>8, <1>9, <1>14, TurnMoves

LEMMA NextRoundKeeps ==
    ASSUME DialogueInv, NEW t \in Turn, NextRound(t)
    PROVE  DialogueInv'
<1>1. /\ turn[t].at = "called" /\ turn[t].todo = {} /\ turn[t].round < MaxRounds /\ log' = log
      /\ turn' = [turn EXCEPT ![t].at = "waiting", ![t].round = @ + 1]
  BY DEF NextRound
<1>2. turn \in [Turn -> CallT] /\ turn[t] \in CallT /\ turn[t].round \in 0..MaxRounds
  BY TurnIs DEF DialogueInv
<1> DEFINE c == [turn[t] EXCEPT !.at = "waiting", !.round = turn[t].round + 1]
<1>3. turn[t].round + 1 \in 0..MaxRounds
  BY <1>1, <1>2, DialogueAssumption
<1>4. /\ c \in CallT /\ c.at = "waiting" /\ c.todo = {} /\ c.replay = turn[t].replay
      /\ c.round = turn[t].round + 1
  BY <1>1, <1>2, <1>3 DEF CallT, Places, Answering
<1>5. turn' \in [Turn -> CallT] /\ turn'[t] = c /\ \A u \in Turn \ {t} : turn'[u] = turn[u]
  <2>1. turn' = [turn EXCEPT ![t] = c]
    BY <1>1, <1>2
  <2> HIDE DEF c, CallT
  <2> QED  BY <1>2, <1>4, <2>1
<1> HIDE DEF c
<1>6. OpenOK(log, OfTurn(log, t), turn[t])
  BY <1>1, TurnIs DEF TurnOK, Answering
<1>7. OpenOK(log, OfTurn(log, t), c)
  BY <1>1, <1>4, <1>6 DEF OpenOK
<1>8. TurnOK(log', OfTurn(log', t), turn'[t])
  BY <1>1, <1>4, <1>5, <1>7 DEF TurnOK, Early
<1> QED  BY <1>1, <1>4, <1>5, <1>8, NothingMoves, TurnMoves, TurnIs

LEMMA CommitReplyKeeps ==
    ASSUME DialogueInv, NEW t \in Turn, CommitReply(t)
    PROVE  DialogueInv'
<1> DEFINE mine == OfTurn(log, t)
<1>1. turn[t].at = "replied" /\ Ends(t) /\ StoreRows(t)
  BY DEF CommitReply
<1>2. StoredTo(log, t, log')
  BY <1>1 DEF StoreRows, StoredTo
<1>3. /\ turn' \in [Turn -> CallT] /\ \A u \in Turn \ {t} : turn'[u] = turn[u]
      /\ turn'[t].at = "ended" /\ turn'[t].replay = <<>> /\ turn'[t].todo = {}
  BY <1>1, EndsThere
<1>4. /\ log' \in Seq(Message) /\ OfTurn(log', t) = mine
      /\ Carries([i \in mine |-> i], log, mine, log', mine)
      /\ \A i \in mine : log'[i].stored
      /\ \A u \in Turn \ {t} : Untouched(log, log', u)
      /\ \E g : Keeps(g, log, log')
  BY <1>2, StoreKeeps, TurnIs
<1>5. OpenOK(log, mine, turn[t]) /\ turn[t].todo = {}
  BY <1>1, TurnIs DEF TurnOK, Answering
<1>6. Whole(log, mine)
  BY <1>1, <1>5 DEF OpenOK, Whole
<1>7. Whole(log', mine)
  BY <1>4, <1>6, WholeCarried
<1> HIDE DEF mine
<1>8. TurnOK(log', OfTurn(log', t), turn'[t])
  BY <1>3, <1>4, <1>7 DEF TurnOK, Early, Answering
<1> QED  BY <1>3, <1>4, <1>8, NothingReplays, TurnMoves

LEMMA FailKeeps ==
    ASSUME DialogueInv, NEW t \in Turn, Fail(t)
    PROVE  DialogueInv'
<1>1. Ends(t) /\ RolledTo(log, t, log')
  BY DEF Fail, RolledBack, RolledTo
<1>2. /\ turn' \in [Turn -> CallT] /\ \A u \in Turn \ {t} : turn'[u] = turn[u]
      /\ turn'[t].at = "ended" /\ turn'[t].replay = <<>> /\ turn'[t].todo = {}
  BY <1>1, EndsThere
<1>3. /\ log' \in Seq(Message)
      /\ \E f : Carries(f, log, OfTurnStored(log, t), log', OfTurn(log', t))
      /\ \A i \in OfTurn(log', t) : log'[i].stored
      /\ \A u \in Turn \ {t} : Untouched(log, log', u)
      /\ \E g : Keeps(g, log, log')
  BY <1>1, RollbackKeeps, TurnIs
<1>4. Whole(log, OfTurnStored(log, t))
  <2>1. TurnOK(log, OfTurn(log, t), turn[t]) /\ turn[t].at \in Places /\ OfTurn(log, t) \in SUBSET Nat
    BY TurnIs
  <2> QED  BY <2>1, StoredIsWhole DEF OfTurnStored, Places
<1>5. PICK f : Carries(f, log, OfTurnStored(log, t), log', OfTurn(log', t))
  BY <1>3
<1>6. Whole(log', OfTurn(log', t))
  BY <1>4, <1>5, WholeCarried
<1>7. TurnOK(log', OfTurn(log', t), turn'[t])
  BY <1>2, <1>3, <1>6 DEF TurnOK, Early, Answering
<1> QED  BY <1>2, <1>3, <1>7, NothingReplays, TurnMoves

LEMMA DialogueBegins == DialogueInit => DialogueInv
<1> SUFFICES ASSUME DialogueInit
             PROVE  DialogueInv
  OBVIOUS
<1>1. log = <<>> /\ turn = [t \in Turn |-> Call("unsent")] /\ <<>> \in Seq(Message)
  BY EmptySeq DEF DialogueInit
<1>2. Call("unsent") \in CallT
  BY DialogueAssumption, EmptySeq DEF Call, CallT, Places, Early
<1>3. turn \in [Turn -> CallT] /\ log \in Seq(Message)
  <2> HIDE DEF CallT
  <2> QED  BY <1>1, <1>2
<1>4. ASSUME NEW t \in Turn
      PROVE  TurnOK(log, OfTurn(log, t), turn[t]) /\ Replays(log, turn[t].replay)
  <2>1. turn[t].at = "unsent" /\ turn[t].todo = {} /\ turn[t].replay = <<>>
    BY <1>1 DEF Call
  <2>2. OfTurn(log, t) = {}
    BY <1>1 DEF OfTurn
  <2> QED  BY <2>1, <2>2, NothingReplays DEF TurnOK, Answering
<1> QED  BY <1>3, <1>4 DEF DialogueInv

LEMMA DialogueStays == DialogueInv /\ [DialogueNext]_dialogueVars => DialogueInv'
<1> SUFFICES ASSUME DialogueInv, [DialogueNext]_dialogueVars
             PROVE  DialogueInv'
  OBVIOUS
<1>1. CASE DialogueNext
  <2>1. PICK t \in Turn : DialogueStep(t)
    BY <1>1 DEF DialogueNext
  <2> QED
    BY <2>1, SendKeeps, CreateKeeps, ReadHistoryKeeps, AskKeeps, CommitQuestionKeeps, AnswerKeeps,
       CallToolKeeps, NextRoundKeeps, CommitReplyKeeps, FailKeeps DEF DialogueStep
<1>2. CASE UNCHANGED dialogueVars
  <2>1. log' = log /\ turn' = turn
    BY <1>2 DEF dialogueVars
  <2> QED  BY <2>1 DEF DialogueInv
<1> QED  BY <1>1, <1>2

LEMMA WholeReplaysConverse == DialogueInv => ReplaysAreConversations
<1> SUFFICES ASSUME DialogueInv, ~Interleaved(log),
                    NEW rows \in {Transcript} \cup {FromAQuestion(turn[t].replay) : t \in Turn}
             PROVE  IsConversation(rows) /\ IsAnswered(rows)
  BY DEF ReplaysAreConversations
<1>1. log \in Seq(Message)
  BY DEF DialogueInv
<1>2. CASE rows = Transcript
  <2>1. CASE rows = Committed
    <3>1. Committed \in Seq(Message) /\ WholeTurns(Committed) /\ Holds(Committed, log)
      BY StoredTurnsAreWhole
    <3>2. ~Interleaved(Committed)
      BY <1>1, <3>1, HeldInOnePiece
    <3> QED  BY <2>1, <3>1, <3>2, WholeTurnsConverse
  <2>2. CASE rows = <<>>
    BY <2>2, NothingConverses
  <2> QED  BY <1>2, <2>1, <2>2 DEF Transcript
<1>3. ASSUME NEW t \in Turn, rows = FromAQuestion(turn[t].replay)
      PROVE  IsConversation(rows) /\ IsAnswered(rows)
  <2>1. Replays(log, turn[t].replay)
    BY DEF DialogueInv
  <2> QED  BY <1>1, <1>3, <2>1, ReplaysConverse
<1> QED  BY <1>2, <1>3

\* Whatever number of turns, of tool rounds and of calls in them, however wide the
\* window, and whatever fails or dies: while no two turns overlap in the table, what
\* the console shows and what a turn replays, from its first question on, is a
\* conversation (service.py:455): each question with all of its answer or none of
\* it, each envelope with the results of its calls.
THEOREM ConversationsReplayWhole == DialogueSpec => []ReplaysAreConversations
<1> QED  BY DialogueBegins, DialogueStays, WholeReplaysConverse, PTL DEF DialogueSpec

(***************************************************************************)
(* The dialogue's row. A turn that is about to write has a row to write    *)
(* to, one that is committed or its own.                                   *)
(***************************************************************************)
ThreadT == [turn : Turn, stored : BOOLEAN]
HasThread(t) == thread \in ThreadT /\ (thread.stored \/ thread.turn = t)

ThreadInv ==
    /\ thread \in ThreadT \cup {None} /\ holder \in Turn \cup {None}
    /\ \A t \in Turn : turn[t].at \in {"found", "asking", "asked"} => HasThread(t)

\* One turn moved, and it has a row if it needs one.
TurnMoved(t) ==
    /\ \A u \in Turn \ {t} : turn'[u] = turn[u]
    /\ turn'[t].at \in {"found", "asking", "asked"} => HasThread(t)'

LEMMA TurnGoes ==
    ASSUME DialogueInv, NEW t \in Turn, NEW place, Goes(t, place)
    PROVE  turn'[t].at = place /\ \A u \in Turn \ {t} : turn'[u] = turn[u]
<1>1. DOMAIN turn = Turn /\ turn[t] \in CallT
  BY DEF DialogueInv
<1>2. turn' = [turn EXCEPT ![t].at = place]
  BY DEF Goes
<1>3. turn'[t] = [turn[t] EXCEPT !.at = place]
  BY <1>1, <1>2
<1>4. turn'[t].at = place
  BY <1>1, <1>3 DEF CallT
<1>5. \A u \in Turn \ {t} : turn'[u] = turn[u]
  BY <1>1, <1>2
<1> QED  BY <1>4, <1>5

LEMMA TurnEnds ==
    ASSUME DialogueInv, NEW t \in Turn, Ends(t)
    PROVE  turn'[t].at = "ended" /\ \A u \in Turn \ {t} : turn'[u] = turn[u]
<1>1. DOMAIN turn = Turn
  BY DEF DialogueInv
<1> QED  BY <1>1 DEF Ends, Call

\* A row that is kept, but for becoming committed, stays the others'.
LEMMA ThreadKept ==
    ASSUME ThreadInv, NEW t \in Turn, TurnMoved(t), holder' \in Turn \cup {None},
           \/ thread' = thread
           \/ thread' = [thread EXCEPT !.stored = TRUE] /\ thread \in ThreadT
    PROVE  ThreadInv'
<1>1. CASE thread' = thread
  BY <1>1 DEF ThreadInv, TurnMoved, HasThread
<1>2. CASE thread' = [thread EXCEPT !.stored = TRUE] /\ thread \in ThreadT
  <2>1. thread' \in ThreadT /\ thread'.stored
    BY <1>2 DEF ThreadT
  <2> QED  BY <2>1 DEF ThreadInv, TurnMoved, HasThread, Turn
<1> QED  BY <1>1, <1>2

LEMMA ThreadStep ==
    ASSUME DialogueInv, ThreadInv, NEW t \in Turn, DialogueStep(t)
    PROVE  ThreadInv'
<1>1. thread \in ThreadT \cup {None} /\ holder \in Turn \cup {None}
  BY DEF ThreadInv
<1>2. CASE Send(t)
  <2>1. PICK place : place = (IF Found THEN "found" ELSE "missing") /\ Goes(t, place)
    BY <1>2 DEF Send
  <2>2. UNCHANGED <<thread, holder>>
    BY <1>2 DEF Send
  <2>3. turn'[t].at = place /\ \A u \in Turn \ {t} : turn'[u] = turn[u]
    BY <2>1, TurnGoes
  <2>4. TurnMoved(t)
    <3>1. CASE Found
      BY <1>1, <2>2, <2>3, <3>1 DEF TurnMoved, HasThread, Found
    <3>2. CASE ~Found
      BY <2>1, <2>3, <3>2 DEF TurnMoved
    <3> QED  BY <3>1, <3>2
  <2> QED  BY <1>1, <2>2, <2>4, ThreadKept
<1>3. CASE Create(t)
  <2>1. CASE Found /\ Ends(t) /\ UNCHANGED thread
    <3>1. TurnMoved(t)
      BY <2>1, TurnEnds DEF TurnMoved
    <3>2. UNCHANGED holder
      BY <1>3 DEF Create
    <3> QED  BY <1>1, <2>1, <3>1, <3>2, ThreadKept
  <2>2. CASE thread = None /\ thread' = [turn |-> t, stored |-> FALSE] /\ Goes(t, "found")
    <3>1. thread' \in ThreadT /\ thread'.turn = t
      BY <2>2 DEF ThreadT
    <3>2. turn'[t].at = "found" /\ \A u \in Turn \ {t} : turn'[u] = turn[u]
      BY <2>2, TurnGoes
    <3>3. UNCHANGED holder
      BY <1>3 DEF Create
    <3>4. ASSUME NEW u \in Turn \ {t}, turn[u].at \in {"found", "asking", "asked"}
          PROVE  FALSE
      BY <2>2, <3>4, DialogueAssumption DEF ThreadInv, HasThread, ThreadT, Turn
    <3>5. ASSUME NEW u \in Turn, turn'[u].at \in {"found", "asking", "asked"}
          PROVE  HasThread(u)'
      <4>1. u = t
        BY <3>2, <3>4, <3>5
      <4> QED  BY <3>1, <4>1 DEF HasThread
    <3>6. (thread \in ThreadT \cup {None} /\ holder \in Turn \cup {None})'
      BY <1>1, <3>1, <3>3
    <3> QED  BY <3>5, <3>6 DEF ThreadInv
  <2> QED  BY <1>3, <2>1, <2>2 DEF Create
<1>4. CASE ReadHistory(t)
  <2>1. /\ turn[t].at = "found" /\ UNCHANGED <<thread, holder>>
        /\ \A u \in Turn \ {t} : turn'[u] = turn[u]
    BY <1>4 DEF ReadHistory, DialogueInv
  <2>2. TurnMoved(t)
    BY <2>1 DEF TurnMoved, ThreadInv, HasThread
  <2> QED  BY <1>1, <2>1, <2>2, ThreadKept
<1>5. CASE Ask(t)
  <2>1. turn[t].at = "asking" /\ UNCHANGED <<thread, holder>> /\ Goes(t, "asked")
    BY <1>5 DEF Ask
  <2>2. TurnMoved(t)
    BY <2>1, TurnGoes DEF TurnMoved, ThreadInv, HasThread
  <2> QED  BY <1>1, <2>1, <2>2, ThreadKept
<1>6. CASE CommitQuestion(t)
  <2>1. /\ turn[t].at = "asked" /\ UNCHANGED holder /\ Goes(t, "waiting")
        /\ thread' = [thread EXCEPT !.stored = TRUE]
    BY <1>6 DEF CommitQuestion
  <2>2. TurnMoved(t)
    BY <2>1, TurnGoes DEF TurnMoved
  <2>3. thread \in ThreadT
    BY <2>1 DEF ThreadInv, HasThread
  <2> QED  BY <1>1, <2>1, <2>2, <2>3, ThreadKept
<1>7. CASE Answer(t)
  <2>1. UNCHANGED <<thread, holder>>
    BY <1>7 DEF Answer
  <2>2. /\ turn'[t].at \in {"called", "replied"}
        /\ \A u \in Turn \ {t} : turn'[u] = turn[u]
    <3>1. CASE Goes(t, "replied")
      BY <3>1, TurnGoes
    <3>2. ASSUME NEW ids, turn' = [turn EXCEPT ![t].at = "called", ![t].todo = ids]
          PROVE  turn'[t].at = "called" /\ \A u \in Turn \ {t} : turn'[u] = turn[u]
      <4>1. DOMAIN turn = Turn /\ turn[t] \in CallT
        BY DEF DialogueInv
      <4>2. turn'[t] = [turn[t] EXCEPT !.at = "called", !.todo = ids]
        BY <3>2, <4>1
      <4>3. turn'[t].at = "called"
        BY <4>1, <4>2 DEF CallT
      <4> QED  BY <3>2, <4>1, <4>3
    <3> QED  BY <1>7, <3>1, <3>2 DEF Answer
  <2>3. TurnMoved(t)
    BY <2>2 DEF TurnMoved
  <2> QED  BY <1>1, <2>1, <2>3, ThreadKept
<1>8. CASE CallTool(t)
  <2>1. /\ turn[t].at = "called" /\ UNCHANGED thread /\ holder' = t
        /\ \E ids : turn' = [turn EXCEPT ![t].todo = ids]
    BY <1>8 DEF CallTool, Touched
  <2>2. PICK ids : turn' = [turn EXCEPT ![t].todo = ids]
    BY <2>1
  <2>3. DOMAIN turn = Turn /\ turn[t] \in CallT
    BY DEF DialogueInv
  <2>4. turn'[t] = [turn[t] EXCEPT !.todo = ids]
    BY <2>2, <2>3
  <2>5. turn'[t].at = "called"
    BY <2>1, <2>3, <2>4 DEF CallT
  <2>6. TurnMoved(t)
    BY <2>2, <2>3, <2>5 DEF TurnMoved
  <2> QED  BY <2>1, <2>6, ThreadKept
<1>9. CASE NextRound(t)
  <2>1. /\ UNCHANGED <<thread, holder>>
        /\ turn' = [turn EXCEPT ![t].at = "waiting", ![t].round = @ + 1]
    BY <1>9 DEF NextRound
  <2>2. DOMAIN turn = Turn /\ turn[t] \in CallT
    BY DEF DialogueInv
  <2>3. turn'[t] = [turn[t] EXCEPT !.at = "waiting", !.round = @ + 1]
    BY <2>1, <2>2
  <2>4. turn'[t].at = "waiting"
    BY <2>2, <2>3 DEF CallT
  <2>5. TurnMoved(t)
    BY <2>1, <2>2, <2>4 DEF TurnMoved
  <2> QED  BY <1>1, <2>1, <2>5, ThreadKept
<1>10. CASE CommitReply(t)
  <2>1. UNCHANGED thread /\ holder' = None /\ Ends(t)
    BY <1>10 DEF CommitReply
  <2>2. TurnMoved(t)
    BY <2>1, TurnEnds DEF TurnMoved
  <2> QED  BY <2>1, <2>2, ThreadKept
<1>11. CASE Fail(t)
  <2>1. /\ thread' = IF ~Found /\ thread # None /\ thread.turn = t THEN None ELSE thread
        /\ holder' \in Turn \cup {None} /\ Ends(t)
    BY <1>1, <1>11 DEF Fail
  <2>2. TurnMoved(t)
    BY <2>1, TurnEnds DEF TurnMoved
  <2>3. CASE thread' = thread
    BY <2>1, <2>2, <2>3, ThreadKept
  <2>4. CASE ~Found /\ thread # None /\ thread.turn = t /\ thread' = None
    <3>1. ASSUME NEW u \in Turn \ {t}, turn[u].at \in {"found", "asking", "asked"}
          PROVE  FALSE
      BY <2>4, <3>1 DEF ThreadInv, HasThread, Found
    <3>2. turn'[t].at = "ended" /\ \A u \in Turn \ {t} : turn'[u] = turn[u]
      BY <2>1, TurnEnds
    <3> QED  BY <2>1, <2>4, <3>1, <3>2 DEF ThreadInv, Turn
  <2> QED  BY <2>1, <2>3, <2>4
<1> QED  BY <1>2, <1>3, <1>4, <1>5, <1>6, <1>7, <1>8, <1>9, <1>10, <1>11 DEF DialogueStep

LEMMA WindowIsShort ==
    ASSUME NEW rows \in Seq(Message)
    PROVE  Len(Window(rows)) <= MaxReplay
<1> DEFINE m == IF Len(rows) > MaxReplay THEN Len(rows) - MaxReplay + 1 ELSE 1
           n == Len(rows)
<1>1. n \in Nat /\ MaxReplay \in Nat
  BY LenProperties, DialogueAssumption
<1>2. m \in Int /\ n \in Int /\ m \in 1..(n + 1) /\ n - m + 1 <= MaxReplay /\ 0 <= MaxReplay
  BY <1>1
<1>3. \A i \in m..n : rows[i] \in Message
  <2>1. \A i \in m..n : i \in 1..n
    BY <1>1, <1>2
  <2> HIDE DEF m, n
  <2> QED  BY <2>1, ElementOfSeq DEF n
<1>4. Len(SubSeq(rows, m, n)) = IF m <= n THEN n - m + 1 ELSE 0
  <2> HIDE DEF m, n
  <2> QED  BY <1>2, <1>3, SubSeqProperties
<1> QED  BY <1>2, <1>4 DEF Window

\* A message belongs to a turn that was sent and is of a kind and shape the table
\* knows, no replay is longer than the window, and the dialogue's row and the lock
\* on it are nobody's or a turn's, so a turn never writes to a row that is gone
\* (service.py, _append_message).
THEOREM DialogueTyped == DialogueSpec => []DialogueTypeOK
<1>1. DialogueInit => ThreadInv
  <2> SUFFICES ASSUME DialogueInit PROVE ThreadInv
    OBVIOUS
  <2>1. \A t \in Turn : turn[t].at = "unsent"
    BY DEF DialogueInit, Call
  <2> QED  BY <2>1 DEF DialogueInit, ThreadInv
<1>2. DialogueInv /\ ThreadInv /\ [DialogueNext]_dialogueVars => ThreadInv'
  <2>1. UNCHANGED dialogueVars /\ ThreadInv => ThreadInv'
    BY DEF dialogueVars, ThreadInv, HasThread
  <2> QED  BY <2>1, ThreadStep DEF DialogueNext
<1>3. DialogueInv /\ ThreadInv => DialogueTypeOK
  <2> SUFFICES ASSUME DialogueInv, ThreadInv PROVE DialogueTypeOK
    OBVIOUS
  <2>1. \A i \in DOMAIN log : log[i] \in Message
    BY DEF DialogueInv
  <2>2. \A t \in Turn : Len(turn[t].replay) <= MaxReplay
    BY WindowIsShort DEF DialogueInv, Replays
  <2> QED  BY <2>1, <2>2 DEF ThreadInv, ThreadT, DialogueTypeOK, Message, Ids
<1> QED  BY <1>1, <1>2, <1>3, DialogueBegins, DialogueStays, PTL DEF DialogueSpec

=============================================================================
