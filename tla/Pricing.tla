------------------------------ MODULE Pricing ------------------------------
(***************************************************************************)
(* What one turn of the forecast run does to a number: the calibrated      *)
(* distribution of a quote, the analyst rules, the drift guard, and the    *)
(* gate that calls it a candidate or says why not.                         *)
(*                                                                         *)
(* Probabilities are integers in units of 1/One, One a multiple of enough  *)
(* powers of two that every shrink below is exact.                         *)
(***************************************************************************)
EXTENDS Integers, Sequences, FiniteSets, FiniteSetsExt, SequencesExt

CONSTANTS
    One,           \* the probability 1
    Quote,         \* the quotes of the board
    Queue,         \* the order the board query returns them in
    Scores,        \* [Quote -> set of what the scorer may answer]
    Evidences,     \* [Quote -> set of what may be known of it at the cutoff]
    Rule,          \* analyst rules: [id, priority, status, kind, magnitude, all, when]
    Factor,        \* edge shrinkage of the market, in quarters
    Breakeven,     \* the two-leg power play's break-even
    Margin,        \* DEFAULT_MARGIN
    Missing        \* a fact nobody observed

\* A regulation game and an overtime.
MaxMinutes == 45

ASSUME PricingAssumption ==
    /\ One \in Nat /\ One > 0 /\ One % 2 = 0
    /\ IsFiniteSet(Quote) /\ Queue \in Seq(Quote)
    /\ Breakeven \in 0..One /\ Margin \in 0..One
    /\ Factor \in 0..4
    /\ IsFiniteSet(Rule) /\ \A r, s \in Rule : r.id = s.id => r = s
    /\ \A r \in Rule :
         /\ r.status \in {"proposed", "backtested", "active"}
         /\ r.kind \in {"block", "shrink_toward_even", "flag_for_review", "require_evidence"}
         /\ r.id \in Nat /\ r.priority \in Nat /\ r.priority <= 100 /\ r.all \in BOOLEAN
         /\ r.magnitude \in 0..4
         /\ r.kind = "shrink_toward_even" => r.magnitude > 0
    /\ \A q \in Quote : \A s \in Scores[q] :
         s.over \in 0..One /\ s.push \in 0..One /\ s.width \in 0..One
    /\ \A q \in Quote : \A e \in Evidences[q] :
         /\ {e.games, e.starter, e.bench} \subseteq Nat
         /\ e.starter <= MaxMinutes /\ e.bench <= MaxMinutes
         /\ e.start \in 0..10 /\ e.delta \in Int
         /\ e.starterStd \in 2..14 /\ e.benchStd \in 2..14
         /\ e.role \in Nat \cup {Missing}
         /\ {e.matchup, e.teammate, e.prior, e.fitted} \subseteq BOOLEAN
         /\ e.injury \in {"available", "probable", "questionable", "doubtful", "unknown"}
         /\ {e.age, e.sources, e.restriction} \subseteq Nat \cup {Missing}
         /\ e.availability \in 0..100 /\ e.disagreement \in 0..100

VARIABLES
    incidents,  \* severities of the open calibration incidents of the champion
    next,       \* how many quotes of the board are done
    stage,      \* where the turn of the loop stands
    work,       \* the numbers of the current turn
    board       \* decision_episodes: the decision on each quote done

pricingVars == <<incidents, next, stage, work, board>>

-----------------------------------------------------------------------------
Half == One \div 2

\* A probability moved a number of quarters of the way to 1/2.
Toward(p, quarters) == Half + ((p - Half) * (4 - quarters)) \div 4

Clamp(p) == Max({0, Min({One, p})})

Side(over, under) == IF over >= under THEN "over" ELSE "under"

-----------------------------------------------------------------------------
(* Minutes.  A model is a starter's and a bench player's minutes, mixed by  *)
(* the chance (in tenths) of starting; "per" is the unit they are in.      *)

OnCourt(x) == Max({0, Min({MaxMinutes, x})})

Mean10(m) == m.start * m.starter + (10 - m.start) * m.bench

FromHistory(e) == [starter |-> e.starter, bench |-> e.bench, start |-> e.start, per |-> 1]

\* resolve_adjustments: the role's projection and what absent teammates move.
Asked(e) == IF e.role = Missing THEN Missing
            ELSE IF e.teammate THEN OnCourt(e.role + e.delta) ELSE OnCourt(e.role)

\* Mutation: a shift that leaves the court is cut off, not scaled.
ShiftCutOff(m, target) ==
    LET offset == 10 * target - Mean10(m)
    IN  [m EXCEPT !.per = 10,
                  !.starter = Max({0, Min({10 * MaxMinutes, 10 * @ + offset})}),
                  !.bench = Max({0, Min({10 * MaxMinutes, 10 * @ + offset})})]

\* shifted_to: both regimes move so that the mean is the target; where that
\* would leave a game's minutes they are scaled instead, up to a whole game.
Shift(m, target) ==
    LET offset  == 10 * target - Mean10(m)
        starter == 10 * m.starter + offset
        bench   == 10 * m.bench + offset
        mean    == Mean10(m)
    IN  IF {starter, bench} \subseteq 0..(10 * MaxMinutes)
          THEN [m EXCEPT !.per = 10, !.starter = starter, !.bench = bench]
        ELSE IF mean = 0 THEN [m EXCEPT !.starter = target, !.bench = target]
        ELSE [m EXCEPT !.per = mean, !.starter = Min({MaxMinutes * mean, 10 * target * @}),
                       !.bench = Min({MaxMinutes * mean, 10 * target * @})]

MinutesModel(e) == IF Asked(e) = Missing THEN FromHistory(e)
                   ELSE Shift(FromHistory(e), Asked(e))

\* _data_quality, in hundredths.
Quality(e) ==
    LET has(flag, weight) == IF flag THEN weight ELSE 0
    IN  (5 * Min({20, e.games}) + has(e.role # Missing, 30) + has(e.matchup, 25)
           + has(e.teammate, 15) + has(e.prior, 10) + has(Mean10(MinutesModel(e)) > 0, 20)) \div 2

\* MinutesModel.stddev: the variance within the regimes and between them, in
\* units of 10^-4 with the means taken to a tenth of a minute.
Variance(e, m) ==
    LET apart == (10 * m.starter) \div m.per - (10 * m.bench) \div m.per
    IN  1000 * (e.start * e.starterStd^2 + (10 - e.start) * e.benchStd^2)
          + e.start * (10 - e.start) * apart^2

\* Minutes known to a fifth: the deviation against the mean, both squared.
Steady(e) ==
    LET m    == MinutesModel(e)
        mean == Mean10([m EXCEPT !.starter = (10 * @) \div m.per, !.bench = (10 * @) \div m.per])
    IN  mean > 0 /\ 25 * Variance(e, m) <= mean^2

\* What the gate finds beside the probability.
Given(e) ==
    [injury |-> e.injury, age |-> e.age, sources |-> e.sources,
     availability |-> IF e.role = Missing THEN Missing ELSE e.availability,
     restriction |-> IF e.role = Missing THEN Missing ELSE e.restriction,
     steady |-> Steady(e), quality |-> Quality(e),
     disagreement |-> e.disagreement, fitted |-> e.fitted]

-----------------------------------------------------------------------------
(* score_prop.  The blend of the components and the calibration map are    *)
(* numerical: the answer is one of Scores.  What is not: the calibration   *)
(* moves the over alone, and the under is what it and the push leave.      *)

CalibratedUnder(s) == Clamp(One - s.over - s.push)

Selected(s) == Max({s.over, CalibratedUnder(s)})

Leaning(s) == Side(s.over, CalibratedUnder(s))

-----------------------------------------------------------------------------
(* The rule engine.                                                        *)

\* The facts a turn knows; what it could not observe is left out.
Facts(p, c) ==
    LET seen == {f \in {"availability", "sources"} : c[f] # Missing}
    IN  [f \in seen \cup {"probability"} |-> IF f = "probability" THEN p ELSE c[f]]

\* A condition on a missing fact fails.
Holds(cond, facts) ==
    /\ cond.field \in DOMAIN facts
    /\ CASE cond.op = "gte" -> facts[cond.field] >= cond.value
         [] cond.op = "lt"  -> facts[cond.field] < cond.value

Matches(r, facts) ==
    IF r.all THEN \A cond \in r.when : Holds(cond, facts)
             ELSE \E cond \in r.when : Holds(cond, facts)

\* Rules that run: priority first, then the identifier.
Before(r, s) == \/ r.priority > s.priority
                \/ r.priority = s.priority /\ r.id < s.id

\* Every order the same rules could run in.
Orders == SetToSeqs(Rule)

InOrder == CHOOSE order \in Orders :
              \A i, j \in DOMAIN order : i < j => Before(order[i], order[j])

\* Mutation: each rule is matched against the number the one before it left.
FireOnRunning(o, r, facts) ==
    IF r.status # "active" \/ ~Matches(r, [facts EXCEPT !.probability = o.p]) THEN o
    ELSE [o EXCEPT !.p = IF r.kind = "shrink_toward_even" THEN Toward(@, r.magnitude) ELSE @,
                   !.blocked = @ \/ r.kind = "block"]

\* Mutation: the shrink is applied twice as hard as it was approved.
FireHarder(o, r, facts) ==
    IF r.status # "active" \/ ~Matches(r, facts) THEN o
    ELSE [o EXCEPT !.p = IF r.kind = "shrink_toward_even" THEN Toward(@, 3 * r.magnitude) ELSE @,
                   !.blocked = @ \/ r.kind = "block"]

\* One rule; a shadow firing is scored, not applied, and a flag or a demand
\* for evidence is only noted.
Fire(o, r, facts) ==
    IF r.status # "active" \/ ~Matches(r, facts) THEN o
    ELSE [o EXCEPT !.p = IF r.kind = "shrink_toward_even" THEN Toward(@, r.magnitude) ELSE @,
                   !.blocked = @ \/ r.kind = "block"]

AfterRules(order, p, facts) ==
    LET after[k \in 0..Len(order)] ==
            IF k = 0 THEN [p |-> p, blocked |-> FALSE]
            ELSE Fire(after[k - 1], order[k], facts)
    IN  after[Len(order)]

-----------------------------------------------------------------------------
(* The drift guard: blocking outranks warning; one shrink for the run.     *)

GuardQuarters == IF "blocking" \in incidents THEN 2
                 ELSE IF "warning" \in incidents THEN 1 ELSE 0

Guarded(p) == Toward(p, GuardQuarters)

-----------------------------------------------------------------------------
(* decide_candidate.                                                       *)

\* The gates before the arithmetic, in their order.
Blocks(blocked, c) ==
    IF blocked \/ c.injury \in {"questionable", "doubtful", "unknown"}
      THEN {"blocked_by_skeptic"}
    ELSE IF c.age = Missing \/ c.age > 30 THEN {"blocked_stale_quote"}
    ELSE IF c.availability = Missing \/ c.availability < 90 THEN {"blocked_by_skeptic"}
    ELSE IF c.sources = Missing \/ c.sources < 2 THEN {"blocked_data_quality"}
    ELSE IF c.restriction # Missing /\ c.restriction > 20 THEN {"blocked_by_skeptic"}
    ELSE IF ~c.steady THEN {"blocked_calibration"}
    ELSE IF ~c.fitted THEN {"blocked_calibration"}
    ELSE IF c.quality < 85 THEN {"blocked_data_quality"}
    ELSE IF c.disagreement > 12 THEN {"blocked_calibration"}
    ELSE {}

\* Mutation: the gate is put to the number before shrinkage and interval.
DecideOnRaw(over, under, width, blocked, c) ==
    LET raw    == Max({over, under})
        shrunk == Toward(raw, 4 - Factor)
        lower  == Max({0, shrunk - width})
        why    == Blocks(blocked, c)
    IN  [side |-> Side(over, under), raw |-> raw, lower |-> lower,
         status |-> IF why # {} THEN CHOOSE w \in why : TRUE
                    ELSE IF raw < Breakeven + Margin THEN "declined_no_edge"
                    ELSE "candidate"]

\* width is the one-sided 95% allowance for the disagreement of the
\* components and the sample behind the shrinkage.
Decide(over, under, width, blocked, c) ==
    LET raw    == Max({over, under})
        shrunk == Toward(raw, 4 - Factor)
        lower  == Max({0, shrunk - width})
        why    == Blocks(blocked, c)
    IN  [side |-> Side(over, under), raw |-> raw, lower |-> lower,
         status |-> IF why # {} THEN CHOOSE w \in why : TRUE
                    ELSE IF lower < Breakeven + Margin THEN "declined_no_edge"
                    ELSE "candidate"]

\* How the run hands the guarded number over: the side it leaned to, and for
\* the other whatever is left of 1.
Decision(side, p, width, blocked, c) ==
    Decide(IF side = "over" THEN p ELSE One - p,
           IF side = "under" THEN p ELSE One - p, width, blocked, c)

-----------------------------------------------------------------------------
NoWork == [score |-> [over |-> 0, push |-> 0, width |-> 0], side |-> "over",
           p |-> 0, blocked |-> FALSE, given |-> 0, evidence |-> 0]

NoDecision == [side |-> "over", raw |-> 0, lower |-> 0, status |-> "none"]

PricingInit ==
    /\ incidents \in SUBSET {"warning", "blocking"}
    /\ next = 0 /\ stage = "board"
    /\ work = NoWork
    /\ board = [q \in Quote |-> NoDecision]

Current == Queue[next + 1]

\* score_prop, and what the gate will find.
Score ==
    /\ stage = "board" /\ next < Len(Queue)
    /\ \E s \in Scores[Current], e \in Evidences[Current] :
         work' = [score |-> s, side |-> Leaning(s), p |-> Selected(s),
                  blocked |-> FALSE, given |-> Given(e), evidence |-> e]
    /\ stage' = "scored"
    /\ UNCHANGED <<incidents, next, board>>

\* evaluate_rules on the probability of the side the forecast leans to.
ApplyRules ==
    /\ stage = "scored"
    /\ LET o == AfterRules(InOrder, work.p, Facts(work.p, work.given))
       IN  work' = [work EXCEPT !.p = o.p, !.blocked = o.blocked]
    /\ stage' = "ruled"
    /\ UNCHANGED <<incidents, next, board>>

\* The drift guard, the gate, and the episode.
Conclude ==
    /\ stage = "ruled"
    /\ board' = [board EXCEPT ![Current] =
                   Decision(work.side, Guarded(work.p), work.score.width, work.blocked, work.given)]
    /\ stage' = "decided"
    /\ UNCHANGED <<incidents, next, work>>

\* The next quote of the board.
Advance ==
    /\ stage = "decided"
    /\ next' = next + 1
    /\ stage' = "board"
    /\ work' = NoWork
    /\ UNCHANGED <<incidents, board>>

PricingNext == Score \/ ApplyRules \/ Conclude \/ Advance

-----------------------------------------------------------------------------
PricingTypeOK ==
    /\ next \in 0..Len(Queue)
    /\ stage \in {"board", "scored", "ruled", "decided"}
    /\ work.p \in 0..One /\ work.blocked \in BOOLEAN
    /\ work.side \in {"over", "under"}
    /\ \A q \in Quote : /\ board[q].raw \in 0..One /\ board[q].lower \in 0..One
                        /\ board[q].side \in {"over", "under"}

\* What the same quote would be called with no rule and no incident.
Unrestricted == Decision(work.side, Selected(work.score), work.score.width, FALSE, work.given)

\* Rules, drift guard and gate only restrict: while the forecast favours its
\* side at all, what is recorded keeps the side, claims no more than the
\* calibrated number, and is a candidate only if it had been one without them.
RestrictionsOnlyRestrict ==
    stage = "decided" /\ Selected(work.score) >= Half =>
        LET d == board[Current]
        IN  /\ d.side = Leaning(work.score) \/ d.raw = Half
            /\ d.raw <= Selected(work.score)
            /\ d.status = "candidate" => Unrestricted.status = "candidate"

\* "keep the mean it was asked for, because the mean is what the role model
\* actually knows" (minutes.py): shifted or scaled, the two regimes mix to the
\* minutes asked for, and never to more.  They mix to less only where one of
\* them plays the whole game already.
ProjectedMinutesAreKept ==
    stage = "scored" =>
        LET e    == work.evidence
            m    == MinutesModel(e)
            kept == 10 * m.per * Asked(e)
        IN  Asked(e) # Missing =>
                \/ Mean10(m) = kept
                \/ Mean10(m) < kept /\ MaxMinutes * m.per \in {m.starter, m.bench}

\* "composition converges instead of oscillating -- which is why the ordering
\* is a readability concern rather than a correctness one" (engine.py).
RuleOrderIsImmaterial ==
    stage = "scored" =>
        \A order \in Orders :
            AfterRules(order, work.p, Facts(work.p, work.given)) =
            AfterRules(InOrder, work.p, Facts(work.p, work.given))

\* "Nothing in that chain can make a forecast more confident than the
\* arithmetic supports" (baseline.py), and no branch "promotes a forecast the
\* arithmetic did not support" (selection.py): a candidate's side is not
\* given more than the calibrated distribution gives it.
NeverMoreConfident ==
    stage = "decided" /\ board[Current].status = "candidate" =>
        LET d == board[Current]
        IN  d.raw <= IF d.side = "over" THEN work.score.over ELSE CalibratedUnder(work.score)
=============================================================================
