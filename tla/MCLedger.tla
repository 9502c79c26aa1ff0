------------------------------ MODULE MCLedger ------------------------------
(* Instances of Ledger: one line, a line of a game whose guests nobody knows,  *)
(* and an event with the legacy quotes of two players.                        *)
EXTENDS Ledger

CONSTANTS m, x, a, d, c, g, h, k, e

OfA == [y \in Market |-> a]
Points == [y \in Market |-> "points"]
Games == [y \in Market |-> IF y = x THEN h ELSE g]
Names == [y \in Person |-> y]
Both == [y \in Game |-> Person]
Sides == [y \in Game |-> CASE y = g -> {"old", "new"} [] y = h -> {"guest"} [] y = k -> {"old"}]
Shown == [y \in Market |-> IF y = m THEN Price ELSE {"even", "malformed"}]
First == [y \in Game |-> 0]

\* Bound: legacy quotes are imported while the board has moved at most once, and
\* it stands from then on.
QuietImport == legacy' # {} => moves' = moves /\ moves <= 1

OneEvent == [y \in LegacyRow |-> e]
Rows == [y \in LegacyRow |-> y]
InReach == [y \in Event |-> Game]
Untied == {[market |-> m, price |-> "even", updated |-> 0, seen |-> 0,
            game |-> None, locks |-> None]}
=============================================================================
