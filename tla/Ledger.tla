------------------------------- MODULE Ledger -------------------------------
(***************************************************************************)
(* The market ledger and the identities it rests on: polls of Underdog's   *)
(* board, the archive of quotes they append to, the games and players that *)
(* Underdog and ESPN each enrol under ids of their own, the owner's merges *)
(* of players by name, and the legacy quotes that are matched with games.  *)
(*                                                                         *)
(* A poll takes its timestamp, waits for the source, reads the tables and  *)
(* commits; an ESPN job does the same.  What either finds missing it adds  *)
(* under an id computed from its own source's id, so the two agree on a    *)
(* game only as far as one of them finds the row of the other.             *)
(***************************************************************************)
EXTENDS Integers, FiniteSets, Sequences, SequencesExt, FiniteSetsExt

CONSTANTS
    Poller,        \* processes that may poll at a time: the timer, the owner
    Market,        \* lines of the board, each with a source quote id
    Person, PersonOf,   \* whom a market is about
    Prop, PropOf,       \* and which statistic: several lines may share both
    Game, GameOf,
    NameOf,        \* [Person -> name], normalised
    Roster,        \* [Game -> SUBSET Person]: who is in the box score
    Franchise, Teams,   \* [Game -> SUBSET Franchise]
    Known,         \* franchises the time zone tables have
    Established,   \* franchises ESPN has enrolled before
    OldRows,       \* quotes archived before games were enrolled
    Event, EventOf,     \* a legacy row belongs to an event
    LegacyRow, LegacyName,
    Near,          \* [Event -> SUBSET Game]: tip off within 72 hours of it
    Price, Shows,  \* [Market -> what it may show]: prices or "malformed"
    None,
    MaxTries,      \* PoliteClient.max_attempts
    Window,        \* ten minutes, in the unit of the schedule
    Times,         \* scheduled tipoffs, in that unit
    Announced,     \* [Game -> Times]: when it is first scheduled
    MaxMoves,      \* bound: changes of the board
    MaxChanges,    \* bound: schedule changes
    Movable        \* bound: the games whose time may change

ASSUME LedgerAssumption ==
    /\ PersonOf \in [Market -> Person] /\ PropOf \in [Market -> Prop]
    /\ GameOf \in [Market -> Game] /\ Roster \in [Game -> SUBSET Person]
    /\ Teams \in [Game -> SUBSET Franchise]
    /\ EventOf \in [LegacyRow -> Event] /\ Near \in [Event -> SUBSET Game]
    /\ Window \in Nat /\ Times \subseteq Int /\ MaxTries \in Nat \ {0}
    /\ Shows \in [Market -> SUBSET (Price \cup {"malformed"})]
    /\ Announced \in [Game -> Times] /\ None \notin Times
    /\ OldRows \subseteq [market : Market, price : Price, updated : {0}, seen : {0},
                          game : {None}, locks : {None}]
    /\ IsFiniteSet(Person) /\ IsFiniteSet(Game) /\ {MaxMoves, MaxChanges} \subseteq Nat

VARIABLES
    clock, feed, slate, moves, changes,    \* the world
    teams, games, players, quotes, quarantine,   \* the ledger's tables
    merged,        \* player_merges: from Underdog's player to ESPN's
    lines,         \* box score lines: <<person, game id>>
    legacy, mapping, history,   \* legacy rows, event mappings, their quotes
    poll, espn     \* what each process is doing

world == <<clock, feed, slate, moves, changes>>
identity == <<teams, games, players, merged, lines>>
archive == <<quotes, quarantine>>
staging == <<legacy, mapping, history>>
vars == <<world, identity, archive, staging, poll, espn>>

-----------------------------------------------------------------------------
Source == {"underdog", "espn"}

\* uuid5 of a source's own id: the same on every run.
GameId == Source \X Game
PlayerId == Source \X Person

ASSUME NullAssumption == None \notin GameId

\* A line as the board shows it: a price, one the parser rejects, or none.
Offer == [price : Price \cup {"malformed", "absent"}, updated : Nat]
Parsed(board) == {m \in Market : board[m].price \in Price}
Rejected(board) == {m \in Market : board[m].price = "malformed"}

\* A row of prop_quotes; its game and its lock are null in the oldest.
QuoteRow == [market : Market, price : Price, updated : Nat, seen : Nat,
             game : GameId \cup {None}, locks : Times \cup {None}]

-----------------------------------------------------------------------------
(* Finding a game.                                                         *)

Distance(i, t) == IF games[i] > t THEN games[i] - t ELSE t - games[i]
Candidates(g, t) ==
    {i \in GameId : i[2] = g /\ games[i] # None /\ Distance(i, t) <= Window}

\* The nearest row of the same teams within ten minutes, or else the id this
\* source would give it.
Bind(src, g, t) ==
    IF Candidates(g, t) = {} THEN {<<src, g>>}
    ELSE {i \in Candidates(g, t) :
            \A j \in Candidates(g, t) : Distance(i, t) <= Distance(j, t)}

-----------------------------------------------------------------------------
Idle == [pc |-> "idle"]

Init ==
    /\ clock = 1 /\ moves = 0 /\ changes = 0
    /\ feed = [m \in Market |-> [price |-> "absent", updated |-> 0]]
    /\ slate = [s \in Source |-> Announced]
    /\ teams = [f \in Franchise |-> IF f \in Established THEN "espn" ELSE "none"]
    /\ games = [i \in GameId |-> None]
    /\ players = {} /\ lines = {} /\ merged = [p \in Person |-> None]
    /\ quotes = OldRows /\ quarantine = {}
    /\ legacy = {} /\ history = {}
    /\ mapping = [e \in Event |-> None]
    /\ poll = [p \in Poller |-> Idle] /\ espn = Idle

-----------------------------------------------------------------------------
(* The world.                                                              *)

\* A line moves, is withdrawn, or comes back; the source dates the change.
MoveLine(m) ==
    /\ moves < MaxMoves
    /\ \E p \in Shows[m] \cup {"absent"} :
         /\ p # feed[m].price
         /\ feed' = [feed EXCEPT ![m] = [price |-> p, updated |-> clock + 1]]
    /\ moves' = moves + 1 /\ clock' = clock + 1
    /\ UNCHANGED <<slate, changes, identity, archive, staging, poll, espn>>

\* A source changes the time of a game.
Reschedule(s, g) ==
    /\ changes < MaxChanges
    /\ \E t \in Times \ {slate[s][g]} : slate' = [slate EXCEPT ![s][g] = t]
    /\ changes' = changes + 1
    /\ UNCHANGED <<clock, feed, moves, identity, archive, staging, poll, espn>>

-----------------------------------------------------------------------------
(* One poll.                                                               *)

Unread == UNCHANGED <<feed, slate, moves, changes, identity, archive, staging, espn>>

\* Mutation: the time is taken once, when the process is loaded.
StartPollAsLoaded(p) ==
    /\ poll[p] = Idle
    /\ poll' = [poll EXCEPT ![p] = [pc |-> "asking", seen |-> 1, tries |-> 1]]
    /\ Unread /\ UNCHANGED clock

\* run_archiver takes the time first; two polls never take the same one.
StartPoll(p) ==
    /\ poll[p] = Idle
    /\ LET now == IF \/ \E q \in quotes : q.seen = clock
                     \/ \E q \in Poller : poll[q] # Idle /\ poll[q].seen = clock
                  THEN clock + 1 ELSE clock
       IN  /\ clock' = now
           /\ poll' = [poll EXCEPT ![p] = [pc |-> "asking", seen |-> now, tries |-> 1]]
    /\ Unread

\* get_json: an answer ends the loop, a challenge or a refusal ends the poll,
\* anything else is asked again after a pause until the attempts run out.
Answered(p) ==
    /\ poll[p].pc = "asking"
    /\ poll' = [poll EXCEPT ![p] =
                  [pc |-> "resolving", seen |-> @.seen, board |-> feed,
                   times |-> slate["underdog"]]]
    /\ Unread /\ UNCHANGED clock

NotAnswered(p) ==
    /\ poll[p].pc = "asking"
    /\ \/ poll' = [poll EXCEPT ![p] = Idle]    \* a challenge, 401 or 403
       \/ poll' = [poll EXCEPT ![p] =          \* 429, 5xx, transport, not JSON
                     IF @.tries = MaxTries THEN Idle ELSE [poll[p] EXCEPT !.tries = @ + 1]]
    /\ Unread /\ UNCHANGED clock

\* A board without a line of ours is put aside.
PutAside(p) ==
    /\ poll[p].pc = "resolving" /\ Parsed(poll[p].board) = {}
    /\ quarantine' = quarantine \cup {"empty"}
    /\ poll' = [poll EXCEPT ![p] = Idle]
    /\ UNCHANGED <<world, identity, quotes, staging, espn>>

PolledGames(p) == {GameOf[m] : m \in Parsed(poll[p].board)}
TeamsOf(gs) == UNION {Teams[g] : g \in gs}

\* A team the tables do not know raises ValueError, which nothing catches: the
\* transaction rolls back.
UnknownTeam(p) ==
    /\ poll[p].pc = "resolving"
    /\ ~(TeamsOf(PolledGames(p)) \subseteq Known)
    /\ poll' = [poll EXCEPT ![p] = Idle]
    /\ Unread /\ UNCHANGED clock

\* The lookups of the transaction: what it finds decides what it will add.
Resolve(p) ==
    /\ poll[p].pc = "resolving"
    /\ PolledGames(p) # {} /\ TeamsOf(PolledGames(p)) \subseteq Known
    /\ LET b == poll[p] IN
       \E f \in [PolledGames(p) -> GameId] :
         /\ \A g \in PolledGames(p) : f[g] \in Bind("underdog", g, b.times[g])
         /\ poll' = [poll EXCEPT ![p] =
              [pc |-> "writing", seen |-> b.seen, board |-> b.board,
               times |-> b.times, found |-> f,
               minted |-> {t \in TeamsOf(PolledGames(p)) : teams[t] = "none"}]]
    /\ Unread /\ UNCHANGED clock

QuoteOf(b, m) ==
    [market |-> m, price |-> b.board[m].price, updated |-> b.board[m].updated,
     seen |-> b.seen, game |-> b.found[GameOf[m]], locks |-> b.times[GameOf[m]]]

\* prop_quotes_source_state_uq, and prop_quotes_snapshot_uq within one poll.
SameState(q, r) == q.market = r.market /\ q.price = r.price /\ q.updated = r.updated
SameInstant(q, r) == PersonOf[q.market] = PersonOf[r.market]
                     /\ PropOf[q.market] = PropOf[r.market]

\* Lines whose state no row of the archive has.
Fresh(b) == {m \in Parsed(b.board) : ~\E r \in quotes : SameState(QuoteOf(b, m), r)}

\* The rows one poll adds: each line in the payload's order, unless a row is
\* in its way.
Added(b, order) ==
    LET new == {i \in DOMAIN order : order[i] \in Fresh(b)}
        Earliest(i) == \A j \in new : j < i => ~SameInstant(QuoteOf(b, order[j]), QuoteOf(b, order[i]))
    IN  {QuoteOf(b, order[i]) : i \in {j \in new : Earliest(j)}}

\* Mutation: the update forgets that only nulls are filled in.
EnrichedAgain(rows, b) ==
    {IF q.market \in Parsed(b.board)
     THEN [q EXCEPT !.game = b.found[GameOf[q.market]],
                    !.locks = b.times[GameOf[q.market]]]
     ELSE q : q \in rows}

\* enrich_quote_game_ids: only a null is filled in.
Enriched(rows, b) ==
    {IF q.market \in Parsed(b.board) /\ (q.game = None \/ q.locks = None)
     THEN [q EXCEPT !.game = b.found[GameOf[q.market]],
                    !.locks = b.times[GameOf[q.market]]]
     ELSE q : q \in rows}

\* Mutation: quotes are written under games nobody has added.
EnrolledLater(f, times) == games

\* ON CONFLICT (game_id) DO NOTHING against DO UPDATE.
Enrolled(f, times) ==
    [i \in GameId |-> IF i \in Range(f) /\ games[i] = None THEN times[i[2]] ELSE games[i]]

\* A team somebody else has added meanwhile is a duplicate abbreviation.
Minted(b) == \A t \in b.minted : teams[t] = "none"

Orders(b) == SetToSeqs(Parsed(b.board))

Store(p) ==
    /\ poll[p].pc = "writing" /\ Minted(poll[p])
    /\ LET b == poll[p] IN
       /\ teams' = [t \in Franchise |-> IF t \in b.minted THEN "underdog" ELSE teams[t]]
       /\ games' = Enrolled(b.found, b.times)
       /\ players' = players \cup {<<"underdog", PersonOf[m]>> : m \in Parsed(b.board)}
       /\ \E order \in Orders(b) : quotes' = Enriched(quotes \cup Added(b, order), b)
       /\ quarantine' = quarantine \cup (IF Rejected(b.board) = {} THEN {} ELSE {"rejects"})
    /\ poll' = [poll EXCEPT ![p] = Idle]
    /\ UNCHANGED <<world, merged, lines, staging, espn>>

TeamTaken(p) ==
    /\ poll[p].pc = "writing" /\ ~Minted(poll[p])
    /\ poll' = [poll EXCEPT ![p] = Idle]
    /\ Unread /\ UNCHANGED clock

-----------------------------------------------------------------------------
(* The ESPN jobs: the odds snapshot registers a date's games, the          *)
(* ingestion of a finished date stores box scores too.  A date has one     *)
(* game here.                                                              *)

EspnRead ==
    /\ espn = Idle
    /\ \E g \in Game : \E i \in Bind("espn", g, slate["espn"][g]) :
         /\ Teams[g] \subseteq Known    \* exhibitions are left out
         /\ espn' = [pc |-> "writing", found |-> i, at |-> slate["espn"][g]]
    /\ UNCHANGED <<world, identity, archive, staging, poll>>

\* The id of a franchise Underdog enrolled first is not ESPN's, and its
\* abbreviation is taken: the insert raises and the job is lost.
Taken == {t \in Franchise : teams[t] = "underdog"}

EspnWrite ==
    /\ espn.pc = "writing"
    /\ LET i == espn.found  ts == Teams[i[2]] IN
       /\ ts \cap Taken = {}
       /\ teams' = [t \in Franchise |-> IF t \in ts THEN "espn" ELSE teams[t]]
       /\ games' = [games EXCEPT ![i] = espn.at]
       /\ \/ UNCHANGED <<lines, players>>
          \/ /\ lines' = lines \cup (Roster[i[2]] \X {i})
             /\ players' = players \cup ({"espn"} \X Roster[i[2]])
    /\ espn' = Idle
    /\ UNCHANGED <<world, merged, archive, staging, poll>>

EspnRefused ==
    /\ espn.pc = "writing" /\ Teams[espn.found[2]] \cap Taken # {}
    /\ espn' = Idle
    /\ UNCHANGED <<world, identity, archive, staging, poll>>

\* Any process may be killed; what it has not committed is gone.
Killed ==
    /\ \/ espn # Idle /\ espn' = Idle /\ UNCHANGED poll
       \/ \E p \in Poller : /\ poll[p] # Idle
                            /\ poll' = [poll EXCEPT ![p] = Idle]
                            /\ UNCHANGED espn
    /\ UNCHANGED <<world, identity, archive, staging>>

-----------------------------------------------------------------------------
(* The owner's and the timer's reviews.                                    *)

Namesakes(u) == {e \in Person : <<"espn", e>> \in players /\ NameOf[e] = NameOf[u]}

\* approve_unique_exact_names: what already has a merge keeps it.
ApproveNames ==
    /\ merged' = [u \in Person |->
         IF /\ <<"underdog", u>> \in players /\ merged[u] = None
            /\ Cardinality(Namesakes(u)) = 1
         THEN CHOOSE e \in Namesakes(u) : TRUE ELSE merged[u]]
    /\ UNCHANGED <<world, teams, games, players, lines, archive, staging, poll, espn>>

\* An archive is imported whole, row by row as far as it is new; one of another
\* shape is refused and changes nothing.
ImportLegacy ==
    /\ legacy' = legacy \cup LegacyRow
    /\ UNCHANGED <<world, identity, archive, mapping, history, poll, espn>>

\* Rows of wnba.players with a name, of either source.
Holders(n) == {i \in players : NameOf[i[2]] = n}

Resolved(e) ==
    {i \in players : \E l \in legacy : /\ EventOf[l] = e
                                       /\ Holders(LegacyName[l]) = {i}}

\* Both sources' players have ids of their own; box scores cite ESPN's.
Overlap(e, i) == Cardinality({r \in Resolved(e) : r[1] = "espn" /\ <<r[2], i>> \in lines})

EventGames(e) == {i \in GameId : games[i] # None /\ i[2] \in Near[e] /\ Overlap(e, i) > 0}

\* Mutation: the runner-up is not looked at.
ChooseFirst(overlap) ==
    IF overlap = <<>> THEN {None}
    ELSE {IF overlap[c] < 2 THEN None ELSE c :
            c \in {d \in DOMAIN overlap : \A i \in DOMAIN overlap : overlap[i] <= overlap[d]}}

\* choose_game, as it is written: sort by overlap, look at the first two.
ChooseGame(overlap) ==
    IF overlap = <<>> THEN {None}
    ELSE LET ordered == {s \in SetToSeqs(DOMAIN overlap) :
                           \A k \in 1..(Len(s) - 1) : overlap[s[k]] >= overlap[s[k + 1]]}
         IN  {IF \/ overlap[s[1]] < 2
                 \/ Len(s) > 1 /\ overlap[s[2]] = overlap[s[1]]
              THEN None ELSE s[1] : s \in ordered}

MatchesOf(e) == ChooseGame([i \in EventGames(e) |-> Overlap(e, i)])

\* Every event is mapped again; the quotes of the resolved ones are added,
\* unless they were before.
NormalizeHistory ==
    /\ LET matches == [e \in Event |-> MatchesOf(e)] IN
       \E c \in [Event -> UNION Range(matches)] :
         /\ \A e \in Event : c[e] \in matches[e]
         /\ mapping' = [e \in Event |-> IF \E l \in legacy : EventOf[l] = e
                                        THEN c[e] ELSE mapping[e]]
    /\ history' = history \cup
         {[row |-> l, game |-> mapping'[EventOf[l]]] : l \in
            {l \in legacy : /\ mapping'[EventOf[l]] # None
                            /\ Cardinality(Holders(LegacyName[l])) = 1
                            /\ \A h \in history : h.row # l}}
    /\ UNCHANGED <<world, identity, archive, legacy, poll, espn>>

-----------------------------------------------------------------------------
Next ==
    \/ \E m \in Market : MoveLine(m)
    \/ \E s \in Source, g \in Movable : Reschedule(s, g)
    \/ \E p \in Poller : StartPoll(p) \/ Answered(p) \/ NotAnswered(p)
                         \/ PutAside(p) \/ UnknownTeam(p) \/ Resolve(p)
                         \/ Store(p) \/ TeamTaken(p)
    \/ EspnRead \/ EspnWrite \/ EspnRefused \/ Killed
    \/ ApproveNames \/ ImportLegacy \/ NormalizeHistory

Spec == Init /\ [][Next]_vars

-----------------------------------------------------------------------------
IsPoll(r) ==
    \/ r = Idle
    \/ r \in [pc : {"asking"}, seen : Nat, tries : 1..MaxTries]
    \/ r \in [pc : {"resolving"}, seen : Nat, board : [Market -> Offer],
             times : [Game -> Times]]
    \/ /\ r.pc = "writing" /\ r.seen \in Nat /\ r.board \in [Market -> Offer]
       /\ r.times \in [Game -> Times] /\ r.minted \subseteq Franchise
       /\ DOMAIN r.found \subseteq Game /\ Range(r.found) \subseteq GameId

\* The tables hold rows of their shape, and a quote that is not one of the
\* oldest names a game and a player the ledger has (prop_quotes' foreign keys,
\* which run_archiver resolves before it writes any quote).
TypeOK ==
    /\ clock \in Nat /\ moves \in 0..MaxMoves /\ changes \in 0..MaxChanges
    /\ feed \in [Market -> Offer] /\ slate \in [Source -> [Game -> Times]]
    /\ teams \in [Franchise -> Source \cup {"none"}]
    /\ games \in [GameId -> Times \cup {None}]
    /\ players \subseteq PlayerId /\ lines \subseteq Person \X GameId
    /\ merged \in [Person -> Person \cup {None}]
    /\ quotes \subseteq QuoteRow /\ quarantine \subseteq {"empty", "rejects"}
    /\ legacy \subseteq LegacyRow /\ mapping \in [Event -> GameId \cup {None}]
    /\ history \subseteq [row : LegacyRow, game : GameId]
    /\ \A p \in Poller : IsPoll(poll[p])
    /\ \A q \in quotes : q.game # None =>
         games[q.game] # None /\ <<"underdog", PersonOf[q.market]>> \in players

\* The forecast run takes the newest snapshot of a quote by system_from, so the
\* order in which states were seen must be the order in which the source made
\* them (archiver.py's "updated_at ... defines a market change").  One poller.
ArchiveFollowsTheBoard ==
    \A q, r \in quotes :
        q.market = r.market /\ q.updated < r.updated => q.seen < r.seen

\* An archived quote is append-only: nobody takes it away, re-dates it or moves
\* it to another game or lock than it was first given, whatever the schedule
\* does later (enrich_quote_game_ids, record_quotes).
QuotesStand ==
    [][\A q \in quotes : \E r \in quotes' :
         /\ [r EXCEPT !.game = q.game, !.locks = q.locks] = q
         /\ q.game # None => r.game = q.game
         /\ q.locks # None => r.locks = q.locks]_vars

\* A legacy event is mapped to a game only if it shares two players with it and
\* fewer with every other game in reach (choose_game), split rows included.
MappedGamesAreUnambiguous ==
    [][\A e \in Event : mapping'[e] \notin {None, mapping[e]} =>
         /\ Overlap(e, mapping'[e]) >= 2
         /\ \A i \in EventGames(e) \ {mapping'[e]} :
               Overlap(e, i) < Overlap(e, mapping'[e])]_vars

\* One game, one row: what Underdog has enrolled is what ESPN's final is written
\* to ("Reuse that canonical object instead of creating a parallel game that can
\* never settle its quotes", espn.py).  The code does not keep it.
NoGameIsSplit ==
    \A g \in Game : Cardinality({s \in Source : games[<<s, g>>] # None}) <= 1
=============================================================================
