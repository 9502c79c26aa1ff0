---------------------------- MODULE LedgerProofs ----------------------------
(***************************************************************************)
(* Theorems about Ledger, for every number of processes, lines, games,     *)
(* players, times and events, and about Monitor, which watches over it,    *)
(* for every set of checks and every number of errors and deaths.          *)
(*                                                                         *)
(* A quote cites rows that exist because a poll writes what it found and   *)
(* what it adds in one commit, and nobody deletes.  Snapshots are in the   *)
(* order of the board because one poll takes its time after the last one   *)
(* committed and its board after its time.                                 *)
(***************************************************************************)
EXTENDS Ledger, Monitor, FiniteSetTheorems, WellFoundedInduction, TLAPS

-----------------------------------------------------------------------------
(* The invariant.                                                          *)

WorldInv ==
    /\ clock \in Nat /\ moves \in 0..MaxMoves /\ changes \in 0..MaxChanges
    /\ feed \in [Market -> Offer] /\ slate \in [Source -> [Game -> Times]]

IdentityInv ==
    /\ teams \in [Franchise -> Source \cup {"none"}]
    /\ games \in [GameId -> Times \cup {None}]
    /\ players \subseteq PlayerId /\ lines \subseteq Person \X GameId
    /\ merged \in [Person -> Person \cup {None}]

\* A quote's game and lock are null together, and the rows it cites exist.
CitesKnown(q) ==
    q.game # None => games[q.game] # None /\ <<"underdog", PersonOf[q.market]>> \in players

ArchiveInv ==
    /\ quotes \subseteq QuoteRow /\ quarantine \subseteq {"empty", "rejects"}
    /\ \A q \in quotes : (q.game = None <=> q.locks = None) /\ CitesKnown(q)

StagingInv ==
    /\ legacy \subseteq LegacyRow /\ mapping \in [Event -> GameId \cup {None}]
    /\ history \subseteq [row : LegacyRow, game : GameId]

\* A poll that is about to write has found a row for each of its games.
PollOK(r) ==
    /\ IsPoll(r)
    /\ r.pc = "writing" => DOMAIN r.found = {GameOf[m] : m \in Parsed(r.board)}

EspnOK == espn = Idle \/ espn \in [pc : {"writing"}, found : GameId, at : Times]

ProcessInv == poll = [p \in Poller |-> poll[p]] /\ (\A p \in Poller : PollOK(poll[p])) /\ EspnOK

TypeInv == WorldInv /\ IdentityInv /\ ArchiveInv /\ StagingInv /\ ProcessInv

LEMMA TypeInvMeans == TypeInv => TypeOK
  BY DEF TypeInv, TypeOK, WorldInv, IdentityInv, ArchiveInv, StagingInv, ProcessInv, PollOK, CitesKnown

-----------------------------------------------------------------------------
(* A poll.                                                                 *)

Asking == [pc : {"asking"}, seen : Nat, tries : 1..MaxTries]
Resolving == [pc : {"resolving"}, seen : Nat, board : [Market -> Offer], times : [Game -> Times]]
Writing(r) ==
    /\ r.pc = "writing" /\ r.seen \in Nat /\ r.board \in [Market -> Offer]
    /\ r.times \in [Game -> Times] /\ r.minted \subseteq Franchise
    /\ DOMAIN r.found = {GameOf[m] : m \in Parsed(r.board)} /\ Range(r.found) \subseteq GameId

LEMMA PollStages ==
    ASSUME NEW r, PollOK(r)
    PROVE  /\ r.pc = "asking" => r \in Asking
           /\ r.pc = "resolving" => r \in Resolving
           /\ r.pc = "writing" => Writing(r)
           /\ r # Idle => r.pc \in {"asking", "resolving", "writing"} /\ r.seen \in Nat
<1>1. CASE r = Idle
  BY <1>1 DEF Idle
<1>2. CASE r \in Asking
  BY <1>2 DEF Asking
<1>3. CASE r \in Resolving
  BY <1>3 DEF Resolving
<1>4. CASE Writing(r)
  BY <1>4 DEF Writing
<1> QED  BY <1>1, <1>2, <1>3, <1>4 DEF PollOK, IsPoll, Asking, Resolving, Writing

LEMMA PollsAre ==
    /\ PollOK(Idle)
    /\ \A r \in Asking : PollOK(r) /\ r.pc = "asking"
    /\ \A r \in Resolving : PollOK(r) /\ r.pc = "resolving"
    /\ \A r : Writing(r) => PollOK(r)
<1>1. PollOK(Idle)
  BY DEF PollOK, IsPoll, Idle
<1>2. \A r \in Asking : PollOK(r) /\ r.pc = "asking"
  BY DEF PollOK, IsPoll, Asking
<1>3. \A r \in Resolving : PollOK(r) /\ r.pc = "resolving"
  BY DEF PollOK, IsPoll, Resolving
<1>4. \A r : Writing(r) => PollOK(r)
  <2> SUFFICES ASSUME NEW r, Writing(r) PROVE PollOK(r)
    OBVIOUS
  <2>1. {GameOf[m] : m \in Parsed(r.board)} \subseteq Game
    BY LedgerAssumption DEF Parsed
  <2> QED  BY <2>1 DEF PollOK, IsPoll, Writing
<1> QED  BY <1>1, <1>2, <1>3, <1>4

LEMMA BindIsId ==
    ASSUME NEW src \in Source, NEW g \in Game, NEW t
    PROVE  Bind(src, g, t) \subseteq GameId
  BY DEF Bind, Candidates, GameId

LEMMA PolledAreGames ==
    ASSUME NEW board
    PROVE  {GameOf[m] : m \in Parsed(board)} \subseteq Game
  BY LedgerAssumption DEF Parsed

\* Process p goes on with r; at most its own counters and the quarantine change.
PollMoves(p, r) ==
    /\ PollOK(r) /\ poll' = [poll EXCEPT ![p] = r]
    /\ UNCHANGED <<feed, slate, moves, changes, identity, quotes, staging, espn>>
    /\ clock' \in {clock, clock + 1} /\ quarantine' \subseteq {"empty", "rejects"}

\* The steps of a poll before its commit.
PollStep(p) ==
    StartPoll(p) \/ Answered(p) \/ NotAnswered(p) \/ PutAside(p)
    \/ UnknownTeam(p) \/ Resolve(p) \/ TeamTaken(p)

LEMMA PollStepMoves ==
    ASSUME TypeInv, NEW p \in Poller, PollStep(p)
    PROVE  \E r : PollMoves(p, r)
<1>0. /\ PollOK(poll[p]) /\ clock \in Nat
      /\ quarantine \subseteq {"empty", "rejects"}
      /\ feed \in [Market -> Offer] /\ slate["underdog"] \in [Game -> Times]
  BY DEF TypeInv, ProcessInv, WorldInv, ArchiveInv, Source
<1>1. CASE StartPoll(p)
  <2>1. PICK now : /\ now = clock \/ now = clock + 1
                   /\ clock' = now
                   /\ poll' = [poll EXCEPT ![p] = [pc |-> "asking", seen |-> now, tries |-> 1]]
    BY <1>1 DEF StartPoll
  <2>2. [pc |-> "asking", seen |-> now, tries |-> 1] \in Asking
    BY <1>0, <2>1, LedgerAssumption DEF Asking
  <2> QED  BY <1>0, <1>1, <2>1, <2>2, PollsAre DEF StartPoll, PollMoves, Unread, archive
<1>2. CASE Answered(p)
  <2> DEFINE r == [pc |-> "resolving", seen |-> poll[p].seen, board |-> feed,
                   times |-> slate["underdog"]]
  <2>1. poll[p] \in Asking
    BY <1>0, <1>2, PollStages DEF Answered
  <2>2. r \in Resolving
    BY <1>0, <2>1 DEF Asking, Resolving
  <2>3. poll' = [poll EXCEPT ![p] = r]
    BY <1>2 DEF Answered
  <2> HIDE DEF r
  <2> QED  BY <1>0, <1>2, <2>2, <2>3, PollsAre DEF Answered, PollMoves, Unread, archive
<1>3. CASE NotAnswered(p)
  <2>1. poll[p] \in Asking
    BY <1>0, <1>3, PollStages DEF NotAnswered
  <2> DEFINE r == [poll[p] EXCEPT !.tries = poll[p].tries + 1]
  <2>2. \/ poll' = [poll EXCEPT ![p] = Idle]
        \/ poll[p].tries # MaxTries /\ poll' = [poll EXCEPT ![p] = r]
    <3>1. p \in DOMAIN poll
      BY DEF TypeInv, ProcessInv
    <3>2. \/ poll' = [poll EXCEPT ![p] = Idle]
          \/ poll' = [poll EXCEPT ![p] = IF poll[p].tries = MaxTries THEN Idle ELSE r]
      BY <1>3, <3>1 DEF NotAnswered
    <3> HIDE DEF r
    <3> QED  BY <3>2
  <2>3. poll[p].tries # MaxTries => r \in Asking
    BY <2>1, LedgerAssumption DEF Asking
  <2> HIDE DEF r
  <2> QED  BY <1>0, <1>3, <2>2, <2>3, PollsAre DEF NotAnswered, PollMoves, Unread, archive
<1>4. CASE PutAside(p)
  BY <1>0, <1>4, PollsAre DEF PutAside, PollMoves, world
<1>5. CASE UnknownTeam(p) \/ TeamTaken(p)
  BY <1>0, <1>5, PollsAre DEF UnknownTeam, TeamTaken, PollMoves, Unread, archive
<1>6. CASE Resolve(p)
  <2>1. poll[p] \in Resolving
    BY <1>0, <1>6, PollStages DEF Resolve
  <2>2. PICK f \in [PolledGames(p) -> GameId] :
         poll' = [poll EXCEPT ![p] =
              [pc |-> "writing", seen |-> poll[p].seen, board |-> poll[p].board,
               times |-> poll[p].times, found |-> f,
               minted |-> {t \in TeamsOf(PolledGames(p)) : teams[t] = "none"}]]
    BY <1>6 DEF Resolve
  <2> DEFINE r == [pc |-> "writing", seen |-> poll[p].seen, board |-> poll[p].board,
               times |-> poll[p].times, found |-> f,
               minted |-> {t \in TeamsOf(PolledGames(p)) : teams[t] = "none"}]
  <2>3. PolledGames(p) \subseteq Game
    BY PolledAreGames DEF PolledGames
  <2>4. TeamsOf(PolledGames(p)) \subseteq Franchise
    BY <2>3, LedgerAssumption DEF TeamsOf
  <2>5. DOMAIN f = {GameOf[m] : m \in Parsed(poll[p].board)} /\ Range(f) \subseteq GameId
    BY DEF PolledGames, Range
  <2>6. Writing(r)
    BY <2>1, <2>4, <2>5 DEF Writing, Resolving
  <2>7. poll' = [poll EXCEPT ![p] = r]
    BY <2>2
  <2> HIDE DEF r
  <2> QED  BY <1>0, <1>6, <2>6, <2>7, PollsAre DEF Resolve, PollMoves, Unread, archive
<1> QED  BY <1>1, <1>2, <1>3, <1>4, <1>5, <1>6 DEF PollStep

LEMMA PollUpdated ==
    ASSUME ProcessInv, NEW p \in Poller, NEW r, PollOK(r), poll' = [poll EXCEPT ![p] = r], espn' = espn
    PROVE  /\ ProcessInv' /\ poll'[p] = r
           /\ \A q \in Poller : q # p => poll'[q] = poll[q]
<1>1. DOMAIN poll = Poller
  BY DEF ProcessInv
<1>2. poll'[p] = r /\ \A q \in Poller : q # p => poll'[q] = poll[q]
  BY <1>1
<1>3. poll' = [q \in Poller |-> poll'[q]]
  BY <1>1
<1>4. \A q \in Poller : PollOK(poll'[q])
  BY <1>2 DEF ProcessInv
<1>5. ProcessInv'
  BY <1>3, <1>4 DEF ProcessInv, EspnOK
<1> QED  BY <1>2, <1>5

LEMMA PollStepTyped ==
    ASSUME TypeInv, NEW p \in Poller, PollStep(p)
    PROVE  TypeInv'
<1>1. PICK r : PollMoves(p, r)
  BY PollStepMoves
<1>2. ProcessInv'
  BY <1>1, PollUpdated DEF PollMoves, TypeInv
<1>3. WorldInv'
  BY <1>1 DEF PollMoves, TypeInv, WorldInv
<1>4. IdentityInv' /\ StagingInv'
  BY <1>1 DEF PollMoves, TypeInv, IdentityInv, StagingInv, identity, staging
<1>5. ArchiveInv'
  BY <1>1 DEF PollMoves, TypeInv, ArchiveInv, CitesKnown, identity
<1> QED  BY <1>2, <1>3, <1>4, <1>5 DEF TypeInv

-----------------------------------------------------------------------------
(* The commit of a poll.                                                   *)

\* A line of the board makes a row of its market, with a game and a lock.
LEMMA QuoteOfTyped ==
    ASSUME NEW b, Writing(b), NEW m \in Parsed(b.board)
    PROVE  /\ QuoteOf(b, m) \in QuoteRow /\ QuoteOf(b, m).market = m
           /\ QuoteOf(b, m).game = b.found[GameOf[m]] /\ QuoteOf(b, m).game \in Range(b.found)
           /\ QuoteOf(b, m).game \in GameId /\ QuoteOf(b, m).locks \in Times
           /\ QuoteOf(b, m).updated = b.board[m].updated /\ QuoteOf(b, m).seen = b.seen
<1>1. m \in Market /\ GameOf[m] \in Game /\ b.board[m].price \in Price
  BY LedgerAssumption DEF Parsed
<1>2. b.board[m] \in Offer
  BY <1>1 DEF Writing
<1>3. GameOf[m] \in DOMAIN b.found
  BY DEF Writing
<1>4. b.found[GameOf[m]] \in Range(b.found)
  BY <1>3 DEF Range
<1>5. b.found[GameOf[m]] \in GameId /\ b.times[GameOf[m]] \in Times
  BY <1>1, <1>4 DEF Writing
<1> QED  BY <1>1, <1>2, <1>4, <1>5 DEF QuoteOf, QuoteRow, Offer, Writing

\* What a poll adds are rows of its board's lines.
LEMMA AddedAreLines ==
    ASSUME NEW b, NEW order \in Orders(b)
    PROVE  \A q \in Added(b, order) : \E m \in Parsed(b.board) : q = QuoteOf(b, m)
<1>1. \A i \in DOMAIN order : order[i] \in Parsed(b.board)
  BY DEF Orders, SetToSeqs
<1>2. SUFFICES ASSUME NEW q \in Added(b, order) PROVE \E m \in Parsed(b.board) : q = QuoteOf(b, m)
  OBVIOUS
<1>3. \E i \in DOMAIN order : q = QuoteOf(b, order[i])
  BY DEF Added
<1> QED  BY <1>1, <1>3

\* Enriched rows are the rows they were, or have got their game and their lock.
Enriches(q, r, b) ==
    \/ r = q
    \/ /\ q.market \in Parsed(b.board) /\ (q.game = None \/ q.locks = None)
       /\ r \in QuoteRow /\ r.market = q.market /\ r.price = q.price
       /\ r.updated = q.updated /\ r.seen = q.seen
       /\ r.game \in Range(b.found) /\ r.game \in GameId /\ r.locks \in Times
       /\ q = [r EXCEPT !.game = q.game, !.locks = q.locks]

LEMMA EnrichedRows ==
    ASSUME NEW b, Writing(b), NEW R, R \subseteq QuoteRow
    PROVE  /\ \A r \in Enriched(R, b) : \E q \in R : Enriches(q, r, b)
           /\ \A q \in R : \E r \in Enriched(R, b) : Enriches(q, r, b)
<1> DEFINE E(q) == IF q.market \in Parsed(b.board) /\ (q.game = None \/ q.locks = None)
                   THEN [q EXCEPT !.game = b.found[GameOf[q.market]],
                                  !.locks = b.times[GameOf[q.market]]]
                   ELSE q
<1>1. ASSUME NEW q \in R PROVE Enriches(q, E(q), b)
  <2>1. CASE ~(q.market \in Parsed(b.board) /\ (q.game = None \/ q.locks = None))
    BY <2>1 DEF Enriches
  <2>2. CASE q.market \in Parsed(b.board) /\ (q.game = None \/ q.locks = None)
    <3>1. /\ b.found[GameOf[q.market]] \in Range(b.found)
          /\ b.found[GameOf[q.market]] \in GameId
          /\ b.times[GameOf[q.market]] \in Times
      BY <2>2, QuoteOfTyped DEF QuoteOf
    <3>2. PICK g \in GameId, t \in Times :
            g = b.found[GameOf[q.market]] /\ t = b.times[GameOf[q.market]]
      BY <3>1
    <3>3. q \in QuoteRow
      OBVIOUS
    <3>4. PICK r : r = [q EXCEPT !.game = g, !.locks = t]
      OBVIOUS
    <3>5. r = E(q)
      BY <2>2, <3>2, <3>4
    <3>6. /\ r \in QuoteRow /\ r.market = q.market /\ r.price = q.price
          /\ r.updated = q.updated /\ r.seen = q.seen /\ r.game = g /\ r.locks = t
      BY <3>3, <3>4 DEF QuoteRow
    <3>7. q = [r EXCEPT !.game = q.game, !.locks = q.locks]
      BY <3>3, <3>6 DEF QuoteRow
    <3> HIDE DEF E
    <3> QED  BY <2>2, <3>1, <3>2, <3>5, <3>6, <3>7 DEF Enriches
  <2> QED  BY <2>1, <2>2
<1>2. Enriched(R, b) = {E(q) : q \in R}
  BY DEF Enriched
<1> HIDE DEF E
<1> QED  BY <1>1, <1>2

\* The games a poll has found are enrolled by its commit, and none is struck off.
LEMMA EnrolledGames ==
    ASSUME IdentityInv, NEW b, Writing(b)
    PROVE  /\ Enrolled(b.found, b.times) \in [GameId -> Times \cup {None}]
           /\ \A i \in GameId : games[i] # None => Enrolled(b.found, b.times)[i] # None
           /\ \A i \in Range(b.found) : Enrolled(b.found, b.times)[i] # None
<1>1. \A i \in GameId : b.times[i[2]] \in Times /\ b.times[i[2]] # None
  BY LedgerAssumption DEF Writing, GameId
<1>2. Range(b.found) \subseteq GameId /\ games \in [GameId -> Times \cup {None}]
  BY DEF Writing, IdentityInv
<1> QED  BY <1>1, <1>2 DEF Enrolled

LEMMA StoreTyped ==
    ASSUME TypeInv, NEW p \in Poller, Store(p)
    PROVE  TypeInv' /\ poll'[p] = Idle /\ \A q \in Poller : q # p => poll'[q] = poll[q]
<1>1. PICK b : b = poll[p]
  OBVIOUS
<1>2. Writing(b)
  BY <1>1, PollStages DEF Store, TypeInv, ProcessInv
<1>3. PICK order \in Orders(b) : quotes' = Enriched(quotes \cup Added(b, order), b)
  BY <1>1 DEF Store
<1>4. /\ teams' = [t \in Franchise |-> IF t \in b.minted THEN "underdog" ELSE teams[t]]
      /\ games' = Enrolled(b.found, b.times)
      /\ players' = players \cup {<<"underdog", PersonOf[m]>> : m \in Parsed(b.board)}
      /\ quarantine' = quarantine \cup (IF Rejected(b.board) = {} THEN {} ELSE {"rejects"})
      /\ poll' = [poll EXCEPT ![p] = Idle]
      /\ UNCHANGED <<world, merged, lines, staging, espn>>
  BY <1>1 DEF Store
<1>5. /\ games' \in [GameId -> Times \cup {None}]
      /\ \A i \in GameId : games[i] # None => games'[i] # None
      /\ \A i \in Range(b.found) : games'[i] # None
  BY <1>2, <1>4, EnrolledGames DEF TypeInv
<1>6. \A m \in Parsed(b.board) : m \in Market /\ PersonOf[m] \in Person
  BY LedgerAssumption DEF Parsed
<1>7. IdentityInv'
  <2>1. teams' \in [Franchise -> Source \cup {"none"}]
    BY <1>4 DEF TypeInv, IdentityInv, Source
  <2>2. players' \subseteq PlayerId
    BY <1>4, <1>6 DEF TypeInv, IdentityInv, PlayerId, Source
  <2> QED  BY <1>4, <1>5, <2>1, <2>2 DEF TypeInv, IdentityInv
<1>8. quotes \subseteq QuoteRow /\ \A q \in quotes : (q.game = None <=> q.locks = None) /\ CitesKnown(q)
  BY DEF TypeInv, ArchiveInv
<1>9. \A m \in Parsed(b.board) : <<"underdog", PersonOf[m]>> \in players'
  BY <1>4
<1>10. ASSUME NEW q \in quotes
       PROVE  q \in QuoteRow /\ (q.game = None <=> q.locks = None) /\ CitesKnown(q)'
  <2>1. q \in QuoteRow /\ (q.game = None <=> q.locks = None) /\ CitesKnown(q)
    BY <1>8
  <2>2. q.game # None => games'[q.game] # None
    BY <1>5, <2>1 DEF CitesKnown, QuoteRow
  <2>3. q.game # None => <<"underdog", PersonOf[q.market]>> \in players'
    BY <1>4, <2>1 DEF CitesKnown
  <2> QED  BY <2>1, <2>2, <2>3 DEF CitesKnown
<1>11. ASSUME NEW q \in QuoteRow, q.market \in Parsed(b.board), q.game \in Range(b.found)
       PROVE  CitesKnown(q)'
  BY <1>5, <1>9, <1>11 DEF CitesKnown
<1>12. ASSUME NEW q \in Added(b, order)
       PROVE  q \in QuoteRow /\ (q.game = None <=> q.locks = None) /\ CitesKnown(q)'
  <2>1. PICK m \in Parsed(b.board) : q = QuoteOf(b, m)
    BY AddedAreLines
  <2>2. /\ q \in QuoteRow /\ q.market = m /\ q.game \in Range(b.found)
        /\ q.game \in GameId /\ q.locks \in Times
    BY <1>2, <2>1, QuoteOfTyped
  <2> QED  BY <1>11, <2>1, <2>2, LedgerAssumption, NullAssumption
<1>13. ArchiveInv'
  <2>1. quotes \cup Added(b, order) \subseteq QuoteRow
    BY <1>10, <1>12
  <2>2. ASSUME NEW r \in quotes'
        PROVE  r \in QuoteRow /\ (r.game = None <=> r.locks = None) /\ CitesKnown(r)'
    <3>1. PICK q \in quotes \cup Added(b, order) : Enriches(q, r, b)
      BY <1>2, <1>3, <2>1, EnrichedRows
    <3>2. CASE r = q
      BY <1>10, <1>12, <3>2
    <3>3. CASE r # q
      BY <1>11, <3>1, <3>3, LedgerAssumption, NullAssumption DEF Enriches
    <3> QED  BY <3>2, <3>3
  <2>3. quarantine' \subseteq {"empty", "rejects"}
    BY <1>4 DEF TypeInv, ArchiveInv
  <2> QED  BY <2>2, <2>3 DEF ArchiveInv
<1>14. /\ ProcessInv' /\ poll'[p] = Idle
       /\ \A q \in Poller : q # p => poll'[q] = poll[q]
  BY <1>4, PollsAre, PollUpdated DEF TypeInv
<1>15. WorldInv' /\ StagingInv'
  BY <1>4 DEF TypeInv, WorldInv, StagingInv, world, staging
<1> QED  BY <1>7, <1>13, <1>14, <1>15 DEF TypeInv

-----------------------------------------------------------------------------
(* ESPN's jobs and the world.                                              *)

\* Adding to the tables of identity never takes back what a quote cites.
LEMMA QuotesStayCited ==
    ASSUME ArchiveInv, UNCHANGED archive, players \subseteq players',
           \A i \in GameId : games[i] # None => games'[i] # None
    PROVE  ArchiveInv'
<1>1. \A q \in quotes : CitesKnown(q)'
  <2> TAKE q \in quotes
  <2>1. q \in QuoteRow /\ CitesKnown(q)
    BY DEF ArchiveInv
  <2> QED  BY <2>1 DEF CitesKnown, QuoteRow
<1> QED  BY <1>1 DEF ArchiveInv, archive

LEMMA EspnReadTyped == ASSUME TypeInv, EspnRead PROVE TypeInv'
<1>1. PICK g \in Game : \E i \in Bind("espn", g, slate["espn"][g]) :
         espn' = [pc |-> "writing", found |-> i, at |-> slate["espn"][g]]
  BY DEF EspnRead
<1>2. slate["espn"][g] \in Times
  BY DEF TypeInv, WorldInv, Source
<1>3. Bind("espn", g, slate["espn"][g]) \subseteq GameId
  BY BindIsId DEF Source
<1>4. EspnOK'
  BY <1>1, <1>2, <1>3 DEF EspnOK
<1>5. UNCHANGED <<world, identity, archive, staging, poll>>
  BY DEF EspnRead
<1>6. ProcessInv'
  BY <1>4, <1>5 DEF TypeInv, ProcessInv
<1>7. WorldInv' /\ IdentityInv' /\ StagingInv'
  BY <1>5 DEF TypeInv, WorldInv, IdentityInv, StagingInv, world, identity, staging
<1>8. ArchiveInv'
  BY <1>5, QuotesStayCited DEF TypeInv, identity
<1> QED  BY <1>6, <1>7, <1>8 DEF TypeInv

LEMMA EspnWriteTyped == ASSUME TypeInv, EspnWrite PROVE TypeInv'
<1>1. espn \in [pc : {"writing"}, found : GameId, at : Times]
  BY DEF EspnWrite, TypeInv, ProcessInv, EspnOK, Idle
<1>2. PICK i : i = espn.found
  OBVIOUS
<1>3. i \in GameId /\ i[2] \in Game /\ espn.at \in Times /\ espn.at # None
  BY <1>1, <1>2, LedgerAssumption DEF GameId
<1>4. /\ teams' = [t \in Franchise |-> IF t \in Teams[i[2]] THEN "espn" ELSE teams[t]]
      /\ games' = [games EXCEPT ![i] = espn.at]
      /\ \/ UNCHANGED <<lines, players>>
         \/ /\ lines' = lines \cup (Roster[i[2]] \X {i})
            /\ players' = players \cup ({"espn"} \X Roster[i[2]])
      /\ espn' = Idle
      /\ UNCHANGED <<world, merged, archive, staging, poll>>
  BY <1>2 DEF EspnWrite
<1>5. Roster[i[2]] \subseteq Person
  BY <1>3, LedgerAssumption
<1>6. games' \in [GameId -> Times \cup {None}] /\ \A j \in GameId : games[j] # None => games'[j] # None
  BY <1>3, <1>4 DEF TypeInv, IdentityInv
<1>7. teams' \in [Franchise -> Source \cup {"none"}]
  BY <1>4 DEF TypeInv, IdentityInv, Source
<1>8. players' \subseteq PlayerId /\ lines' \subseteq Person \X GameId /\ players \subseteq players'
  BY <1>3, <1>4, <1>5 DEF TypeInv, IdentityInv, PlayerId, Source
<1>9. IdentityInv'
  BY <1>4, <1>6, <1>7, <1>8 DEF TypeInv, IdentityInv
<1>10. ArchiveInv'
  BY <1>4, <1>6, <1>8, QuotesStayCited DEF TypeInv
<1>11. ProcessInv'
  BY <1>4 DEF TypeInv, ProcessInv, EspnOK
<1>12. WorldInv' /\ StagingInv'
  BY <1>4 DEF TypeInv, WorldInv, StagingInv, world, staging
<1> QED  BY <1>9, <1>10, <1>11, <1>12 DEF TypeInv

\* A job that ends without a commit, or is killed, leaves no trace.
LEMMA LostTyped == ASSUME TypeInv, EspnRefused \/ Killed PROVE TypeInv'
<1>1. UNCHANGED <<world, identity, archive, staging>>
  BY DEF EspnRefused, Killed
<1>2. WorldInv' /\ IdentityInv' /\ StagingInv'
  BY <1>1 DEF TypeInv, WorldInv, IdentityInv, StagingInv, world, identity, staging
<1>3. ArchiveInv'
  BY <1>1, QuotesStayCited DEF TypeInv, identity
<1>4. ProcessInv'
  <2>1. CASE espn' = Idle /\ UNCHANGED poll
    BY <2>1 DEF TypeInv, ProcessInv, EspnOK
  <2>2. CASE \E p \in Poller : poll' = [poll EXCEPT ![p] = Idle] /\ UNCHANGED espn
    BY <2>2, PollsAre, PollUpdated DEF TypeInv
  <2> QED  BY <2>1, <2>2 DEF EspnRefused, Killed
<1> QED  BY <1>2, <1>3, <1>4 DEF TypeInv

LEMMA WorldTyped ==
    ASSUME TypeInv, \/ \E m \in Market : MoveLine(m)
                    \/ \E s \in Source, g \in Movable : Reschedule(s, g)
    PROVE  TypeInv' /\ UNCHANGED <<identity, archive, staging, poll, espn>>
<1>1. UNCHANGED <<identity, archive, staging, poll, espn>>
  BY DEF MoveLine, Reschedule
<1>2. WorldInv'
  <2>1. CASE \E m \in Market : MoveLine(m)
    <3>1. PICK m \in Market : MoveLine(m)
      BY <2>1
    <3>2. PICK p \in Shows[m] \cup {"absent"} :
            feed' = [feed EXCEPT ![m] = [price |-> p, updated |-> clock + 1]]
      BY <3>1 DEF MoveLine
    <3>3. [price |-> p, updated |-> clock + 1] \in Offer
      BY LedgerAssumption DEF TypeInv, WorldInv, Offer
    <3>4. feed' \in [Market -> Offer]
      BY <3>2, <3>3 DEF TypeInv, WorldInv
    <3>5. moves' \in 0..MaxMoves /\ clock' \in Nat /\ UNCHANGED <<slate, changes>>
      BY <3>1, LedgerAssumption DEF MoveLine, TypeInv, WorldInv
    <3> QED  BY <3>4, <3>5 DEF TypeInv, WorldInv
  <2>2. CASE \E s \in Source, g \in Movable : Reschedule(s, g)
    <3>1. PICK s \in Source, g \in Movable : Reschedule(s, g)
      BY <2>2
    <3>2. PICK t \in Times : slate' = [slate EXCEPT ![s][g] = t]
      BY <3>1 DEF Reschedule
    <3>3. slate' = [slate EXCEPT ![s] = [slate[s] EXCEPT ![g] = t]]
      BY <3>2
    <3>4. [slate[s] EXCEPT ![g] = t] \in [Game -> Times]
      BY DEF TypeInv, WorldInv
    <3>5. slate' \in [Source -> [Game -> Times]]
      BY <3>3, <3>4 DEF TypeInv, WorldInv
    <3>6. changes' \in 0..MaxChanges /\ UNCHANGED <<clock, moves, feed>>
      BY <3>1, LedgerAssumption DEF Reschedule, TypeInv, WorldInv
    <3> QED  BY <3>5, <3>6 DEF TypeInv, WorldInv
  <2> QED  BY <2>1, <2>2
<1>3. IdentityInv' /\ StagingInv' /\ ProcessInv'
  BY <1>1 DEF TypeInv, IdentityInv, StagingInv, ProcessInv, EspnOK, identity, staging
<1>4. ArchiveInv'
  BY <1>1, QuotesStayCited DEF TypeInv, identity
<1> QED  BY <1>1, <1>2, <1>3, <1>4 DEF TypeInv

-----------------------------------------------------------------------------
(* The reviews.                                                            *)

LEMMA ApproveNamesTyped == ASSUME TypeInv, ApproveNames PROVE TypeInv'
<1>1. UNCHANGED <<world, teams, games, players, lines, archive, staging, poll, espn>>
  BY DEF ApproveNames
<1>2. \A u \in Person : Cardinality(Namesakes(u)) = 1 => (CHOOSE e \in Namesakes(u) : TRUE) \in Person
  <2> SUFFICES ASSUME NEW u \in Person, Cardinality(Namesakes(u)) = 1
               PROVE  (CHOOSE e \in Namesakes(u) : TRUE) \in Person
    OBVIOUS
  <2>1. Namesakes(u) # {}
    BY FS_EmptySet
  <2>2. (CHOOSE e \in Namesakes(u) : TRUE) \in Namesakes(u)
    BY <2>1
  <2>3. Namesakes(u) \subseteq Person
    BY DEF Namesakes
  <2> QED  BY <2>2, <2>3
<1>3. merged' \in [Person -> Person \cup {None}]
  <2>1. merged' = [u \in Person |->
         IF /\ <<"underdog", u>> \in players /\ merged[u] = None
            /\ Cardinality(Namesakes(u)) = 1
         THEN CHOOSE e \in Namesakes(u) : TRUE ELSE merged[u]]
    BY DEF ApproveNames
  <2>2. ASSUME NEW u \in Person PROVE merged'[u] \in Person \cup {None}
    <3>1. merged[u] \in Person \cup {None}
      BY DEF TypeInv, IdentityInv
    <3>2. CASE Cardinality(Namesakes(u)) = 1
      <4> DEFINE e == CHOOSE e \in Namesakes(u) : TRUE
      <4>1. e \in Person
        BY <1>2, <3>2
      <4>2. merged'[u] \in {e, merged[u]}
        BY <2>1
      <4> QED  BY <3>1, <4>1, <4>2
    <3>3. CASE Cardinality(Namesakes(u)) # 1
      BY <2>1, <3>1, <3>3
    <3> QED  BY <3>2, <3>3
  <2>3. merged' = [u \in Person |-> merged'[u]]
    BY <2>1
  <2> QED  BY <2>2, <2>3
<1>4. IdentityInv'
  BY <1>1, <1>3 DEF TypeInv, IdentityInv
<1>5. ArchiveInv'
  BY <1>1, QuotesStayCited DEF TypeInv
<1>6. WorldInv' /\ StagingInv' /\ ProcessInv'
  BY <1>1 DEF TypeInv, WorldInv, StagingInv, ProcessInv, EspnOK, world, staging
<1> QED  BY <1>4, <1>5, <1>6 DEF TypeInv

LEMMA ImportTyped == ASSUME TypeInv, ImportLegacy PROVE TypeInv'
<1>1. UNCHANGED <<world, identity, archive, mapping, history, poll, espn>>
  BY DEF ImportLegacy
<1>2. StagingInv'
  BY <1>1 DEF ImportLegacy, TypeInv, StagingInv
<1>3. ArchiveInv'
  BY <1>1, QuotesStayCited DEF TypeInv, identity
<1>4. WorldInv' /\ IdentityInv' /\ ProcessInv'
  BY <1>1 DEF TypeInv, WorldInv, IdentityInv, ProcessInv, EspnOK, world, identity
<1> QED  BY <1>2, <1>3, <1>4 DEF TypeInv

-----------------------------------------------------------------------------
(* Matching the legacy events with games.                                  *)

\* A sorted list's first element, if it is not tied with the second, has more
\* than any other: the rule of choose_game sees every candidate although it
\* looks at two.
LEMMA ChosenLeads ==
    ASSUME NEW S, IsFiniteSet(S), NEW f \in [S -> Nat], NEW c \in ChooseGame(f), c # None
    PROVE  c \in S /\ f[c] >= 2 /\ \A i \in S \ {c} : f[i] < f[c]
<1>1. DOMAIN f = S
  OBVIOUS
<1>2. f # <<>> /\ S # {}
  <2>1. ASSUME S = {} PROVE f = <<>>
    BY <2>1
  <2>2. f # <<>>
    BY DEF ChooseGame
  <2> QED  BY <2>1, <2>2
<1>3. PICK s \in SetToSeqs(S) :
         /\ \A k \in 1..(Len(s) - 1) : f[s[k]] >= f[s[k + 1]]
         /\ c = IF \/ f[s[1]] < 2
                   \/ Len(s) > 1 /\ f[s[2]] = f[s[1]]
                THEN None ELSE s[1]
  BY <1>1, <1>2 DEF ChooseGame
<1>4. c = s[1] /\ ~(f[s[1]] < 2) /\ ~(Len(s) > 1 /\ f[s[2]] = f[s[1]])
  BY <1>3
<1>5. PICK n : n = Cardinality(S) /\ n \in Nat /\ n # 0
  BY <1>2, FS_CardinalityType, FS_EmptySet
<1>6. s \in [1..n -> S] /\ \A i, j \in 1..n : i # j => s[i] # s[j]
  BY <1>5 DEF SetToSeqs
<1>7. s \in Seq(S) /\ Len(s) = n
  BY <1>5, <1>6
<1>8. \A x \in S : \E k \in 1..n : s[k] = x
  <2>1. s \in Injection(1..n, S)
    BY <1>6 DEF Injection, IsInjective
  <2>2. IsFiniteSet(1..n) /\ Cardinality(1..n) = n
    BY <1>5, FS_Interval
  <2>3. s \in Surjection(1..n, S)
    BY <1>5, <2>1, <2>2, FS_Injection
  <2> QED  BY <2>3 DEF Surjection
<1>9. \A k \in 1..n : s[k] \in S /\ f[s[k]] \in Nat
  BY <1>6
<1>10. \A k \in 2..n : f[s[k]] < f[s[1]]
  <2> DEFINE T == {k \in 2..n : ~(f[s[k]] < f[s[1]])}
  <2>1. SUFFICES ASSUME T # {} PROVE FALSE
    OBVIOUS
  <2>2. T \subseteq Nat
    BY <1>5
  <2>3. PICK k \in T : \A y \in T : ~(<<y, k>> \in OpToRel(<, Nat))
    <3> HIDE DEF T
    <3> QED  BY <2>1, <2>2, WFMin, NatLessThanWellFounded
  <2>4. k \in 2..n /\ ~(f[s[k]] < f[s[1]])
    OBVIOUS
  <2>5. k - 1 \notin T
    <3>1. \A y \in T : ~(y < k)
      BY <2>2, <2>3 DEF OpToRel
    <3> HIDE DEF T
    <3> QED  BY <1>5, <2>4, <3>1
  <2>6. f[s[k - 1]] >= f[s[k]]
    <3>1. k - 1 \in 1..(Len(s) - 1) /\ k = (k - 1) + 1
      BY <1>5, <1>7, <2>4
    <3> QED  BY <1>3, <3>1
  <2>7. CASE k = 2
    BY <1>4, <1>5, <1>7, <1>9, <2>4, <2>6, <2>7
  <2>8. CASE k # 2
    <3>1. k - 1 \in 2..n
      BY <1>5, <2>4, <2>8
    <3>2. f[s[k - 1]] < f[s[1]]
      BY <2>5, <3>1
    <3>3. k - 1 \in 1..n /\ k \in 1..n /\ 1 \in 1..n
      BY <1>5, <2>4, <3>1
    <3> QED  BY <1>9, <2>4, <2>6, <3>2, <3>3
  <2> QED  BY <2>7, <2>8
<1>11. 1 \in 1..n
  BY <1>5
<1>12. c \in S /\ f[c] >= 2
  BY <1>4, <1>9, <1>11
<1>13. ASSUME NEW i \in S, i # c PROVE f[i] < f[c]
  <2>1. PICK k \in 1..n : s[k] = i
    BY <1>8
  <2>2. k \in 2..n
    BY <1>4, <1>5, <1>13, <2>1
  <2> QED  BY <1>4, <1>10, <2>1, <2>2
<1> QED  BY <1>12, <1>13

\* How many of an event's players a game has is a number, and the games it is
\* counted for are finitely many.
LEMMA OverlapsAreCounts ==
    ASSUME TypeInv, NEW e
    PROVE  /\ IsFiniteSet(EventGames(e)) /\ EventGames(e) \subseteq GameId
           /\ \A i : Overlap(e, i) \in Nat
<1>1. IsFiniteSet(Source)
  <2>1. Source = {"underdog"} \cup {"espn"}
    BY DEF Source
  <2> QED  BY <2>1, FS_Singleton, FS_Union
<1>2. IsFiniteSet(GameId) /\ IsFiniteSet(PlayerId)
  BY <1>1, FS_Product, LedgerAssumption DEF GameId, PlayerId
<1>3. EventGames(e) \in SUBSET GameId
  BY DEF EventGames
<1>4. ASSUME NEW i PROVE Overlap(e, i) \in Nat
  <2> DEFINE R == {r \in Resolved(e) : r[1] = "espn" /\ <<r[2], i>> \in lines}
  <2>1. R \in SUBSET PlayerId
    BY DEF Resolved, TypeInv, IdentityInv
  <2>2. Overlap(e, i) = Cardinality(R)
    BY DEF Overlap
  <2> HIDE DEF R
  <2>3. IsFiniteSet(R)
    BY <1>2, <2>1, FS_Subset
  <2> QED  BY <2>2, <2>3, FS_CardinalityType
<1> QED  BY <1>2, <1>3, <1>4, FS_Subset

LEMMA MatchesLead ==
    ASSUME TypeInv, NEW e, NEW c \in MatchesOf(e), c # None
    PROVE  /\ c \in GameId /\ Overlap(e, c) >= 2
           /\ \A i \in EventGames(e) \ {c} : Overlap(e, i) < Overlap(e, c)
<1> DEFINE f == [i \in EventGames(e) |-> Overlap(e, i)]
<1>1. f \in [EventGames(e) -> Nat] /\ \A i \in EventGames(e) : f[i] = Overlap(e, i)
  BY OverlapsAreCounts
<1>2. c \in ChooseGame(f)
  BY DEF MatchesOf
<1> HIDE DEF f
<1>3. c \in EventGames(e) /\ f[c] >= 2 /\ \A i \in EventGames(e) \ {c} : f[i] < f[c]
  BY <1>1, <1>2, OverlapsAreCounts, ChosenLeads
<1> QED  BY <1>1, <1>3, OverlapsAreCounts

\* What a mapping run writes: events keep their game or get one that leads.
LEMMA NormalizeMaps ==
    ASSUME TypeInv, NormalizeHistory
    PROVE  /\ mapping' \in [Event -> GameId \cup {None}]
           /\ \A e \in Event : mapping'[e] = mapping[e] \/ mapping'[e] \in MatchesOf(e)
<1>1. PICK c : /\ \A e \in Event : c[e] \in MatchesOf(e)
               /\ mapping' = [e \in Event |-> IF \E l \in legacy : EventOf[l] = e
                                              THEN c[e] ELSE mapping[e]]
  BY DEF NormalizeHistory
<1>2. \A e \in Event : c[e] \in GameId \cup {None}
  BY <1>1, MatchesLead
<1>3. \A e \in Event : mapping[e] \in GameId \cup {None}
  BY DEF TypeInv, StagingInv
<1> QED  BY <1>1, <1>2, <1>3

LEMMA NormalizeTyped == ASSUME TypeInv, NormalizeHistory PROVE TypeInv'
<1>1. UNCHANGED <<world, identity, archive, legacy, poll, espn>>
  BY DEF NormalizeHistory
<1>2. mapping' \in [Event -> GameId \cup {None}]
  BY NormalizeMaps
<1>3. history' \subseteq [row : LegacyRow, game : GameId]
  <2>1. history \subseteq [row : LegacyRow, game : GameId] /\ legacy \subseteq LegacyRow
    BY DEF TypeInv, StagingInv
  <2>2. PICK new : /\ new \subseteq {l \in legacy : mapping'[EventOf[l]] # None}
                   /\ history' = history \cup {[row |-> l, game |-> mapping'[EventOf[l]]] : l \in new}
    <3>1. history' = history \cup
            {[row |-> l, game |-> mapping'[EventOf[l]]] : l \in
               {l \in legacy : /\ mapping'[EventOf[l]] # None
                               /\ Cardinality(Holders(LegacyName[l])) = 1
                               /\ \A h \in history : h.row # l}}
      BY DEF NormalizeHistory
    <3>2. PICK new : new = {l \in legacy : /\ mapping'[EventOf[l]] # None
                               /\ Cardinality(Holders(LegacyName[l])) = 1
                               /\ \A h \in history : h.row # l}
      OBVIOUS
    <3> QED  BY <3>1, <3>2
  <2>3. ASSUME NEW l \in new
        PROVE  [row |-> l, game |-> mapping'[EventOf[l]]] \in [row : LegacyRow, game : GameId]
    <3>1. l \in LegacyRow /\ EventOf[l] \in Event /\ mapping'[EventOf[l]] # None
      BY <2>1, <2>2, LedgerAssumption
    <3>2. mapping'[EventOf[l]] \in GameId
      BY <1>2, <3>1
    <3> QED  BY <3>1, <3>2
  <2> QED  BY <2>1, <2>2, <2>3
<1>4. StagingInv'
  BY <1>1, <1>2, <1>3 DEF TypeInv, StagingInv
<1>5. ArchiveInv'
  BY <1>1, QuotesStayCited DEF TypeInv, identity
<1>6. WorldInv' /\ IdentityInv' /\ ProcessInv'
  BY <1>1 DEF TypeInv, WorldInv, IdentityInv, ProcessInv, EspnOK, world, identity
<1> QED  BY <1>4, <1>5, <1>6 DEF TypeInv

-----------------------------------------------------------------------------
(* Every step keeps the invariant.                                         *)

LEMMA Start == Init => TypeInv
<1> SUFFICES ASSUME Init PROVE TypeInv
  OBVIOUS
<1>1. WorldInv
  <2>1. [price |-> "absent", updated |-> 0] \in Offer
    BY DEF Offer
  <2>2. feed \in [Market -> Offer]
    BY <2>1 DEF Init
  <2> QED  BY <2>2, LedgerAssumption DEF Init, WorldInv
<1>2. IdentityInv
  BY DEF Init, IdentityInv, Source
<1>3. ArchiveInv
  <2>1. \A q \in OldRows : q \in QuoteRow /\ q.game = None /\ q.locks = None
    BY LedgerAssumption DEF QuoteRow
  <2> QED  BY <2>1 DEF Init, ArchiveInv, CitesKnown
<1>4. StagingInv
  BY DEF Init, StagingInv
<1>5. ProcessInv
  BY PollsAre DEF Init, ProcessInv, EspnOK
<1> QED  BY <1>1, <1>2, <1>3, <1>4, <1>5 DEF TypeInv

LEMMA Step == TypeInv /\ [Next]_vars => TypeInv'
<1> SUFFICES ASSUME TypeInv, [Next]_vars PROVE TypeInv'
  OBVIOUS
<1>1. CASE UNCHANGED vars
  <2>1. UNCHANGED <<world, identity, archive, staging, poll, espn>>
    BY <1>1 DEF vars
  <2>2. ArchiveInv'
    BY <2>1, QuotesStayCited DEF TypeInv, identity
  <2> QED  BY <2>1, <2>2 DEF TypeInv, WorldInv, IdentityInv, StagingInv, ProcessInv, EspnOK,
                             world, identity, staging
<1>2. CASE \/ \E m \in Market : MoveLine(m)
           \/ \E s \in Source, g \in Movable : Reschedule(s, g)
  BY <1>2, WorldTyped
<1>3. CASE \E p \in Poller : PollStep(p)
  BY <1>3, PollStepTyped
<1>4. CASE \E p \in Poller : Store(p)
  BY <1>4, StoreTyped
<1>5. CASE EspnRead \/ EspnWrite
  BY <1>5, EspnReadTyped, EspnWriteTyped
<1>6. CASE EspnRefused \/ Killed
  BY <1>6, LostTyped
<1>7. CASE ApproveNames \/ ImportLegacy \/ NormalizeHistory
  BY <1>7, ApproveNamesTyped, ImportTyped, NormalizeTyped
<1> QED  BY <1>1, <1>2, <1>3, <1>4, <1>5, <1>6, <1>7 DEF Next, PollStep

THEOREM Invariance == Spec => []TypeInv
BY Start, Step, PTL DEF Spec

\* Whatever the two sources, the owner and the timers do in between, a quote that
\* names a game and a player names rows the ledger has: run_archiver resolves its
\* games and players in the transaction that writes its quotes, and no review or
\* ESPN job takes a row away.
THEOREM Typing == Spec => []TypeOK
BY Invariance, TypeInvMeans, PTL

-----------------------------------------------------------------------------
(* The archive stands.                                                     *)

\* What a quote may become.
Stands(q, r) ==
    /\ [r EXCEPT !.game = q.game, !.locks = q.locks] = q
    /\ q.game # None => r.game = q.game
    /\ q.locks # None => r.locks = q.locks

LEMMA ItselfStands == ASSUME NEW q \in QuoteRow PROVE Stands(q, q)
<1>1. [q EXCEPT !.game = q.game, !.locks = q.locks] = q
  BY DEF QuoteRow
<1> QED  BY <1>1 DEF Stands

LEMMA OnlyAPollWrites ==
    ASSUME [Next]_vars
    PROVE  UNCHANGED quotes \/ \E p \in Poller : Store(p)
<1>1. CASE UNCHANGED vars
  BY <1>1 DEF vars, archive
<1>2. CASE \/ \E m \in Market : MoveLine(m)
           \/ \E s \in Source, g \in Movable : Reschedule(s, g)
  BY <1>2 DEF MoveLine, Reschedule, archive
<1>3. CASE \E p \in Poller : PollStep(p)
  BY <1>3 DEF PollStep, StartPoll, Answered, NotAnswered, PutAside, UnknownTeam, Resolve, TeamTaken,
              Unread, archive
<1>4. CASE EspnRead \/ EspnWrite \/ EspnRefused \/ Killed
  BY <1>4 DEF EspnRead, EspnWrite, EspnRefused, Killed, archive
<1>5. CASE ApproveNames \/ ImportLegacy \/ NormalizeHistory
  BY <1>5 DEF ApproveNames, ImportLegacy, NormalizeHistory, archive
<1> QED  BY <1>1, <1>2, <1>3, <1>4, <1>5 DEF Next, PollStep

\* A commit keeps each quote: one that has its game has its lock too, so the
\* enrichment passes it by, and one without either gets both.
LEMMA StoreKeepsQuotes ==
    ASSUME TypeInv, NEW p \in Poller, Store(p)
    PROVE  \A q \in quotes : \E r \in quotes' : Stands(q, r)
<1>1. PICK b : b = poll[p]
  OBVIOUS
<1>2. Writing(b)
  BY <1>1, PollStages DEF Store, TypeInv, ProcessInv
<1>3. PICK order \in Orders(b) : quotes' = Enriched(quotes \cup Added(b, order), b)
  BY <1>1 DEF Store
<1>4. quotes \cup Added(b, order) \subseteq QuoteRow
  <2>1. \A q \in Added(b, order) : q \in QuoteRow
    BY <1>2, AddedAreLines, QuoteOfTyped
  <2> QED  BY <2>1 DEF TypeInv, ArchiveInv
<1> SUFFICES ASSUME NEW q \in quotes PROVE \E r \in quotes' : Stands(q, r)
  OBVIOUS
<1>5. PICK r \in quotes' : Enriches(q, r, b)
  BY <1>2, <1>3, <1>4, EnrichedRows
<1>6. q \in QuoteRow /\ (q.game = None <=> q.locks = None)
  BY DEF TypeInv, ArchiveInv
<1>7. Stands(q, r)
  <2>1. CASE r = q
    BY <1>6, <2>1, ItselfStands
  <2>2. CASE r # q
    <3>1. q = [r EXCEPT !.game = q.game, !.locks = q.locks] /\ q.game = None /\ q.locks = None
      BY <1>5, <1>6, <2>2 DEF Enriches
    <3> QED  BY <3>1 DEF Stands
  <2> QED  BY <2>1, <2>2
<1> QED  BY <1>5, <1>7

\* An archived quote is never taken away, re-dated or moved to another game or
\* lock, however often its line is polled and its game rescheduled.
THEOREM ArchiveIsAppendOnly == Spec => QuotesStand
<1>1. TypeInv /\ [Next]_vars => [\A q \in quotes : \E r \in quotes' : Stands(q, r)]_vars
  <2> SUFFICES ASSUME TypeInv, [Next]_vars
               PROVE  \A q \in quotes : \E r \in quotes' : Stands(q, r)
    OBVIOUS
  <2>1. CASE UNCHANGED quotes
    BY <2>1, ItselfStands DEF TypeInv, ArchiveInv
  <2>2. CASE \E p \in Poller : Store(p)
    BY <2>2, StoreKeepsQuotes
  <2> QED  BY <2>1, <2>2, OnlyAPollWrites
<1>2. TypeInv /\ [Next]_vars =>
        [\A q \in quotes : \E r \in quotes' :
           /\ [r EXCEPT !.game = q.game, !.locks = q.locks] = q
           /\ q.game # None => r.game = q.game
           /\ q.locks # None => r.locks = q.locks]_vars
  BY <1>1 DEF Stands
<1> QED  BY <1>2, Invariance, PTL DEF Spec, QuotesStand

-----------------------------------------------------------------------------
(* The mappings of the legacy events.                                      *)

LEMMA OnlyNormalizationMaps ==
    ASSUME [Next]_vars
    PROVE  UNCHANGED mapping \/ NormalizeHistory
<1>1. CASE UNCHANGED vars
  BY <1>1 DEF vars, staging
<1>2. CASE \/ \E m \in Market : MoveLine(m)
           \/ \E s \in Source, g \in Movable : Reschedule(s, g)
  BY <1>2 DEF MoveLine, Reschedule, staging
<1>3. CASE \E p \in Poller : PollStep(p) \/ Store(p)
  BY <1>3 DEF PollStep, StartPoll, Answered, NotAnswered, PutAside, UnknownTeam, Resolve, TeamTaken,
              Store, Unread, staging
<1>4. CASE EspnRead \/ EspnWrite \/ EspnRefused \/ Killed
  BY <1>4 DEF EspnRead, EspnWrite, EspnRefused, Killed, staging
<1>5. CASE ApproveNames \/ ImportLegacy
  BY <1>5 DEF ApproveNames, ImportLegacy, staging
<1> QED  BY <1>1, <1>2, <1>3, <1>4, <1>5 DEF Next, PollStep

\* choose_game sorts the candidates and compares two of them; that is enough for
\* a mapped game to share more players with the event than every other game in
\* reach, however many there are.
THEOREM MappingsAreUnambiguous == Spec => MappedGamesAreUnambiguous
<1>1. TypeInv /\ [Next]_vars =>
        [\A e \in Event : mapping'[e] \notin {None, mapping[e]} =>
           /\ Overlap(e, mapping'[e]) >= 2
           /\ \A i \in EventGames(e) \ {mapping'[e]} :
                 Overlap(e, i) < Overlap(e, mapping'[e])]_vars
  <2> SUFFICES ASSUME TypeInv, [Next]_vars,
                      NEW e \in Event, mapping'[e] \notin {None, mapping[e]}
               PROVE  /\ Overlap(e, mapping'[e]) >= 2
                      /\ \A i \in EventGames(e) \ {mapping'[e]} :
                            Overlap(e, i) < Overlap(e, mapping'[e])
    OBVIOUS
  <2>1. NormalizeHistory
    BY OnlyNormalizationMaps
  <2>2. mapping'[e] \in MatchesOf(e) /\ mapping'[e] # None
    BY <2>1, NormalizeMaps
  <2> QED  BY <2>2, MatchesLead
<1> QED  BY <1>1, Invariance, PTL DEF Spec, MappedGamesAreUnambiguous

-----------------------------------------------------------------------------
(* The order of the archive.                                               *)

\* One process polls at a time.  With two, a poll that took its time first may
\* read the board last, and the order is lost.
OnePoller == \A p, q \in Poller : p = q

\* What a poll under way knows: its time is after every snapshot's, and its
\* board after every archived state of its line.
Sees(r) == r # Idle =>
    /\ r.seen <= clock /\ \A q \in quotes : q.seen < r.seen
    /\ r.pc \in {"resolving", "writing"} =>
         /\ \A m \in Market : r.board[m].updated <= feed[m].updated
         /\ \A q \in quotes : q.updated <= r.board[q.market].updated

BoardInv ==
    /\ \A m \in Market : feed[m].updated <= clock
    /\ \A q \in quotes : q.seen <= clock /\ q.updated <= feed[q.market].updated
    /\ \A p \in Poller : Sees(poll[p])

OrderInv == TypeInv /\ BoardInv /\ ArchiveFollowsTheBoard

LEMMA RowsAreNumbers ==
    ASSUME TypeInv
    PROVE  /\ clock \in Nat /\ \A m \in Market : feed[m] \in Offer /\ feed[m].updated \in Nat
           /\ \A q \in quotes : q.market \in Market /\ q.seen \in Nat /\ q.updated \in Nat
  BY DEF TypeInv, WorldInv, ArchiveInv, QuoteRow, Offer

\* What a poll has seen stays true as the clock and the board move on.
LEMMA SightLasts ==
    ASSUME TypeInv, TypeInv', NEW r, PollOK(r), Sees(r), UNCHANGED quotes, clock <= clock',
           \A m \in Market : feed[m].updated <= feed'[m].updated
    PROVE  Sees(r)'
<1> SUFFICES ASSUME r # Idle
             PROVE  /\ r.seen <= clock' /\ \A q \in quotes' : q.seen < r.seen
                    /\ r.pc \in {"resolving", "writing"} =>
                         /\ \A m \in Market : r.board[m].updated <= feed'[m].updated
                         /\ \A q \in quotes' : q.updated <= r.board[q.market].updated
  BY DEF Sees
<1>1. /\ r.seen <= clock /\ \A q \in quotes : q.seen < r.seen
      /\ r.pc \in {"resolving", "writing"} =>
           /\ \A m \in Market : r.board[m].updated <= feed[m].updated
           /\ \A q \in quotes : q.updated <= r.board[q.market].updated
  BY DEF Sees
<1>2. r.seen \in Nat /\ clock \in Nat /\ clock' \in Nat
  BY PollStages DEF TypeInv, WorldInv
<1>3. r.seen <= clock'
  BY <1>1, <1>2
<1>4. ASSUME r.pc \in {"resolving", "writing"}, NEW m \in Market
      PROVE  r.board[m].updated <= feed'[m].updated
  <2>1. r.board \in [Market -> Offer]
    BY <1>4, PollStages DEF Resolving, Writing
  <2>2. r.board[m].updated \in Nat /\ feed[m].updated \in Nat /\ feed'[m].updated \in Nat
    BY <2>1 DEF TypeInv, WorldInv, Offer
  <2> QED  BY <1>1, <1>4, <2>2
<1> QED  BY <1>1, <1>3, <1>4

\* The time a poll starts at is after every snapshot; the board it is answered
\* with is the board.
LEMMA PollStepSees ==
    ASSUME OrderInv, NEW p \in Poller, PollStep(p)
    PROVE  /\ \E r : poll' = [poll EXCEPT ![p] = r] /\ Sees(r)'
           /\ UNCHANGED <<feed, quotes>> /\ clock' \in {clock, clock + 1}
<1>0. /\ PollOK(poll[p]) /\ Sees(poll[p]) /\ clock \in Nat
      /\ \A q \in quotes : q.seen \in Nat /\ q.seen <= clock /\ q.updated <= feed[q.market].updated
      /\ \A m \in Market : feed[m].updated \in Nat
  BY RowsAreNumbers DEF OrderInv, BoardInv, TypeInv, ProcessInv
<1>1. Sees(Idle)'
  BY DEF Sees
<1>2. CASE StartPoll(p)
  <2>1. PICK now : /\ now = IF \/ \E q \in quotes : q.seen = clock
                               \/ \E q \in Poller : poll[q] # Idle /\ poll[q].seen = clock
                            THEN clock + 1 ELSE clock
                   /\ clock' = now
                   /\ poll' = [poll EXCEPT ![p] = [pc |-> "asking", seen |-> now, tries |-> 1]]
                   /\ UNCHANGED <<feed, quotes>>
    BY <1>2 DEF StartPoll, Unread, archive
  <2>2. now \in {clock, clock + 1} /\ \A q \in quotes : q.seen < now
    BY <1>0, <2>1
  <2>3. PICK r : r = [pc |-> "asking", seen |-> now, tries |-> 1]
    OBVIOUS
  <2>4. r.pc = "asking" /\ r.seen = now
    BY <2>3
  <2>5. Sees(r)'
    BY <1>0, <2>1, <2>2, <2>4 DEF Sees
  <2> QED  BY <2>1, <2>2, <2>3, <2>5
<1>3. CASE Answered(p)
  <2>1. PICK r : r = [pc |-> "resolving", seen |-> poll[p].seen, board |-> feed,
                      times |-> slate["underdog"]]
    OBVIOUS
  <2>2. poll' = [poll EXCEPT ![p] = r] /\ UNCHANGED <<feed, quotes, clock>> /\ poll[p] # Idle
    BY <1>3, <2>1 DEF Answered, Unread, archive, Idle
  <2>3. r.seen = poll[p].seen /\ r.board = feed
    BY <2>1
  <2>4. poll[p].seen <= clock /\ \A q \in quotes : q.seen < poll[p].seen
    BY <1>0, <2>2 DEF Sees
  <2>5. Sees(r)'
    BY <1>0, <2>2, <2>3, <2>4 DEF Sees
  <2> QED  BY <2>2, <2>5
<1>4. CASE NotAnswered(p)
  <2>1. poll[p] \in Asking
    BY <1>0, <1>4, PollStages DEF NotAnswered
  <2>2. PICK r : r = [poll[p] EXCEPT !.tries = poll[p].tries + 1]
    OBVIOUS
  <2>3. p \in DOMAIN poll
    BY DEF OrderInv, TypeInv, ProcessInv
  <2>4. /\ poll' = [poll EXCEPT ![p] = Idle] \/ poll' = [poll EXCEPT ![p] = r]
        /\ UNCHANGED <<feed, quotes, clock>>
    <3>1. \/ poll' = [poll EXCEPT ![p] = Idle]
          \/ poll' = [poll EXCEPT ![p] = IF poll[p].tries = MaxTries THEN Idle ELSE r]
      BY <1>4, <2>2, <2>3 DEF NotAnswered
    <3> QED  BY <1>4, <3>1 DEF NotAnswered, Unread, archive
  <2>5. r.pc = "asking" /\ r.seen = poll[p].seen
    BY <2>1, <2>2 DEF Asking
  <2>6. poll[p] # Idle
    BY <2>1 DEF Asking, Idle
  <2>7. Sees(r)'
    BY <1>0, <2>4, <2>5, <2>6 DEF Sees
  <2> QED  BY <1>1, <2>4, <2>7
<1>5. CASE PutAside(p) \/ UnknownTeam(p) \/ TeamTaken(p)
  BY <1>1, <1>5 DEF PutAside, UnknownTeam, TeamTaken, Unread, archive, world
<1>6. CASE Resolve(p)
  <2>1. poll[p] \in Resolving
    BY <1>0, <1>6, PollStages DEF Resolve
  <2>2. PICK f, new :
         poll' = [poll EXCEPT ![p] =
              [pc |-> "writing", seen |-> poll[p].seen, board |-> poll[p].board,
               times |-> poll[p].times, found |-> f, minted |-> new]]
    BY <1>6 DEF Resolve
  <2>3. PICK r : r = [pc |-> "writing", seen |-> poll[p].seen, board |-> poll[p].board,
               times |-> poll[p].times, found |-> f, minted |-> new]
    OBVIOUS
  <2>4. r.seen = poll[p].seen /\ r.board = poll[p].board
    BY <2>3
  <2>5. poll[p] # Idle /\ poll[p].pc = "resolving"
    BY <2>1 DEF Resolving, Idle
  <2>6. UNCHANGED <<feed, quotes, clock>>
    BY <1>6 DEF Resolve, Unread, archive
  <2>7. Sees(r)'
    BY <1>0, <2>4, <2>5, <2>6 DEF Sees
  <2> QED  BY <2>2, <2>3, <2>6, <2>7
<1> QED  BY <1>2, <1>3, <1>4, <1>5, <1>6 DEF PollStep

LEMMA PollStepOrdered ==
    ASSUME OrderInv, NEW p \in Poller, PollStep(p)
    PROVE  OrderInv'
<1>1. TypeInv'
  BY PollStepTyped DEF OrderInv
<1>2. /\ \E r : poll' = [poll EXCEPT ![p] = r] /\ Sees(r)'
      /\ UNCHANGED <<feed, quotes>> /\ clock' \in {clock, clock + 1}
  BY PollStepSees
<1>3. /\ clock \in Nat /\ \A m \in Market : feed[m].updated \in Nat
      /\ \A q \in quotes : q.market \in Market /\ q.seen \in Nat
  BY RowsAreNumbers DEF OrderInv
<1>4. PICK r : poll' = [poll EXCEPT ![p] = r] /\ Sees(r)'
  BY <1>2
<1>5. ASSUME NEW q \in Poller PROVE Sees(poll[q])'
  <2>1. PollOK(poll[q]) /\ Sees(poll[q]) /\ p \in DOMAIN poll /\ q \in DOMAIN poll
    BY DEF OrderInv, BoardInv, TypeInv, ProcessInv
  <2>2. CASE q = p
    <3>1. poll'[q] = r
      BY <1>4, <2>1, <2>2
    <3> QED  BY <1>4, <3>1 DEF Sees
  <2>3. CASE q # p
    <3>1. poll'[q] = poll[q]
      BY <1>4, <2>1, <2>3
    <3>2. clock <= clock' /\ \A m \in Market : feed[m].updated <= feed'[m].updated
      BY <1>2, <1>3
    <3>3. PICK o : o = poll[q]
      OBVIOUS
    <3>4. Sees(o)'
      BY <1>1, <1>2, <2>1, <3>2, <3>3, SightLasts DEF OrderInv
    <3> QED  BY <3>1, <3>3, <3>4 DEF Sees
  <2> QED  BY <2>2, <2>3
<1>6. BoardInv'
  <2>1. \A m \in Market : feed'[m].updated <= clock'
    BY <1>2, <1>3 DEF OrderInv, BoardInv
  <2>2. \A q \in quotes' : q.seen <= clock' /\ q.updated <= feed'[q.market].updated
    BY <1>2, <1>3 DEF OrderInv, BoardInv
  <2> QED  BY <1>5, <2>1, <2>2 DEF BoardInv
<1> QED  BY <1>1, <1>2, <1>6 DEF OrderInv, ArchiveFollowsTheBoard

\* Steps of others move the clock and the board forward at most, and stop polls.
LEMMA OthersOrdered ==
    ASSUME OrderInv, TypeInv', UNCHANGED quotes, clock <= clock',
           \A m \in Market : feed[m].updated <= feed'[m].updated /\ feed'[m].updated <= clock',
           \A p \in Poller : poll'[p] \in {poll[p], Idle}
    PROVE  OrderInv'
<1>1. ASSUME NEW q \in Poller PROVE Sees(poll[q])'
  <2>1. CASE poll'[q] = Idle
    BY <2>1 DEF Sees
  <2>2. CASE poll'[q] = poll[q]
    <3>1. PICK o : o = poll[q]
      OBVIOUS
    <3>2. PollOK(o) /\ Sees(o)
      BY <3>1 DEF OrderInv, BoardInv, TypeInv, ProcessInv
    <3>3. Sees(o)'
      BY <3>2, SightLasts DEF OrderInv
    <3> QED  BY <2>2, <3>1, <3>3 DEF Sees
  <2> QED  BY <2>1, <2>2
<1>2. \A q \in quotes' : q.seen <= clock' /\ q.updated <= feed'[q.market].updated
  <2> TAKE q \in quotes'
  <2>1. q.market \in Market /\ q.seen \in Nat /\ q.updated \in Nat /\ clock \in Nat /\ clock' \in Nat
    BY RowsAreNumbers DEF OrderInv, TypeInv, WorldInv
  <2>2. feed[q.market].updated \in Nat /\ feed'[q.market].updated \in Nat
    BY <2>1 DEF OrderInv, TypeInv, WorldInv, Offer
  <2>3. q.seen <= clock /\ q.updated <= feed[q.market].updated
    BY DEF OrderInv, BoardInv
  <2> QED  BY <2>1, <2>2, <2>3
<1>3. BoardInv'
  BY <1>1, <1>2 DEF BoardInv
<1> QED  BY <1>3 DEF OrderInv, ArchiveFollowsTheBoard

\* A row of the archive after a commit was there with the same line, state and
\* time, or is a state of the poll's board seen at the poll's time.
LEMMA StoredRows ==
    ASSUME TypeInv, NEW p \in Poller, Store(p), NEW r \in quotes'
    PROVE  \/ \E q \in quotes : q.market = r.market /\ q.updated = r.updated /\ q.seen = r.seen
           \/ /\ r.market \in Market /\ r.updated = poll[p].board[r.market].updated
              /\ r.seen = poll[p].seen
<1>1. PICK b : b = poll[p]
  OBVIOUS
<1>2. Writing(b)
  BY <1>1, PollStages DEF Store, TypeInv, ProcessInv
<1>3. PICK order \in Orders(b) : quotes' = Enriched(quotes \cup Added(b, order), b)
  BY <1>1 DEF Store
<1>4. quotes \cup Added(b, order) \subseteq QuoteRow
  <2>1. \A q \in Added(b, order) : q \in QuoteRow
    BY <1>2, AddedAreLines, QuoteOfTyped
  <2> QED  BY <2>1 DEF TypeInv, ArchiveInv
<1>5. PICK q \in quotes \cup Added(b, order) : Enriches(q, r, b)
  BY <1>2, <1>3, <1>4, EnrichedRows
<1>6. r.market = q.market /\ r.updated = q.updated /\ r.seen = q.seen
  BY <1>5 DEF Enriches
<1>7. CASE q \in Added(b, order)
  <2>1. PICK m \in Parsed(b.board) : q = QuoteOf(b, m)
    BY <1>7, AddedAreLines
  <2>2. q.market = m /\ q.updated = b.board[m].updated /\ q.seen = b.seen /\ m \in Market
    BY <1>2, <2>1, QuoteOfTyped DEF Parsed
  <2> QED  BY <1>1, <1>6, <2>2
<1> QED  BY <1>5, <1>6, <1>7

LEMMA StoreOrdered ==
    ASSUME OnePoller, OrderInv, NEW p \in Poller, Store(p)
    PROVE  OrderInv'
<1>1. TypeInv' /\ poll'[p] = Idle
  BY StoreTyped DEF OrderInv
<1>2. UNCHANGED <<feed, clock>> /\ poll[p] # Idle /\ poll[p].pc = "writing"
  BY DEF Store, world, Idle
<1>3. /\ poll[p].seen <= clock /\ \A q \in quotes : q.seen < poll[p].seen
      /\ \A m \in Market : poll[p].board[m].updated <= feed[m].updated
      /\ \A q \in quotes : q.updated <= poll[p].board[q.market].updated
  BY <1>2 DEF OrderInv, BoardInv, Sees
<1>4. ASSUME NEW q \in Poller PROVE Sees(poll[q])'
  <2>1. q = p
    BY DEF OnePoller
  <2>2. poll'[q] = Idle
    BY <1>1, <2>1
  <2> QED  BY <2>2 DEF Sees
<1>5. \A r \in quotes' : r.seen <= clock' /\ r.updated <= feed'[r.market].updated
  <2> TAKE r \in quotes'
  <2>1. CASE \E q \in quotes : q.market = r.market /\ q.updated = r.updated /\ q.seen = r.seen
    BY <1>2, <2>1 DEF OrderInv, BoardInv
  <2>2. CASE /\ r.market \in Market /\ r.updated = poll[p].board[r.market].updated
             /\ r.seen = poll[p].seen
    BY <1>2, <1>3, <2>2
  <2> QED  BY <2>1, <2>2, StoredRows DEF OrderInv
<1>6. BoardInv'
  <2>1. \A m \in Market : feed'[m].updated <= clock'
    BY <1>2 DEF OrderInv, BoardInv
  <2> QED  BY <1>4, <1>5, <2>1 DEF BoardInv
<1>7. ArchiveFollowsTheBoard'
  <2> SUFFICES ASSUME NEW q \in quotes', NEW r \in quotes', q.market = r.market, q.updated < r.updated
               PROVE  q.seen < r.seen
    BY DEF ArchiveFollowsTheBoard
  <2> DEFINE Was(s) == \E o \in quotes : o.market = s.market /\ o.updated = s.updated /\ o.seen = s.seen
             New(s) == /\ s.market \in Market /\ s.updated = poll[p].board[s.market].updated
                       /\ s.seen = poll[p].seen
  <2>1. (Was(q) \/ New(q)) /\ (Was(r) \/ New(r))
    BY StoredRows DEF OrderInv
  <2>2. CASE Was(q) /\ Was(r)
    BY <2>2 DEF OrderInv, ArchiveFollowsTheBoard
  <2>3. CASE Was(q) /\ New(r)
    BY <1>3, <2>3
  <2>4. CASE New(q)
    <3>1. q.updated \in Nat /\ r.updated \in Nat
      BY <1>1 DEF TypeInv, ArchiveInv, QuoteRow
    <3>2. q.updated = poll[p].board[r.market].updated
      BY <2>4
    <3>3. CASE Was(r)
      BY <1>3, <3>1, <3>2, <3>3
    <3>4. CASE New(r)
      BY <3>1, <3>2, <3>4
    <3> QED  BY <2>1, <3>3, <3>4
  <2> QED  BY <2>1, <2>2, <2>3, <2>4
<1> QED  BY <1>1, <1>6, <1>7 DEF OrderInv

LEMMA StartOrdered == Init => OrderInv
<1> SUFFICES ASSUME Init PROVE OrderInv
  OBVIOUS
<1>1. \A q \in quotes : q.market \in Market /\ q.seen = 0 /\ q.updated = 0
  BY LedgerAssumption DEF Init
<1>2. \A m \in Market : feed[m].updated = 0
  BY DEF Init
<1>3. BoardInv
  BY <1>1, <1>2 DEF Init, BoardInv, Sees
<1>4. ArchiveFollowsTheBoard
  BY <1>1 DEF ArchiveFollowsTheBoard
<1> QED  BY <1>3, <1>4, Start DEF OrderInv

LEMMA StepOrdered == ASSUME OnePoller PROVE OrderInv /\ [Next]_vars => OrderInv'
<1> SUFFICES ASSUME OrderInv, [Next]_vars PROVE OrderInv'
  OBVIOUS
<1>0. TypeInv'
  BY Step DEF OrderInv
<1>1. /\ clock \in Nat
      /\ \A m \in Market : feed[m].updated \in Nat /\ feed[m].updated <= clock
  BY RowsAreNumbers DEF OrderInv, BoardInv
<1>2. CASE \E p \in Poller : PollStep(p)
  BY <1>2, PollStepOrdered
<1>3. CASE \E p \in Poller : Store(p)
  BY <1>3, StoreOrdered
<1>4. CASE \E m \in Market : MoveLine(m)
  <2>1. PICK m \in Market : MoveLine(m)
    BY <1>4
  <2>2. PICK x : feed' = [feed EXCEPT ![m] = [price |-> x, updated |-> clock + 1]]
    BY <2>1 DEF MoveLine
  <2>3. clock' = clock + 1 /\ UNCHANGED <<quotes, poll>>
    BY <2>1 DEF MoveLine, archive
  <2>4. \A k \in Market : feed'[k].updated = IF k = m THEN clock + 1 ELSE feed[k].updated
    BY <2>2 DEF OrderInv, TypeInv, WorldInv
  <2> QED  BY <1>0, <1>1, <2>3, <2>4, OthersOrdered
<1>5. CASE UNCHANGED <<clock, feed, quotes>> /\ \A p \in Poller : poll'[p] \in {poll[p], Idle}
  <2>1. /\ clock <= clock'
        /\ \A m \in Market : feed[m].updated <= feed'[m].updated /\ feed'[m].updated <= clock'
    BY <1>1, <1>5
  <2> QED  BY <1>0, <1>5, <2>1, OthersOrdered
<1>6. CASE UNCHANGED vars \/ \E s \in Source, g \in Movable : Reschedule(s, g)
  BY <1>5, <1>6 DEF vars, world, archive, Reschedule
<1>7. CASE EspnRead \/ EspnWrite \/ EspnRefused
  BY <1>5, <1>7 DEF EspnRead, EspnWrite, EspnRefused, world, archive
<1>8. CASE Killed
  <2>1. \A p \in Poller : poll'[p] \in {poll[p], Idle}
    BY <1>8 DEF Killed, OrderInv, TypeInv, ProcessInv
  <2> QED  BY <1>5, <1>8, <2>1 DEF Killed, world, archive
<1>9. CASE ApproveNames \/ ImportLegacy \/ NormalizeHistory
  BY <1>5, <1>9 DEF ApproveNames, ImportLegacy, NormalizeHistory, world, archive
<1> QED  BY <1>2, <1>3, <1>4, <1>6, <1>7, <1>8, <1>9 DEF Next, PollStep

\* Where one process polls at a time, the newest snapshot of a line is the newest
\* state the archive has of it: what the forecast run reads by system_from is
\* what the board showed last, through lost polls, retries and kills.
THEOREM ArchiveIsOrdered == ASSUME OnePoller PROVE Spec => []ArchiveFollowsTheBoard
<1>1. OrderInv /\ [Next]_vars => OrderInv'
  BY StepOrdered
<1>2. OrderInv => ArchiveFollowsTheBoard
  BY DEF OrderInv
<1> QED  BY <1>1, <1>2, StartOrdered, PTL DEF Spec

-----------------------------------------------------------------------------
(* The monitor's table. A run inserts for the codes it finds no open row   *)
(* of; until it commits, the other may, too, but then neither again.       *)

Watcher == {Timer, Typed}

WatchShape == [at : {"rest", "found", "written"}, failing : SUBSET Asked, resolved : SUBSET Asked,
               refreshed : SUBSET Asked, inserted : SUBSET Asked]

\* What a run is about to add to a code.
Adds(w, c) == IF c \in w.inserted THEN 1 ELSE 0

WatchInv ==
    /\ hour \in Hour /\ made \subseteq Work
    /\ openRows \in [Asked -> Nat] /\ watch \in [Watcher -> WatchShape]
    /\ \A p \in Watcher : watch[p].at # "written" => watch[p].inserted = {}
    /\ \A c \in Asked : openRows[c] + Adds(watch[Timer], c) + Adds(watch[Typed], c) <= 2

LEMMA IdleWatchAddsNothing ==
    /\ IdleWatch \in WatchShape /\ IdleWatch.inserted = {}
    /\ \A c : Adds(IdleWatch, c) = 0
  BY DEF IdleWatch, WatchShape, Adds

\* One run goes on, adding to the codes in extra, of which no row is open.
LEMMA WatchMoves ==
    ASSUME WatchInv, NEW p \in Watcher, NEW w \in WatchShape,
           watch' = [watch EXCEPT ![p] = w], UNCHANGED <<hour, made, openRows>>,
           w.at # "written" => w.inserted = {},
           \A c \in w.inserted : openRows[c] = 0
    PROVE  WatchInv'
<1>1. /\ watch' \in [Watcher -> WatchShape] /\ watch'[p] = w
      /\ \A q \in Watcher \ {p} : watch'[q] = watch[q]
  BY DEF WatchInv
<1>2. \A q \in Watcher : watch'[q].at # "written" => watch'[q].inserted = {}
  BY <1>1 DEF WatchInv
<1>3. ASSUME NEW c \in Asked
      PROVE  openRows[c] + Adds(watch'[Timer], c) + Adds(watch'[Typed], c) <= 2
  <2>1. /\ openRows[c] \in Nat
        /\ \A q \in Watcher : Adds(watch[q], c) \in {0, 1} /\ Adds(watch'[q], c) \in {0, 1}
    BY DEF WatchInv, Adds
  <2>2. CASE c \in w.inserted
    BY <2>1, <2>2 DEF Watcher
  <2>3. CASE c \notin w.inserted
    <3>1. Adds(watch'[p], c) = 0
      BY <1>1, <2>3 DEF Adds
    <3>2. \A q \in Watcher : Adds(watch'[q], c) <= Adds(watch[q], c)
      <4> TAKE q \in Watcher
      <4>1. CASE q = p
        BY <2>1, <3>1, <4>1
      <4>2. CASE q # p
        <5>1. watch'[q] = watch[q]
          BY <1>1, <4>2
        <5> QED  BY <2>1, <5>1
      <4> QED  BY <4>1, <4>2
    <3>3. openRows[c] + Adds(watch[Timer], c) + Adds(watch[Typed], c) <= 2
      BY DEF WatchInv
    <3> QED  BY <2>1, <3>2, <3>3 DEF Watcher
  <2> QED  BY <2>2, <2>3
<1>4. (hour \in Hour /\ made \subseteq Work /\ openRows \in [Asked -> Nat])'
  BY DEF WatchInv
<1>5. \A c \in Asked : (openRows[c] + Adds(watch[Timer], c) + Adds(watch[Typed], c) <= 2)'
  BY <1>3
<1> QED  BY <1>1, <1>2, <1>4, <1>5 DEF WatchInv

LEMMA WatchStarts == MonitorInit => WatchInv
<1> SUFFICES ASSUME MonitorInit PROVE WatchInv
  OBVIOUS
<1>1. watch = [p \in Watcher |-> IdleWatch] /\ openRows = [c \in Asked |-> 0]
  BY DEF MonitorInit, Watcher
<1>2. \A p \in Watcher : watch[p] = IdleWatch
  BY <1>1
<1>3. \A c \in Asked : openRows[c] = 0 /\ Adds(watch[Timer], c) = 0 /\ Adds(watch[Typed], c) = 0
  BY <1>1, <1>2, IdleWatchAddsNothing DEF Watcher
<1>4. hour \in Hour /\ made \subseteq Work
  BY DEF MonitorInit, Hour, Work
<1>5. watch \in [Watcher -> WatchShape] /\ openRows \in [Asked -> Nat]
  BY <1>1, IdleWatchAddsNothing
<1>6. \A p \in Watcher : watch[p].inserted = {}
  BY <1>2, IdleWatchAddsNothing
<1> QED  BY <1>3, <1>4, <1>5, <1>6 DEF WatchInv

LEMMA WatchSteps == WatchInv /\ [MonitorNext]_monitorVars => WatchInv'
<1> SUFFICES ASSUME WatchInv, [MonitorNext]_monitorVars PROVE WatchInv'
  OBVIOUS
<1>1. CASE UNCHANGED monitorVars
  BY <1>1 DEF monitorVars, WatchInv
<1>2. CASE Pass \/ \E work \in Work : Produce(work) \/ Outdate(work)
  <2>1. UNCHANGED <<openRows, watch>>
    BY <1>2 DEF Pass, Produce, Outdate
  <2>2. hour' \in Hour /\ made' \subseteq Work
    BY <1>2 DEF Pass, Produce, Outdate, WatchInv, Hour
  <2> QED  BY <2>1, <2>2 DEF WatchInv
<1>3. ASSUME NEW p \in Watcher, Check(p)
      PROVE  WatchInv'
  <2>1. PICK raised \in SUBSET Asked :
            watch' = [watch EXCEPT ![p] = [IdleWatch EXCEPT
                       !.at = "found", !.failing = raised \cup {c \in Asked : Failing(c)}]]
    BY <1>3 DEF Check
  <2> DEFINE w == [IdleWatch EXCEPT !.at = "found", !.failing = raised \cup {c \in Asked : Failing(c)}]
  <2>2. w \in WatchShape /\ w.inserted = {}
    BY DEF IdleWatch, WatchShape
  <2>3. watch' = [watch EXCEPT ![p] = w] /\ UNCHANGED <<hour, made, openRows>>
    BY <1>3, <2>1 DEF Check
  <2> HIDE DEF w
  <2> QED  BY <2>2, <2>3, WatchMoves
<1>4. ASSUME NEW p \in Watcher, Reconcile(p)
      PROVE  WatchInv'
  <2>1. watch[p] \in WatchShape
    BY DEF WatchInv
  <2> DEFINE failing == watch[p].failing
             w == [at |-> "written", failing |-> failing, resolved |-> Cleared(failing),
                   refreshed |-> OpenCodes \cap failing, inserted |-> Inserted(failing)]
  <2>2. /\ watch' = [watch EXCEPT ![p].at = "written", ![p].resolved = Cleared(failing),
                       ![p].refreshed = OpenCodes \cap failing, ![p].inserted = Inserted(failing)]
        /\ UNCHANGED <<hour, made, openRows>>
    BY <1>4 DEF Reconcile
  <2>3. watch' = [watch EXCEPT ![p] = w]
    <3>1. DOMAIN watch = Watcher
      BY DEF WatchInv
    <3>2. watch'[p] = w
      BY <2>1, <2>2, <3>1 DEF WatchShape
    <3>3. watch' = [q \in Watcher |-> IF q = p THEN watch'[p] ELSE watch[q]]
      BY <2>2, <3>1
    <3> HIDE DEF w
    <3> QED  BY <3>1, <3>2, <3>3
  <2>4. failing \subseteq Asked
    BY <2>1 DEF WatchShape
  <2>5. OpenCodes \subseteq Asked /\ \A c \in Asked \ OpenCodes : openRows[c] = 0
    BY DEF WatchInv, OpenCodes
  <2> HIDE DEF failing
  <2>6. w \in WatchShape /\ w.at = "written"
    BY <2>4, <2>5 DEF WatchShape, Cleared, Inserted
  <2>7. \A c \in w.inserted : openRows[c] = 0
    BY <2>4, <2>5 DEF Inserted
  <2> HIDE DEF w
  <2> QED  BY <2>2, <2>3, <2>6, <2>7, WatchMoves
<1>5. ASSUME NEW p \in Watcher, CommitWatch(p)
      PROVE  WatchInv'
  <2>1. /\ watch[p] \in WatchShape /\ DOMAIN watch = Watcher
        /\ \A c \in Asked : openRows[c] \in Nat
    BY DEF WatchInv
  <2>2. /\ openRows' = [c \in Asked |-> IF c \in watch[p].resolved THEN 0
                                        ELSE IF c \in watch[p].inserted THEN openRows[c] + 1 ELSE openRows[c]]
        /\ watch' = [watch EXCEPT ![p] = IdleWatch] /\ UNCHANGED <<hour, made>>
    BY <1>5 DEF CommitWatch
  <2>3. /\ watch' \in [Watcher -> WatchShape] /\ watch'[p] = IdleWatch
        /\ \A q \in Watcher \ {p} : watch'[q] = watch[q]
    BY <2>2, IdleWatchAddsNothing DEF WatchInv
  <2>4. \A q \in Watcher : watch'[q].at # "written" => watch'[q].inserted = {}
    BY <2>3, IdleWatchAddsNothing DEF WatchInv
  <2>5. openRows' \in [Asked -> Nat]
    BY <2>1, <2>2
  <2>6. ASSUME NEW c \in Asked
        PROVE  openRows'[c] + Adds(watch'[Timer], c) + Adds(watch'[Typed], c) <= 2
    <3>1. openRows'[c] <= openRows[c] + Adds(watch[p], c)
      BY <2>1, <2>2 DEF Adds
    <3>2. Adds(watch'[p], c) = 0 /\ \A q \in Watcher \ {p} : Adds(watch'[q], c) = Adds(watch[q], c)
      BY <2>3, IdleWatchAddsNothing
    <3>3. /\ openRows[c] \in Nat /\ openRows'[c] \in Nat
          /\ \A q \in Watcher : Adds(watch[q], c) \in {0, 1}
      BY <2>1, <2>5 DEF Adds
    <3>4. openRows[c] + Adds(watch[Timer], c) + Adds(watch[Typed], c) <= 2
      BY DEF WatchInv
    <3>5. CASE p = Timer
      BY <3>1, <3>2, <3>3, <3>4, <3>5, MonitorAssumption DEF Watcher
    <3>6. CASE p = Typed
      BY <3>1, <3>2, <3>3, <3>4, <3>6, MonitorAssumption DEF Watcher
    <3> QED  BY <3>5, <3>6 DEF Watcher
  <2>7. (hour \in Hour /\ made \subseteq Work)'
    BY <2>2 DEF WatchInv, Hour, Work
  <2>8. \A c \in Asked : (openRows[c] + Adds(watch[Timer], c) + Adds(watch[Typed], c) <= 2)'
    BY <2>6
  <2> QED  BY <2>3, <2>4, <2>5, <2>7, <2>8 DEF WatchInv
<1>6. ASSUME NEW p \in Watcher, Die(p)
      PROVE  WatchInv'
  <2>1. watch' = [watch EXCEPT ![p] = IdleWatch] /\ UNCHANGED <<hour, made, openRows>>
    BY <1>6 DEF Die
  <2> QED  BY <2>1, IdleWatchAddsNothing, WatchMoves
<1> QED  BY <1>1, <1>2, <1>3, <1>4, <1>5, <1>6 DEF MonitorNext, WatchStep, Watcher

\* For any checks, errors and deaths, a code never has more open rows than the two
\* processes that may have found it without one at once (liveness.py,
\* run_liveness_checks), and the runs hold codes that are asked about.
THEOREM IncidentsStayFew == MonitorSpec => [](IncidentsDoNotPileUp /\ MonitorTypeOK)
<1>1. WatchInv => IncidentsDoNotPileUp /\ MonitorTypeOK
  <2> SUFFICES ASSUME WatchInv PROVE IncidentsDoNotPileUp /\ MonitorTypeOK
    OBVIOUS
  <2>1. ASSUME NEW c \in Asked
        PROVE  openRows[c] <= 2
    <3>1. /\ openRows[c] \in Nat /\ Adds(watch[Timer], c) \in Nat /\ Adds(watch[Typed], c) \in Nat
          /\ openRows[c] + Adds(watch[Timer], c) + Adds(watch[Typed], c) <= 2
      BY DEF WatchInv, Adds
    <3> QED  BY <3>1
  <2>2. \A p \in {Timer, Typed} : watch[p].failing \subseteq Asked
    BY DEF WatchInv, Watcher, WatchShape
  <2> QED  BY <2>1, <2>2 DEF WatchInv, IncidentsDoNotPileUp, MonitorTypeOK
<1> QED  BY <1>1, WatchStarts, WatchSteps, PTL DEF MonitorSpec
=============================================================================
