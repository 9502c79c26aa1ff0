SPECIFICATION Spec
CONSTANTS
    m = m
    x = x
    a = a
    d = d
    c = c
    g = g
    h = h
    k = k
    e = e
    Poller = {p}
    Market = {m, x}
    Person = {a, d, c}
    PersonOf <- OfA
    Prop = {"points"}
    PropOf <- Points
    Game = {g, h, k}
    GameOf <- Games
    NameOf <- Names
    Roster <- Both
    Franchise = {"old", "new", "guest"}
    Teams <- Sides
    Known = {"old", "new"}
    Established = {"old"}
    OldRows <- Untied
    Event = {e}
    EventOf <- OneEvent
    LegacyRow = {d, c}
    LegacyName <- Rows
    Near <- InReach
    Price = {"even", "odd"}
    Shows <- Shown
    Announced <- First
    None = None
    MaxTries = 2
    Window = 1
    Times = {0, 2}
    MaxMoves = 2
    MaxChanges = 1
    Movable = {g}
ACTION_CONSTRAINT QuietImport
CHECK_DEADLOCK FALSE
INVARIANTS
    TypeOK
    ArchiveFollowsTheBoard
PROPERTIES
    QuotesStand
    MappedGamesAreUnambiguous
