SPECIFICATION ForecastSpec
CONSTANTS
    a = a
    b = b
    ma = ma
    Player = {a, b}
    Market = {ma}
    PlayerOf <- OfA
    Scoreable = {ma}
    LocksAt <- LocksLate
    Proc = {p, q}
    None = None
    MaxClock = 3
    MaxQuotes = 2
    MaxStats = 1
    MaxReports = 2
    q1 = q1
    q2 = q2
    q3 = q3
    One = 1536
    Quote = {q1, q2, q3}
    Queue <- InQueue
    Scores <- ScoresOf
    Evidences <- Found
    Rule <- Rules
    Factor = 3
    Breakeven = 886
    Margin = 30
    Missing = Missing
    LegPlayer <- Players
    LegMarket <- Markets
    LegTeam <- Teams
    LegGame <- Games
    Trusts <- TrustOf
    Payouts <- Table
    Fitted = {"same_team", "different_game"}
    Grid = 12
    Tick = 128
    MinEdge = 4
    Edges = {3, 4}
    PerPosition = 1
    PerGame = 2
    PerDay = 3
    MaxPerGame = 2
    MaxPerPlayer = 1
    MaxPerTeam = 2
    MaxEntries = 4
SYMMETRY Processes
CHECK_DEADLOCK FALSE
INVARIANTS
    TypeOK
    StaleForecastsAreDue
    RestrictionsOnlyRestrict
    ProjectedMinutesAreKept
    RuleOrderIsImmaterial
    QualifiedLegsBreakEven
    PricedEntriesStayWithinThePolicy
PROPERTIES
    ContextNeverRunsBack
