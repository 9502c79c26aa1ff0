SPECIFICATION FairSpec
CONSTANTS
    g1 = g1
    g2 = g2
    d1 = d1
    d2 = d2
    m1 = m1
    m2 = m2
    m3 = m3
    l1 = l1
    l2 = l2
    Game = {g1, g2}
    Date = {d1}
    Market = {m1, m2, m3}
    Leg = {l1, l2}
    DateOf <- OneDate
    GameOf <- FirstGame
    PlayerProp <- Players
    Supported <- Scored
    Line <- Ones
    Side <- Overs
    LegMarket <- EachPlayer
    LegLine <- OnesTaken
    LegSide <- UndersTaken
    LegSlip <- OneSlip
    FromBoard <- SecondLeg
    Known = {l1, l2}
    Board <- InTurn
    Rows <- Shown
    Stat = {1, 2}
    Benched = Benched
    Absent = Absent
    Lookback = 1
    Lookahead = 1
    PageLimit = 1
    VoidLimit = 1
    Unit = unit
    Program <- Units
    Human = {cli}
    MaxEpisodes = 3
    MaxCorrections = 1
    MaxMishaps = 1
    MaxTyped = 1
    NoEpisode = NoEpisode
INVARIANTS
    LedgerIsComplete
    SlipsCloseWhole
PROPERTIES
    FinalIsSettled
    BoardLegIsGraded
