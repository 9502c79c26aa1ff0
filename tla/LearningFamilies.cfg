SPECIFICATION Spec
CONSTANTS
    Episode = {1, 2, 3, 4}
    Market = {m1, m2, m3}
    Game = {g1, g2}
    Prop = {pts, reb}
    m1 = m1
    m2 = m2
    m3 = m3
    g1 = g1
    g2 = g2
    pts = pts
    reb = reb
    MarketOf <- MCMarketOf
    GameOf <- MCGameOf
    PropOf <- MCPropOf
    RawOf <- MCRawOf
    Component = {"market_prior"}
    AnswerOf <- MCAnswerOf
    Boxes <- MCBoxes
    ClosingOf <- MCClosingOf
    Line = 15
    Projected = 15
    ProjectedMinutes = 30
    Quality = 85
    Found <- MCTwoFamilies
    Gains <- MCGains
    Curves = {}
    ReadCurve <- MCReadCurve
    MinimumCalibration = 2
    MinimumWeights = 3
    MinimumShrink = 2
    ShrinkPrior = 2
    MinimumSample = 2
    Page = 1
    Nightly = Nightly
    Timer = Timer
    Cli = Cli
    None = None
    Void = Void
    MaxFits = 1
    MaxKills = 0
INVARIANT FamiliesKeepTheirPrior
