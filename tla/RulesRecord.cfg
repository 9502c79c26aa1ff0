SPECIFICATION Spec
CONSTANTS
    e1 = e1
    e2 = e2
    e3 = e3
    e4 = e4
    m1 = m1
    m2 = m2
    m3 = m3
    g1 = g1
    g2 = g2
    calm = calm
    draft = draft
    overconfidence = overconfidence
    None = None
    weekly = weekly
    Rule = {calm, draft}
    Episode = {e1, e2, e3}
    Market = {m1, m2, m3}
    Game = {g1, g2}
    Category = {overconfidence}
    Templates = {overconfidence}
    Drafts = {draft}
    AgentDrafts = {calm}
    Human = {owner}
    Process = {weekly}
    Weekly = weekly
    MinimumFailures = 1
    MinimumFired = 1
    MinimumLive = 1
    Breakeven = 58
    MaxAborts = 0
    MarketOf <- MCMarketOf
    GameOf <- MCGameOf
    CategoryOf <- MCCategoryOf
    Catalogue <- MCCatalogue
    KindOf <- MCBlock
    Replays <- MCSomewhere
    FiresOn <- MCEverywhere
INVARIANT AuthorityIsEarned
INVARIANT ForecastsHeedSignedRules
INVARIANT SuspensionIsMeasured
PROPERTY ImplementsGovernance
