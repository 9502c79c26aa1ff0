SPECIFICATION Spec
CONSTANTS
    None = None
    MaxAttempts = 2
    FeedbackRetries = 1
    Turns = 3
    MaxOpen = 2
    MaxRounds = 1
    MaxCalls = 2
    MaxReplay = 3
    mi = mi
    ef = ef
    m1 = m1
    m2 = m2
    m3 = m3
    g1 = g1
    g2 = g2
    pts = pts
    Episode = {1, 2, 3}
    Market = {m1, m2, m3}
    Game = {g1, g2}
    MarketOf <- MCMarketOf
    GameOf <- MCGameOf
    PropOf <- MCPropOf
    PrimaryOf <- MCPrimaryOf
    SecondaryOf <- MCSecondaryOf
    Avoidable = {1, 2, 3}
    Cause = {mi, ef}
    Reviewer = {Timer, Typed}
    MinimumFailures = 1
    MinimumReview = 1
    MinimumErrors = 2
    Configured = {TRUE}
    MaxRuns = 1
    MaxLosses = 1
    Asked = {"GAME_PAST_TIPOFF_NOT_FINAL", "CURRENT_FORECAST_WITHOUT_JOINT_SIMULATION"}
    Timer = Timer
    Typed = Typed
    MaxTyped = 1
    MaxErrors = 1
    MaxDeaths = 1
    x = x
    Exhibit = {x}
    Requests = 3
    Ranker = {Timer, Typed}
    Nothing = Nothing
INVARIANTS
    ReplaysAreConversations
    BeliefsAreOnRecord
    OwnerIsHeard
PROPERTY
    IncidentsComeTrue
CHECK_DEADLOCK FALSE
