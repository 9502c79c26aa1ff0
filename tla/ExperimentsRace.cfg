SPECIFICATION FairSpec
CONSTANTS
    baseline = baseline
    bayes = bayes
    statespace = statespace
    e1 = e1
    e2 = e2
    e3 = e3
    m1 = m1
    m2 = m2
    m3 = m3
    g1 = g1
    g2 = g2
    None = None
    Baseline = baseline
    Challenger = {bayes}
    Episode = {e1, e2}
    Market = {m1, m2, m3}
    Game = {g1, g2}
    MarketOf <- MCMarketOf
    GameOf <- MCGameOf
    Human = {owner}
    Evaluator = {timer, cli}
    ExperimentCount = 1
    Minimums = {0, 2}
    MaxAborts = 1
INVARIANT PromotionIsBackedByData
INVARIANT EvidenceIsNeverOverstated
PROPERTY RunningExperimentIsSettled
