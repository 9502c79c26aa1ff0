SPECIFICATION Spec
CONSTANTS
    baseline = baseline
    bayes = bayes
    statespace = statespace
    e1 = e1
    e2 = e2
    e3 = e3
    m1 = m1
    m2 = m2
    m3 = m3
    g1 = g1
    g2 = g2
    None = None
    Baseline = baseline
    Challenger = {bayes}
    Episode = {e1}
    Market = {m1, m2, m3}
    Game = {g1, g2}
    MarketOf <- MCMarketOf
    GameOf <- MCGameOf
    Human = {owner}
    Evaluator = {timer}
    ExperimentCount = 1
    Minimums = {1}
    MaxAborts = 0
INVARIANT PromotionCanBeRolledBack
