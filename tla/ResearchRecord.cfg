SPECIFICATION FairSpec
CONSTANTS
    p1 = p1
    p2 = p2
    p3 = p3
    Projection = {p1, p2, p3}
    Triggered = {p1, p2, p3}
    Poor = {p3}
    Generated <- ThirdIsNewest
    Ageing <- OneAges
    Run = {r1, r2, r3, r4}
    Analyst = {a1}
    Skeptic = skeptic
    Timer = timer
    Human = {web}
    Limit = 3
    MaxMishaps = 1
    MaxAsks = 1
    NoRun = NoRun
    NoProjection = NoProjection
INVARIANTS
    ResearchIsNotRepaid
    VerdictsAreReviewed
PROPERTIES
    TriggeredIsResearched
