SPECIFICATION Spec
CONSTANTS
    d1 = d1
    d2 = d2
    d3 = d3
    a1 = a1
    a2 = a2
    a3 = a3
    Decision = {d1, d2, d3}
    Needed = {d1, d2}
    Blocking = {d1, d3}
    Defaulted = {d3}
    Key = {k1, k2}
    Text = {x1, x2, x3}
    Agent = {a1, a2, a3}
    Registered = {a1, a3}
    Domain = {"backend", "product"}
    DomainOf <- MCDomainOf
    Partners <- MCPartners
    MinSurviving = 2
    MinCount = 2
    MaxIter = 2
    MaxRounds = 3
    RequiredMin = 2
    MaxTries = 2
    Confidence = {0, 80, 100}
    MaxBatch = 2
    MaxFlags = 2
INVARIANTS
    MissingIsRetried
PROPERTIES
    RewritesAreFresh
    DebatedEnough
SYMMETRY Symmetry
CHECK_DEADLOCK FALSE
