SPECIFICATION SiteSpec
CONSTANTS
    s1 = s1
    s2 = s2
    f1 = f1
    i1 = i1
    b1 = b1
    r1 = r1
    x1 = x1
    c1 = c1
    n1 = n1
    Startup = {s1, s2}
    Founder = {f1}
    Investor = {i1}
    Batch = {b1}
    Round = {r1}
    StartupOf <- MCStartupOf
    Role = {"ceo", "cto"}
    Industry = {x1}
    City = {c1}
    CountryOf <- MCCountryOf
    Hits <- MCHits
    Seeds <- MCSeeds
    MaxWrites = 2
    MaxNested = 1
    None = None
    Company = {k1, k2}
    End = {o1}
    List = List
    Tx = {t1, t2}
    MaxTx = 2
SYMMETRY MCSymmetry
INVARIANTS ShownTruly StaleIsExpired
PROPERTIES QuietPagesWhole DeletedUnseen OnlyLateTiesMissed
CHECK_DEADLOCK FALSE
