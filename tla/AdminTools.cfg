SPECIFICATION MCSpec
CONSTANTS
    r1 = r1  acme = acme  nova = nova  nova2 = nova2  ada = ada  j1 = j1  j2 = j2
    Record = {r1, r2, r3}
    Slug = {acme, nova, nova2}
    Name = {ada}
    Job = {j1, j2}
    File <- MCFile
    Alike <- MCAlike
    Request = {q1, q2}
    Suffixed <- MCSuffixed
    Seeds <- MCSeeds
    MaxEdits = 1
    NoSlug = NoSlug  NoName = NoName  NoRecord = NoRecord  NoJob = NoJob
    Item = {t1, t2}  Incomplete = {t2}  DryRuns = {1, 2}  Upload = {f1, f2}  Member = {m1}
    Thing = {r2, r3}  Field = {f1, f2}  Own = f1  MaxVisits = 2  MaxImages = 3
    MaxRedirects = 1  MaxLogos = 2  MaxCovers = 2
    None = None
SYMMETRY MCSymmetry
PROPERTIES ImportsAsReviewed ImportIsOneStep ToldTruly ActsAsShown
CHECK_DEADLOCK FALSE
