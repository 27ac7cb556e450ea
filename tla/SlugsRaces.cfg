SPECIFICATION Spec
CONSTANTS
    e1 = e1  e2 = e2
    acme = acme  acme2 = acme2  nova = nova
    name1 = name1
    t1 = t1  t2 = t2  r1 = r1
    Entity = {e1, e2}
    Slug = {acme, acme2}
    Name = {name1}
    Candidates <- MCCandidates
    Tx = {t1, t2}
    Reader = {r1}
    Erasable = TRUE
    Nobody = Nobody  NoSlug = NoSlug
SYMMETRY MCSymmetry
INVARIANTS OldSlugsKept RedirectsHaveRecords OnlyRacesTakeOldSlugs OnlyMovingBackMisses
\* Once every record is deleted there is nothing left to do.
CHECK_DEADLOCK FALSE
