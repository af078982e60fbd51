SPECIFICATION ConcernsSpec
CONSTANTS
    p = p
    q = q
    x = x
    y = y
    print = print
    e1 = e1
    e2 = e2
    i1 = i1
    i2 = i2
    r1 = r1
    c1 = c1
    c2 = c2
    t1 = t1
    None = None
    Paths = {p, q}
    Contents = {x, y}
    FingerprintOf <- MCFingerprintOf
    Episodes = {e1, e2}
    Imports = {i1, i2}
    Relinks = {r1}
    Confirms = {c1, c2}
    Tokens = {t1}
    MaxChanges = 3
INVARIANTS DuplicatesAreResolved ConfirmationIsSingleUse ReadyIsAnalysed
PROPERTY SourcesAreReconciled
