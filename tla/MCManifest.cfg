\* Two processes, two files, two versions, one call that fails or process that dies.
SPECIFICATION Spec
CONSTANTS
    None = None
    w1 = w1
    w2 = w2
    f1 = f1
    f2 = f2
    n1 = n1
    n2 = n2
    n3 = n3
    Writers = {w1, w2}
    Files = {f1, f2}
    Names = {n1, n2, n3}
    MaxVer = 2
    MaxFaults = 1
SYMMETRY Symmetry
INVARIANTS
    TypeOK
    ManifestNeverTorn
    TempsAccountedFor
    HashesMatch
