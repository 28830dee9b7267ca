CONSTANTS
    KeyIds = {k1, k2}
    Threads = {t1, t2, t3}
    Ttl = 4
    Retry = 1
    MaxFetch = 2

SPECIFICATION JwksSpec
SYMMETRY MCSymmetry

INVARIANTS
    PublishedAccepted
    WithdrawnRefused
