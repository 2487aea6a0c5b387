\* Two statements, two transactions of up to two statements, a Reset.
SPECIFICATION FairSpec
CONSTANTS
    Statement = {s1, s2}
    Transaction = {t1, t2}
    Exclusive = {reset}
    Nobody = Nobody
    MaxInner = 2
    MaxFollow = 2
PROPERTIES
    Isolated
    EveryCallEnds
