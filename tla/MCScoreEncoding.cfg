\* calc_score at 8 significant bits against a base of 20 seconds.
CONSTANTS
    Precision = 8
    Base = 20
    Raw <- MCRaw
    Times <- MCTimes
SPECIFICATION Spec
INVARIANT DecodeLaw
INVARIANT RankOrder
