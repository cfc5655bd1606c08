----------------------------- MODULE MCRankEngine -----------------------------
EXTENDS RankEngine, TLC

CONSTANTS u1, u2, u3, w1, w2, g1, t1

\* With pages of two rows: three openids make rehydration read a full page
\* and then a short one; two make it read a full page and then an empty one,
\* or a single short page.
MCUserOrder3 == <<u1, u2, u3>>
MCUserOrder2 == <<u1, u2>>
MCUserOrder1 == <<u1>>
MCScores == {1, 2}
MCWriters2 == {w1, w2}
MCWriters1 == {w1}
MCReaders1 == {g1}
MCReaders0 == {}
MCTopReaders1 == {t1}
MCTopReaders0 == {}
\* top_n below and above the number of openids on the board.
MCTopNs == {1, 2}
====
