---------------------------- MODULE MCScoreEncoding ----------------------------
EXTENDS ScoreEncoding

\* Scores up to 2^5 - 1 at 8 significant bits: the unit in the last place
\* at the top score (1/8) is below twice the smallest time fraction
\* (2/20), as 2^-26 at 10^8 is far below twice 1.76e9 / 3.17e11 for f64.
MCRaw == 0..31

\* Times after the first two seconds, as real times are far after the epoch.
MCTimes == 2..19
====
