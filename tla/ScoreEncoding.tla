---------------------------- MODULE ScoreEncoding ----------------------------
(***************************************************************************)
(* The score stored in the redis sorted set (rank_repository.rs           *)
(* calc_score) and its decoding (get_user_score_from_redis,               *)
(* RankService::get_top_user_rank):                                        *)
(*                                                                         *)
(*   encode(r, t) = r as f64 + (BASE - t as f64) / BASE      (f64)        *)
(*   decode(v)    = v as i32                                 (truncation) *)
(*                                                                         *)
(* with t the submission's Unix time in seconds.  Each f64 operation       *)
(* rounds its exact result to the nearest value with Precision significant *)
(* bits (ties to even); the subtraction and the conversions are exact at   *)
(* these magnitudes.  A double is represented exactly as an integer count  *)
(* of 2^-FracBits.  The redis round trip (ZADD of the shortest decimal     *)
(* form, ZSCORE parsed back) returns the same double and is not a step.   *)
(*                                                                         *)
(* TLC's integers are 32 bits wide, so the model runs the same arithmetic  *)
(* at a smaller Precision and Base, with scores and times in the same      *)
(* relation to them (see README).                                          *)
(***************************************************************************)
EXTENDS Integers

CONSTANTS
    Precision,  \* significant bits of a double (53 for f64)
    Base,       \* CALC_SCORE_BASE_TIME_STAMP, in seconds
    Raw,        \* raw scores accepted by update_score
    Times       \* submission times, in seconds

ASSUME Precision \in Nat \ {0} /\ Base \in Nat \ {0}
ASSUME Raw \subseteq Nat /\ Times \subseteq 1..(Base - 1)

RECURSIVE Log2Floor(_)
Log2Floor(n) == IF n < 2 THEN 0 ELSE 1 + Log2Floor(n \div 2)

\* Fractional bits of the representation: every double >= 1/Base is a
\* whole number of 2^-FracBits.
FracBits == Precision + Log2Floor(Base)

One == 2 ^ FracBits

\* a / d rounded to the nearest integer, ties to even (a >= 0, d > 0).
RoundHalfEven(a, d) ==
    LET q == a \div d
        twice == 2 * (a % d)
    IN IF twice > d \/ (twice = d /\ q % 2 = 1) THEN q + 1 ELSE q

\* The double nearest to the exact value a / (d * One), in units of 1/One:
\* the unit in the last place of a value whose leading bit is 2^L units is
\* 2^(L - Precision + 1) units.
RECURSIVE RoundQuot(_, _)
RoundQuot(a, d) ==
    IF a < 0 THEN 0 - RoundQuot(0 - a, d)
    ELSE IF a < d THEN RoundHalfEven(a, d)
    ELSE LET L == Log2Floor(a \div d)
             ulp == 2 ^ (IF L >= Precision THEN L - Precision + 1 ELSE 0)
         IN RoundHalfEven(a, d * ulp) * ulp

\* Mutant: the time is taken in milliseconds (timestamp_millis) against the
\* base in seconds.
EncodeMillis(r, t) ==
    LET frac == RoundQuot((Base - 1000 * t) * One, Base)
    IN RoundQuot(r * One + frac, 1)

\* calc_score: the division is rounded, then the addition.
Encode(r, t) ==
    LET frac == RoundQuot((Base - t) * One, Base)
    IN RoundQuot(r * One + frac, 1)

\* Mutant: the decoded score is rounded instead of truncated.
DecodeRound(v) == (v + One \div 2) \div One

\* score_f as i32: truncation toward zero.
Decode(v) == IF v >= 0 THEN v \div One ELSE 0 - ((0 - v) \div One)

\* Every encoding, computed once.
EncTable == [p \in Raw \X Times |-> Encode(p[1], p[2])]

VARIABLES raw, now

\* One submission: a raw score at a time.
Init == raw \in Raw /\ now \in Times

Next == UNCHANGED <<raw, now>>

Spec == Init /\ [][Next]_<<raw, now>>

-----------------------------------------------------------------------------
(* Properties: the laws of spec section 8 *)

\* Encode/decode: the score read back from redis (get_user_score,
\* get_top_user_rank) is the raw score that update_score submitted.
DecodeLaw == Decode(EncTable[raw, now]) = raw

\* A higher raw score ranks strictly above a lower one whatever the two
\* submission times: ZREVRANGE orders the encodings, so calc_score's
\* time fraction must never outweigh a whole point.
RankOrder ==
    \A r2 \in Raw, t2 \in Times :
        r2 < raw => EncTable[raw, now] > EncTable[r2, t2]

\* Tie-break: of two equal raw scores, the one submitted earlier has the
\* strictly larger encoding, so it ranks ahead.
TieBreakLaw ==
    \A t2 \in Times : now < t2 => EncTable[raw, now] > EncTable[raw, t2]
====
