------------------------------- MODULE Forecast --------------------------------
(***************************************************************************)
(* The arithmetic of services/predictor: from the averages of the buckets  *)
(* in the lookback window of one road, and the hour, to its prediction.    *)
(*                                                                         *)
(* Everything is exact.  Averages are in tenths: of maxSpeed, of full      *)
(* occupancy, of maxFlow; a congestion score is then a whole number of     *)
(* hundredths.  A product of floating point numbers may fall on either     *)
(* side of a tie of math.Round, so there the result is either.             *)
(***************************************************************************)
EXTENDS Integers, FiniteSets, FiniteSetsExt, Functions

CONSTANTS Lookback,   \* LOOKBACK_WINDOW_MIN, in units of time
          Horizon,    \* HORIZON_MIN
          Width,      \* '5 minutes', the width of a bucket
          Buckets,    \* those that readings may fall in, counted from the first
          Unit        \* the unit of time, in tenths of a minute

ASSUME ForecastAssumption ==
    /\ Lookback \in Nat \ {0} /\ Horizon \in Nat /\ Width \in Nat \ {0} /\ Unit \in Nat \ {0}
    /\ Buckets \subseteq Nat /\ IsFiniteSet(Buckets)

FullScore == 100

\* math.Max(low, math.Min(high, n))
Clamp(low, n, high) == IF n < low THEN low ELSE IF n > high THEN high ELSE n

\* time_bucket counts from a fixed origin and not from windowStart: the first
\* bucket may begin `lag` before the window does.  The query asks for ts >=
\* windowStart only, so there may be buckets after now, of readings that a sensor
\* stamped later.
Offsets(lag) == {Width * i - lag : i \in Buckets}

\* computeCongestionScore: 0.4 (1 - speed) + 0.4 occupancy + 0.2 flow.
CongestionScore(b) == Clamp(0, 40 - 4 * b.speed + 4 * b.occ + 2 * b.flow, FullScore)

\* The scores of a window: [offsets of its buckets -> 0..FullScore].
Scores(window) == [x \in DOMAIN window |-> CongestionScore(window[x])]

-----------------------------------------------------------------------------
(* fitLinearRegression.  Its sums, n = 2 buckets or more: the slope is     *)
(* Sxy / Sxx, and Fitted / (n * Sxx) is the height of the line at x.       *)

Count(ys) == Cardinality(DOMAIN ys)
SumX(ys)  == SumFunction([x \in DOMAIN ys |-> x])
SumY(ys)  == SumFunction(ys)
Sxx(ys)   == Count(ys) * SumFunction([x \in DOMAIN ys |-> x * x]) - SumX(ys) * SumX(ys)
Sxy(ys)   == Count(ys) * SumFunction([x \in DOMAIN ys |-> x * ys[x]]) - SumX(ys) * SumY(ys)

\* gonum returns the intercept first.
Fitted_Slip(ys, x) == (SumY(ys) * Sxx(ys) - Sxy(ys) * SumX(ys)) * x + Count(ys) * Sxy(ys)

Fitted(ys, x) == SumY(ys) * Sxx(ys) + Sxy(ys) * (Count(ys) * x - SumX(ys))

-----------------------------------------------------------------------------
Current(ys) == ys[Max(DOMAIN ys)]

FutureOffset == Lookback + Horizon

Blended_Slip(ys) ==
    IF Count(ys) = 1 THEN [num |-> Current(ys), den |-> 1]
    ELSE LET den == Count(ys) * Sxx(ys)
         IN  [num |-> 3 * Fitted(ys, FutureOffset) - 7 * Current(ys) * den, den |-> 10 * den]

\* ewma(predicted, currentScore, 0.7), as a fraction; a single bucket has no trend.
Blended(ys) ==
    IF Count(ys) = 1 THEN [num |-> Current(ys), den |-> 1]
    ELSE LET den == Count(ys) * Sxx(ys)
         IN  [num |-> 7 * Fitted(ys, FutureOffset) + 3 * Current(ys) * den, den |-> 10 * den]

\* rushHourFactor, in twentieths; the hour is that of now in UTC.
RushHourFactor(hour) == IF hour \in 7..8 \union 17..18 THEN 23
                        ELSE IF hour >= 21 \/ hour < 6 THEN 17 ELSE 20

\* math.Round(num / den)
Rounded(num, den) == {num \div den : half \in {h \in {0} : 2 * (num % den) <= den}}
                     \union {num \div den + 1 : half \in {h \in {0} : 2 * (num % den) >= den}}

\* The scores, in thousandths, that may be stored for a window.
FinalScore_Slip(ys, hour) == Rounded(Blended(ys).num * RushHourFactor(hour), 2 * Blended(ys).den)
FinalScore(ys, hour) ==
    LET b == Blended(ys)
    IN  {Clamp(0, score, 10 * FullScore) : score \in Rounded(b.num * RushHourFactor(hour), 2 * b.den)}

Magnitude(i) == IF i < 0 THEN -i ELSE i

\* max(0.3, 1 - 10 |slope per minute|), as a fraction; 0.5 without a slope.
TrendStability(ys) ==
    IF Count(ys) = 1 THEN [num |-> 1, den |-> 2]
    ELSE LET den == Unit * Sxx(ys)
         IN  IF 10 * (den - Magnitude(Sxy(ys))) < 3 * den THEN [num |-> 3, den |-> 10]
             ELSE [num |-> den - Magnitude(Sxy(ys)), den |-> den]

\* The confidences, in hundredths: full from 50 samples on.
Confidence(ys, samples) ==
    Rounded(2 * Clamp(0, samples, 50) * TrendStability(ys).num, TrendStability(ys).den)

\* What a cycle may predict for one road.
Predictions(window, hour) ==
    LET ys      == Scores(window)
        samples == SumFunction([x \in DOMAIN window |-> window[x].samples])
    IN  [score : FinalScore(ys, hour), confidence : Confidence(ys, samples)]
=============================================================================
