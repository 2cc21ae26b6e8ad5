------------------------------ MODULE OneForecast ------------------------------
(***************************************************************************)
(* One prediction of the predictor from any window of averages, and what   *)
(* must hold of it.                                                        *)
(***************************************************************************)
EXTENDS Forecast

CONSTANTS Averages,   \* the averages [speed, occ, flow, samples] of a bucket
          Hours,
          Lags,       \* how far the first bucket may begin before the window
          MaxLate,    \* bound: buckets that begin after now
          None        \* no prediction yet

\* Averages are not negative.
ASSUME OneForecastAssumption ==
    /\ Averages \subseteq [speed : Nat, occ : Nat, flow : Nat, samples : Nat]
    /\ Lags \subseteq Nat /\ MaxLate \in Nat

VARIABLES window, hour, prediction
forecastVars == <<window, hour, prediction>>

\* The window ends, and now is, at Lookback.
Late(xs) == {x \in xs : x > Lookback}

\* Any buckets may be empty, but not all: a road without readings is not in the
\* result of the query.
Occupied == {xs \in UNION {SUBSET Offsets(lag) : lag \in Lags} :
                xs # {} /\ Cardinality(Late(xs)) <= MaxLate}

Windows == UNION {[xs -> Averages] : xs \in Occupied}

ForecastInit == window \in Windows /\ hour \in Hours /\ prediction = None
ForecastNext == prediction' \in Predictions(window, hour) /\ UNCHANGED <<window, hour>>
ForecastSpec == ForecastInit /\ [][ForecastNext]_forecastVars

\* A prediction is a score that fits the rerouter's scale and a confidence,
\* however steep the line and however far it is extrapolated.
ForecastTypeOK == /\ window \in Windows /\ hour \in Hours
                  /\ prediction \in [score : 0..1000, confidence : 0..100] \union {None}

Ys == Scores(window)

\* A road with a more congested last bucket, all else the same, is not predicted to
\* be freer, though the line may turn steeply and the readings may be stamped after
\* now: all as long as the time it is read for is not before their mean.
WorseNowNotBetterLater ==
    prediction # None /\ SumX(Ys) <= Count(Ys) * FutureOffset =>
        \A b \in Averages : CongestionScore(b) >= Current(Ys) =>
            \E score \in FinalScore([Ys EXCEPT ![Max(DOMAIN Ys)] = CongestionScore(b)], hour) :
                score >= prediction.score

\* Congestion that has only risen through the window, and no reading of which is
\* stamped after now, is not predicted to ease, but for the factor of the hour.
RisingNotEased ==
    prediction # None /\ Late(DOMAIN Ys) = {} /\ (\A x, z \in DOMAIN Ys : x < z => Ys[x] <= Ys[z]) =>
        20 * prediction.score + 10 >= 10 * Clamp(0, Current(Ys) * RushHourFactor(hour), 20 * FullScore)

\* A condition on the intervals alone: from whichever of these buckets have
\* readings, the last one lifts the line, out where it is read off, by at least
\* as much as it is higher itself (Fitted is then no lower than the last score).
FarAhead(xs) ==
    LET at == [x \in xs |-> x]
        n  == Cardinality(xs)
    IN  (n * FutureOffset - SumX(at)) * (n * Max(xs) - SumX(at)) >= (n - 1) * Sxx(at)

\* It holds at the default intervals; with a horizon much shorter than the window
\* it does not, and a rising score can then be predicted to ease.
FarSighted == \A xs \in Occupied : Late(xs) = {} => FarAhead(xs)
=============================================================================
