---------------------------- MODULE WeatherWindow ----------------------------
(***************************************************************************)
(* The deterministic part of find_best_weather_window (src/weather_tool.py) *)
(* and the badness of a day (travel_planner/weather_assignment.py): how a   *)
(* forecast becomes scored rows, rows become windows of consecutive days,   *)
(* and one window is recommended.                                           *)
(*                                                                          *)
(* A forecast is a sequence of [date, weather], dates counted in days, the  *)
(* weather Missing when the service left a required field out.  Weights are *)
(* the tools' defaults in percent, so a score is in hundredths.  The parts  *)
(* of a score are whole percents, rounded down; the code has fractions and  *)
(* rounds the score to two decimals.                                        *)
(***************************************************************************)
EXTENDS Ordering

CONSTANT Missing    \* the weather of a day with an absent field

Clamp(value) == Max({0, Min({value, 100})})

Sunshine(w) == IF w.daylight > 0 THEN Clamp((100 * w.sunshine) \div w.daylight) ELSE 0
Heat(w) == Clamp(10 * (w.temp - 30))
Wind(w) == Clamp((100 * (w.wind - 20)) \div 30)

\* calculate_weather_score with the default weights.
WeatherScore(w) ==
  45 * Sunshine(w) - 35 * Clamp(w.rain) - 10 * Heat(w) - 10 * Wind(w)

\* weather_badness with the default weights, 0..100.
WeatherBadness(w) == (50 * Clamp(w.rain) + 25 * Wind(w) + 25 * Heat(w)) \div 100

\* date.weekday(): date 0 is a Monday.
Weekday(date) == date % 7

(* The dates asked for are a set: an interval, or {} when none were given. *)
OutOfRange(forecast, dates) ==
  /\ dates # {}
  /\ \/ Min(dates) < forecast[1].date
     \/ Max(dates) > Last(forecast).date

\* The rows of the complete days among the dates asked for.
CompleteRows(forecast, dates) ==
  PartOf(forecast, {i \in DOMAIN forecast : /\ dates = {} \/ forecast[i].date \in dates
                                            /\ forecast[i].weather # Missing})

DaysFrom(rows, start, n) == SubSeq(rows, start, start + n - 1)

Consecutive(days) ==
  \A i \in 1..(Len(days) - 1) : days[i + 1].date - days[i].date = 1

\* Mutant for RecommendsBestWindow: neighbouring rows count as consecutive days.
WindowsOfRows(rows, n) == 1..(Len(rows) - n + 1)

\* The starts of the windows: rows that are neighbours need not be consecutive days.
Windows(rows, n) ==
  {start \in 1..(Len(rows) - n + 1) : Consecutive(DaysFrom(rows, start, n))}

\* The key the windows are ranked by: the mean to two decimals, then the worst day.
Merit(days) ==
  LET scores == [i \in DOMAIN days |-> WeatherScore(days[i].weather)]
  IN  <<Rounded(SumFunction(scores), Len(days)), Min(ToSet(scores))>>

\* windows[0] after the stable sort: of equal windows the earliest.
BestWindow(rows, n) ==
  LET starts == Windows(rows, n)
      least == [s \in starts |->
                  LET merit == Merit(DaysFrom(rows, s, n)) IN <<-merit[1], -merit[2]>>]
  IN  DaysFrom(rows, FirstMin(Ascending(starts), least), n)
=============================================================================
