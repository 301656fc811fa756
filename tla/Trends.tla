-------------------------------- MODULE Trends --------------------------------
(***************************************************************************)
(* One series of the trend tracker (internal/ui/trend.go) and the alerts   *)
(* raised from its slope (trendConds, alerts.go), fed by recordTrend once  *)
(* per tick with the reading that is on screen: the one that was fetched   *)
(* last.  Two kinds of series: a battery's charge, which alerts by its     *)
(* rate, and a temperature, which alerts by its sustained rate.            *)
(*                                                                         *)
(* The unit of time is one tick, the points of a series carry their age.   *)
(* The machine may sleep, sampling may be paused, the reading may be       *)
(* missing.                                                                *)
(***************************************************************************)
EXTENDS Integers, Sequences, SequencesExt

CONSTANTS
  Spans,      (* trendSpans: per kind, [window, minSpan], and a bound: max *)
  DrainLimit, (* batt_drain_warn_pct_h, as percent times ticks per hour    *)
  RiseLimit,  (* temp_rise_warn_c_per_min, over the same unit of time      *)
  StepEvery,  (* ticks a healthy pack takes per percent                    *)
  Sleeps      (* lengths of a suspend                                      *)

ASSUME TrendsAssumption ==
  /\ \A k \in DOMAIN Spans :
       /\ Spans[k].window \in Nat \ {0}
       /\ Spans[k].minSpan \in Nat \ {0}
       /\ Spans[k].max \in Nat
  /\ {DrainLimit, RiseLimit} \subseteq [by : Nat \ {0}, per : Nat \ {0}]
  /\ StepEvery \in Nat \ {0}
  /\ Sleeps \subseteq Nat \ {0}

(* What StepEvery stands for, a healthy pack: the one percent by which a   *)
(* reading in whole percents overstates a drain does not reach the limit   *)
(* over any baseline ("long enough that one step stays well below that").  *)
ASSUME HealthyAssumption ==
  \A k \in DOMAIN Spans : k = "batt" =>
    \A over \in Spans[k].minSpan..(2 * Spans[k].window), lost \in 0..Spans[k].max :
      lost * StepEvery <= StepEvery + over => lost * DrainLimit.per < DrainLimit.by * over

VARIABLES
  kind,       (* "batt" or "temp"                                          *)
  series,     (* trendTracker.series of this key, oldest first; <<>>: none *)
  actual,     (* what the sensor reads                                     *)
  shown,      (* what the last fetch brought                               *)
  rested,     (* ticks since the pack lost a percent, up to StepEvery      *)
  paused,     (* sampling is paused                                        *)
  slept, stopped (* history: the machine slept, sampling was paused        *)

trendVars == <<kind, series, actual, shown, rested, paused, slept, stopped>>

------------------------------------------------------------------------------
TrendWindow  == Spans[kind].window
MinSpan == Spans[kind].minSpan
Values  == 0..Spans[kind].max

TrendsInit ==
  /\ kind \in DOMAIN Spans
  /\ series = <<>>
  /\ actual \in IF kind = "batt" THEN {Spans[kind].max} ELSE Values
  /\ shown = actual
  /\ rested \in IF kind = "batt" THEN 0..StepEvery ELSE {0}
  /\ paused = FALSE
  /\ slept = FALSE
  /\ stopped = FALSE

Aged(pts, d) == [i \in DOMAIN pts |-> [pts[i] EXCEPT !.age = @ + d]]

(* Points before the cut go, but for the last of them, so that the         *)
(* baseline spans the whole window.                                        *)
Trimmed(pts) ==
  LET old == {i \in DOMAIN pts : pts[i].age > TrendWindow}
  IN  IF old = {} THEN pts
      ELSE SubSeq(pts, CHOOSE i \in old : \A j \in old : j <= i, Len(pts))

(* observe, and evict, which drops a series too old to be continued: a gap *)
(* longer than the window starts the series over.                          *)
GapAny(pts) == FALSE
Gap(pts) == pts # <<>> /\ Last(pts).age > TrendWindow
Evicted(pts) == IF Gap(pts) THEN <<>> ELSE pts
Observed(pts, v) ==
  Trimmed(Append(IF Gap(pts) THEN <<>> ELSE pts, [age |-> 0, v |-> v]))

(* A pack at rest loses a percent every StepEvery ticks at most; a sensor  *)
(* reads anything.                                                         *)
World(d) ==
  IF kind = "batt"
  THEN \E n \in 0..((rested + d) \div StepEvery) :
         /\ actual - n >= 0
         /\ actual' = actual - n
         /\ rested' = LET left == rested + d - n * StepEvery
                      IN  IF left > StepEvery THEN StepEvery ELSE left
  ELSE /\ actual' \in Values
       /\ UNCHANGED rested

(* tickMsg, d ticks after the one before: recordTrend with the reading on  *)
(* screen.  The fetch the tick launched lands before the next tick, unless *)
(* sampling is paused.                                                     *)
TrendTick(d) ==
  /\ World(d)
  /\ series' = Observed(Evicted(Aged(series, d)), shown)
  /\ shown' = IF paused THEN shown ELSE actual'
  /\ slept' = (slept \/ d > 1)
  /\ UNCHANGED <<kind, paused, stopped>>

(* d ticks without a reading: the sensor or the mount is gone.  Every one  *)
(* evicts, and what evict drops at the last it drops for good.             *)
TrendGone(d) ==
  /\ World(d)
  /\ series' = Evicted(Aged(series, d))
  /\ shown' = IF paused THEN shown ELSE actual'
  /\ slept' = TRUE
  /\ UNCHANGED <<kind, paused, stopped>>

PauseTrend ==
  /\ paused' = ~paused
  /\ stopped' = TRUE
  /\ UNCHANGED <<kind, series, actual, shown, rested, slept>>

(* Z: reset, along with the session's peaks.                               *)
ResetTrend ==
  /\ series # <<>>
  /\ series' = <<>>
  /\ UNCHANGED <<kind, actual, shown, rested, paused, slept, stopped>>

TrendsNext ==
  \/ \E d \in Sleeps \cup {1} : TrendTick(d)
  \/ \E d \in Sleeps : TrendGone(d)
  \/ PauseTrend
  \/ ResetTrend

TrendsSpec == TrendsInit /\ [][TrendsNext]_trendVars

------------------------------------------------------------------------------
(* rate: a change over a span of ticks; ok if the baseline is long enough. *)
SpanBetween(p, q) == p.age - q.age
Change(p, q) == [by |-> q.v - p.v, over |-> SpanBetween(p, q)]
RateOK == Len(series) >= 2 /\ SpanBetween(Head(series), Last(series)) >= MinSpan
Rate == Change(Head(series), Last(series))

(* sustainedRate: the smaller of the whole window's slope and the slope    *)
(* since the latest reading at or before its middle.                       *)
Middle == {i \in DOMAIN series : 2 * series[i].age >= Head(series).age + Last(series).age}
Recent == Change(series[CHOOSE i \in Middle : \A j \in Middle : j <= i], Last(series))
Size(x) == IF x < 0 THEN -x ELSE x
Slower(r, s) == Size(r.by) * s.over < Size(s.by) * r.over
WholeRate == Rate
SustainedRate == IF Recent.over > 0 /\ Slower(Recent, Rate) THEN Recent ELSE Rate

(* trendConds: the drain alert, and the climb of one sensor.               *)
Draining == RateOK /\ -Rate.by * DrainLimit.per >= DrainLimit.by * Rate.over
Rising ==
  RateOK /\ SustainedRate.by * RiseLimit.per >= RiseLimit.by * SustainedRate.over

------------------------------------------------------------------------------
TrendsTypeOK ==
  /\ kind \in DOMAIN Spans
  /\ series \in Seq([age : Nat, v : Values])
  /\ actual \in Values
  /\ shown \in Values
  /\ rested \in 0..StepEvery
  /\ paused \in BOOLEAN

(* A rate is never taken over a gap (a suspend, or a mount or sensor that  *)
(* went away and came back), nor over a stretch much longer or shorter     *)
(* than the window it stands for (trend.go:76-110, 132-135).               *)
BaselineIsRecent ==
  RateOK =>
    /\ \A i \in 1..(Len(series) - 1) :
         SpanBetween(series[i], series[i + 1]) \in 1..TrendWindow
    /\ Rate.over \in MinSpan..(2 * TrendWindow)

(* No alert without cause: a pack that loses a percent every StepEvery     *)
(* ticks is not said to be dumping (trend.go:21-28), and a temperature     *)
(* that has been level since before the middle of its series is not a      *)
(* climb (trend.go:131-134).                                               *)
Level ==
  \A i \in Middle : \A j \in DOMAIN series :
    (\A k \in Middle : k <= i) /\ j >= i => series[j].v = Last(series).v
SteadyIsQuiet ==
  /\ (kind = "batt" /\ ~slept /\ ~stopped) => ~Draining
  /\ (kind = "temp" /\ RateOK /\ Level) => ~Rising

(* A night in sleep is no reason to say the pack is dumping: "across a     *)
(* night in sleep ... a battery that drained 15% overnight would read as   *)
(* dumping it in five minutes" (trend.go:78-82).                           *)
NightIsQuiet == (kind = "batt" /\ ~stopped) => ~Draining
==============================================================================
