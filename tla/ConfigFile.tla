------------------------------ MODULE ConfigFile ------------------------------
(***************************************************************************)
(* From the lines of the config file to what raises an alert: LoadFrom,    *)
(* apply and Sanitize (internal/config/config.go), NewModel with the       *)
(* board's own trip points (internal/ui/model.go, probe/cpu.go), and the   *)
(* conditions the thresholds are compared in (currentAlertConds,           *)
(* internal/ui/alerts.go).                                                 *)
(*                                                                         *)
(* Intervals are in tenths of a second, temperatures in hundredths of a    *)
(* degree (the factors 0.8, 0.75 and 1.15 are exact there), the other      *)
(* numbers in whole units.  Names, globs, paths and switches no threshold  *)
(* depends on are left out; the rate thresholds are Trends'.               *)
(***************************************************************************)
EXTENDS Integers, Sequences

CONSTANTS
  ConfigLines, (* the lines a file may have: <<key, value>>                *)
  Junk,        (* a value that does not parse                              *)
  Trips,       (* trip points a zone may declare, 0 for none               *)
  MaxLines     (* bound: lines of a file                                   *)

ASSUME ConfigAssumption ==
  /\ \A l \in ConfigLines : \/ l[2] = Junk
                            \/ l[1] = "fromTrips" /\ l[2] \in BOOLEAN
                            \/ l[1] # "fromTrips" /\ l[2] \in Int
  /\ Trips \subseteq [passive : Int, hot : Int, critical : Int]
  /\ MaxLines \in Nat

VARIABLES
  phase,      (* "reading" the file, then "running"                        *)
  lineNo,     (* lines read                                                *)
  cfg,        (* the Config                                                *)
  unknown,    (* Config.Unknown                                            *)
  colors,     (* the process-wide thresholds of TempColor                  *)
  userCrit    (* history: the last temp_crit of the file that parsed       *)

configVars == <<phase, lineNo, cfg, unknown, colors, userCrit>>

------------------------------------------------------------------------------
Default ==
  [fast |-> 10, proc |-> 30, slow |-> 50,
   warn |-> 5000, hot |-> 6500, crit |-> 8000,
   explicit |-> FALSE, fromTrips |-> TRUE,
   step |-> 10, mem |-> 90, swap |-> 50, disk |-> 90, low |-> 15, flat |-> 5,
   load |-> 2, logCap |-> 200, clear |-> 3, wifi |-> 0, loss |-> 0, psi |-> 0,
   event |-> 10, histLen |-> 200, procsCap |-> 200]

Intervals == {"fast", "proc", "slow"}
Temps == {"warn", "hot", "crit"}
Numbers == {"step", "mem", "swap", "disk", "low", "flat", "load", "logCap", "clear",
            "wifi", "loss", "psi", "event", "histLen", "procsCap"}
Keys == Intervals \cup Temps \cup Numbers \cup {"fromTrips"}
MaxInterval == 36000

Least(a, b) == IF a < b THEN a ELSE b
Greatest(a, b) == IF a > b THEN a ELSE b
Clamp(lo, n, hi) == Greatest(lo, Least(n, hi))

(* apply: a value that does not parse leaves the field; an interval must   *)
(* be positive; naming any temperature turns calibration off.              *)
Apply(c, k, v) ==
  IF v = Junk THEN c
  ELSE CASE k \in Intervals -> IF v > 0 THEN [c EXCEPT ![k] = Least(v, MaxInterval)] ELSE c
         [] k \in Temps     -> [c EXCEPT ![k] = v, !.explicit = TRUE]
         [] OTHER           -> [c EXCEPT ![k] = v]

(* pctOr: a threshold no reading falls below, or none reaches, is a typo.  *)
PctOrLoose(v, def) == IF v < 0 \/ v > 100 THEN def ELSE v
PctOr(v, def) == IF v <= 0 \/ v > 100 THEN def ELSE v

ColdFirst(c) ==
  [c EXCEPT !.warn = Least(@, c.hot), !.hot = Least(@, c.crit)]
(* The lower tiers are pushed down, hot before warn.                       *)
OrderTemps(c) ==
  LET hot == Least(c.hot, c.crit)
  IN  [c EXCEPT !.hot = hot, !.warn = Least(@, hot)]

Sanitize(c) ==
  LET fast == Greatest(c.fast, 2)
      low == Clamp(0, c.low, 100)
  IN  OrderTemps([c EXCEPT
        !.fast = fast, !.proc = Greatest(@, fast), !.slow = Greatest(@, fast),
        !.step = Clamp(1, @, 100), !.logCap = Greatest(@, 16),
        !.load = IF @ <= 0 THEN 2 ELSE @,
        !.mem = PctOr(@, Default.mem), !.swap = PctOr(@, Default.swap),
        !.disk = PctOr(@, Default.disk),
        !.low = low, !.flat = Least(Clamp(0, @, 100), low),
        !.clear = Clamp(1, @, 60), !.wifi = IF @ > 0 THEN -@ ELSE @,
        !.loss = Clamp(0, @, 100), !.psi = Clamp(0, @, 100),
        !.event = Clamp(0, @, 1440),
        !.histLen = Clamp(10, @, 5000), !.procsCap = Clamp(10, @, 10000)])

------------------------------------------------------------------------------
(* TripThresholds; Throttle is the passive trip or else the hot one.       *)
Throttle(t) == IF t.passive > 0 THEN t.passive ELSE t.hot
Part(pct, t) == (t * pct) \div 100
TripThresholds(t) ==
  LET crit == IF t.critical > 0 THEN t.critical ELSE Part(115, Throttle(t))
      hot == IF Throttle(t) = 0 \/ Throttle(t) >= crit THEN Part(80, crit) ELSE Throttle(t)
  IN  [warn |-> Part(75, hot), hot |-> hot, crit |-> crit]

CalibrateAlways(c, t) ==
  IF ~c.fromTrips \/ (Throttle(t) <= 0 /\ t.critical <= 0) THEN c
  ELSE LET r == TripThresholds(t)
       IN  Sanitize([c EXCEPT !.warn = r.warn, !.hot = r.hot, !.crit = r.crit])
(* calibrateTemps                                                          *)
CalibrateTemps(c, t) ==
  IF c.explicit \/ ~c.fromTrips \/ (Throttle(t) <= 0 /\ t.critical <= 0) THEN c
  ELSE LET r == TripThresholds(t)
       IN  Sanitize([c EXCEPT !.warn = r.warn, !.hot = r.hot, !.crit = r.crit])

(* SetTempThresholds takes only what is positive.                          *)
SetTempThresholds(c) ==
  [k \in Temps |-> IF c[k] > 0 THEN c[k] ELSE colors[k]]

ConfigInit ==
  /\ phase = "reading"
  /\ lineNo = 0
  /\ cfg = Default
  /\ unknown = <<>>
  /\ colors = [k \in Temps |-> Default[k]]
  /\ userCrit = {}

(* One line of LoadFrom.  A repeated unknown key is recorded once.         *)
LoadLine(k, v) ==
  /\ phase = "reading"
  /\ lineNo < MaxLines
  /\ lineNo' = lineNo + 1
  /\ userCrit' = IF k = "crit" /\ v # Junk THEN {v} ELSE userCrit
  /\ cfg' = IF k \in Keys THEN Apply(cfg, k, v) ELSE cfg
  /\ unknown' = IF k \in Keys \/ \E i \in DOMAIN unknown : unknown[i].key = k
                THEN unknown
                ELSE Append(unknown, [key |-> k, line |-> lineNo'])
  /\ UNCHANGED <<phase, colors>>

NewModel(t) ==
  /\ phase = "reading"
  /\ phase' = "running"
  /\ cfg' = CalibrateTemps(Sanitize(cfg), t)
  /\ colors' = SetTempThresholds(cfg')
  /\ UNCHANGED <<lineNo, unknown, userCrit>>

ConfigNext ==
  \/ \E l \in ConfigLines : LoadLine(l[1], l[2])
  \/ \E t \in Trips : NewModel(t)

ConfigSpec == ConfigInit /\ [][ConfigNext]_configVars

------------------------------------------------------------------------------
(* currentAlertConds, for one reading of each kind: which conditions hold, *)
(* "warn" or "crit".                                                       *)
TempConds(t) ==
  IF t >= cfg.crit THEN {<<"temp", "crit">>}
  ELSE IF t >= cfg.hot THEN {<<"temp", "warn">>} ELSE {}
BattConds(charging, capacity) ==
  IF charging THEN {}
  ELSE IF capacity <= cfg.flat THEN {<<"batt", "crit">>}
  ELSE IF capacity <= cfg.low THEN {<<"batt", "warn">>} ELSE {}
LevelConds(r) ==
  {<<k, "warn">> : k \in {j \in {"mem", "swap", "disk", "load"} : r[j] >= cfg[j]}}
OptionalConds(r) ==
  {<<k, "warn">> : k \in {j \in {"loss", "psi"} : cfg[j] > 0 /\ r[j] >= cfg[j]}}
WifiConds(dBm) ==
  IF cfg.wifi # 0 /\ dBm < 0 /\ dBm <= cfg.wifi THEN {<<"wifi", "warn">>} ELSE {}
Conds(r) == TempConds(r.temp) \cup LevelConds(r) \cup BattConds(r.charging, r.batt)
            \cup WifiConds(r.wifi) \cup OptionalConds(r)

TempColor(t) ==
  CASE t >= colors["crit"] -> "red"
    [] t >= colors["hot"] /\ t < colors["crit"] -> "orange"
    [] OTHER -> "below"

(* What is compared with an upper limit that Sanitize bounds from both     *)
(* sides, and a machine off the charger at either end of every scale.      *)
Levels == {"mem", "swap", "disk", "load", "loss", "psi"}
Idle == [temp |-> 2000, mem |-> 0, swap |-> 0, disk |-> 0, load |-> 0, loss |-> 0,
         psi |-> 0, wifi |-> -30, batt |-> 100, charging |-> FALSE]
Full == [temp |-> 12000, mem |-> 100, swap |-> 100, disk |-> 100, load |-> cfg.load,
         loss |-> 100, psi |-> 100, wifi |-> -90, batt |-> 0, charging |-> FALSE]
Raised(r) == {c[1] : c \in Conds(r)}

------------------------------------------------------------------------------
ConfigTypeOK ==
  /\ phase \in {"reading", "running"}
  /\ lineNo \in 0..MaxLines
  /\ DOMAIN cfg = DOMAIN Default
  /\ Len(unknown) <= lineNo
  /\ DOMAIN colors = Temps

Running == phase = "running"

(* Whatever the file says of RAM, swap, disk, load, packet loss and        *)
(* pressure: an idle machine raises none of them on every tick, and a      *)
(* machine at its limits raises each that is not turned off ("either never *)
(* fires or fires on every tick", config.go:487-489).  A flat battery off  *)
(* the charger is critical, and a full one is warned of only with a low    *)
(* tier of 100, asked for or clamped to.  Nothing of the kind holds of     *)
(* temperatures and wifi signals, which Sanitize holds to no scale.        *)
ThresholdsBite ==
  Running =>
    /\ Levels \cap Raised(Idle) = {}
    /\ {k \in Levels : cfg[k] > 0} \subseteq Raised(Full)
    /\ <<"batt", "crit">> \in Conds(Full)
    /\ "batt" \in Raised(Idle) => cfg.low = 100

(* Sanitize settles in one pass, and calibration does not unsettle it: the *)
(* config a model runs with is one Sanitize would leave alone, so the      *)
(* order its repairs run in loses none (config.go:464-561; the exporter    *)
(* and NewModel sanitize the same config again).                           *)
SanitizeSettles == Running => Sanitize(cfg) = cfg

(* The colour of a temperature and its alert agree - red is critical,      *)
(* orange is a warning - and temp_crit stays what the user wrote last, on  *)
(* any board (calibrateTemps, model.go:384-411; "keeps the value the user  *)
(* asked for", config.go:502-504).  A threshold at or below zero is left   *)
(* out: colours ignore it and alerts do not.                               *)
TempsAgree ==
  Running =>
    /\ \A v \in userCrit : cfg.crit = v
    /\ (cfg.hot > 0 /\ cfg.crit > 0) =>
         \A t \in {cfg.hot - 1, cfg.hot, cfg.crit - 1, cfg.crit} :
           /\ TempColor(t) = "red" <=> <<"temp", "crit">> \in TempConds(t)
           /\ TempColor(t) = "orange" <=> <<"temp", "warn">> \in TempConds(t)
==============================================================================
