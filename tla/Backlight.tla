------------------------------- MODULE Backlight -------------------------------
(***************************************************************************)
(* The brightness keys of the GPU tab: adjustBacklight (internal/ui/       *)
(* model.go) works in percent, the panel (internal/probe/backlight.go) in  *)
(* raw steps, and a reading that was taken before a key was pressed may    *)
(* land after it.                                                          *)
(***************************************************************************)
EXTENDS Integers

CONSTANTS
  MaxRaw,     (* max_brightness (9 on the uConsole)                        *)
  StepPct     (* cfg.BacklightStep                                         *)

ASSUME BacklightAssumption ==
  /\ MaxRaw \in Nat \ {0}
  /\ StepPct \in 1..100

VARIABLES
  raw,        (* the panel's brightness                                    *)
  shownPct,   (* m.backlight.Percent; -1 while none is present             *)
  sysRound,   (* the fetchSys round in flight: what it read of the panel   *)
  pctIsRead   (* history: shownPct is a reading of the brightness that is  *)

backlightVars == <<raw, shownPct, sysRound, pctIsRead>>

------------------------------------------------------------------------------
NoRound == -2
NotReadYet == -1
Bound(lo, n, hi) == IF n < lo THEN lo ELSE IF n > hi THEN hi ELSE n

(* math.Round of n / d, both not negative.                                 *)
RoundDown(n, d) == n \div d
RoundOf(n, d) == (2 * n + d) \div (2 * d)

(* ReadBacklight and SetBacklightPercent                                   *)
PercentOf(b) == Bound(0, RoundOf(100 * b, MaxRaw), 100)
RawOf(pct) ==
  LET b == RoundOf(pct * MaxRaw, 100)
  IN  IF b < 1 /\ pct > 0 THEN 1 ELSE b

BacklightInit ==
  /\ raw \in 0..MaxRaw
  /\ shownPct = -1
  /\ sysRound = NotReadYet
  /\ pctIsRead = FALSE

(* A round on the slow cadence.                                            *)
QueueSys ==
  /\ sysRound = NoRound
  /\ sysRound' = NotReadYet
  /\ UNCHANGED <<raw, shownPct, pctIsRead>>
ReadPanel ==
  /\ sysRound = NotReadYet
  /\ sysRound' = PercentOf(raw)
  /\ UNCHANGED <<raw, shownPct, pctIsRead>>
(* sysMsg                                                                  *)
SysMsg ==
  /\ sysRound >= 0
  /\ shownPct' = sysRound
  /\ pctIsRead' = (sysRound = PercentOf(raw))
  /\ sysRound' = NoRound
  /\ UNCHANGED raw

(* queueUser dispatches nothing while a round is in flight, and does not   *)
(* remember that it was asked.                                             *)
QueueUser(round) == IF round = NoRound THEN NotReadYet ELSE round

(* adjustBacklight; the write may be refused.                              *)
AdjustBacklight(delta, allowed) ==
  /\ shownPct >= 0
  /\ LET target == Bound(0, shownPct + delta, 100)
     IN  IF allowed
         THEN /\ raw' = RawOf(target)
              /\ shownPct' = target
              /\ pctIsRead' = (target = PercentOf(raw'))
              /\ sysRound' = QueueUser(sysRound)
         ELSE UNCHANGED backlightVars

(* Another program moves the slider.                                       *)
OtherSets(b) ==
  /\ raw' = b
  /\ pctIsRead' = (shownPct = PercentOf(b))
  /\ UNCHANGED <<shownPct, sysRound>>

BacklightNext ==
  \/ QueueSys \/ ReadPanel \/ SysMsg
  \/ \E delta \in {StepPct, -StepPct}, allowed \in BOOLEAN : AdjustBacklight(delta, allowed)
  \/ \E b \in 0..MaxRaw : OtherSets(b)

BacklightSpec == BacklightInit /\ [][BacklightNext]_backlightVars

------------------------------------------------------------------------------
BacklightTypeOK ==
  /\ raw \in 0..MaxRaw
  /\ shownPct \in -1..100
  /\ sysRound \in -2..100
  /\ pctIsRead \in BOOLEAN

(* "+" always gets somewhere: pressed while the screen shows the panel's   *)
(* own reading, it raises the brightness until the top ("truncating here   *)
(* lands +step back on the same raw value when max_brightness is small     *)
(* ..., so the brightness-up key would never advance",                     *)
(* backlight.go:114-116), and "-" lowers it down to the first step.        *)
KeysAdvance ==
  [][ /\ (AdjustBacklight(StepPct, TRUE) /\ pctIsRead /\ raw < MaxRaw) => raw' > raw
      /\ (AdjustBacklight(-StepPct, TRUE) /\ pctIsRead /\ raw > 1) => raw' < raw
    ]_backlightVars
==============================================================================
