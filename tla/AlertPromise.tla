---------------------------- MODULE AlertPromise ----------------------------
(***************************************************************************)
(* What the alert engine of internal/ui/alerts.go promises to everything   *)
(* downstream of it (the log, the bell, alert_cmd, the banner): a          *)
(* hysteresis per condition key.  The severity announced for a key follows *)
(* a rise at once; it may fall only after the condition has been below the *)
(* announced severity for at least MinCalm updates in a row, and it must   *)
(* have fallen before MaxCalm of them have passed.                         *)
(***************************************************************************)
EXTENDS Integers

CONSTANTS
  Keys,     (* the condition keys, e.g. "temp:cpu_thermal"                 *)
  MinCalm,  (* fewest calm updates before an announced severity falls      *)
  MaxCalm   (* calm updates within which it has certainly fallen, not less *)

Silent == -1
Warn   == 0
Crit   == 1
Levels == {Silent, Warn, Crit}

VARIABLES
  announced,  (* the level the last event of each key spoke of             *)
  calm        (* updates in a row each key was seen below that level       *)

vars == <<announced, calm>>

Init ==
  /\ announced = [k \in Keys |-> Silent]
  /\ calm      = [k \in Keys |-> 0]

Follow(k, seen) ==
  /\ seen >= announced[k]
  /\ announced'[k] = seen
  /\ calm'[k] = 0

Hold(k, seen) ==
  /\ seen < announced[k]
  /\ calm[k] + 1 < MaxCalm
  /\ announced'[k] = announced[k]
  /\ calm'[k] = calm[k] + 1

Fall(k, seen) ==
  /\ seen < announced[k]
  /\ calm[k] + 1 >= MinCalm
  /\ announced'[k] = seen
  /\ calm'[k] = 0

(* One update of the engine looks at every key.                            *)
Observe ==
  /\ announced' \in [Keys -> Levels]
  /\ calm' \in [Keys -> Nat]
  /\ \A k \in Keys : \E seen \in Levels :
        Follow(k, seen) \/ Hold(k, seen) \/ Fall(k, seen)

Spec == Init /\ [][Observe]_vars
=============================================================================
