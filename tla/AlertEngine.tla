----------------------------- MODULE AlertEngine -----------------------------
(***************************************************************************)
(* The alert engine of internal/ui/alerts.go: the set of active conditions *)
(* with their flap damping, and the bounded log of the events they gave.   *)
(*                                                                         *)
(* A key missing from the Go map `active` is a key whose severity is       *)
(* Silent here.  The engine ranges over Go maps, whose order is arbitrary: *)
(* the events of one update reach the log in any order that puts raises    *)
(* and changes before clears.                                              *)
(***************************************************************************)
EXTENDS Integers, Sequences, FiniteSets, SequencesExt

CONSTANTS
  Keys,       (* identities of conditions                                  *)
  WarnTexts,  (* texts a condition can carry at Warn; numbers, whose order *)
  CritTexts,  (* ... and at Crit, is the order of the strings              *)
  MinCap,     (* newAlertEngine's floor of the log capacity (16 in Go)     *)
  CapN,       (* the capacity newAlertEngine is asked for                  *)
  ClearN      (* the clearTicks newAlertEngine is asked for                *)

ASSUME EngineAssumption ==
  /\ IsFiniteSet(Keys)
  /\ WarnTexts \subseteq Nat
  /\ CritTexts \subseteq Nat
  /\ WarnTexts \cap CritTexts = {}
  /\ MinCap \in Nat \ {0}
  /\ CapN \in Int
  /\ ClearN \in Int

Cap        == IF CapN < MinCap THEN MinCap ELSE CapN
ClearTicks == IF ClearN < 1 THEN 1 ELSE ClearN

Silent == -1
Warn   == 0
Crit   == 1

Texts == WarnTexts \cup CritTexts
NoCond == [sev |-> Silent, msg |-> 0]
(* A condition as currentAlertConds builds it: the text fits the severity. *)
Conds ==
  {NoCond}
    \cup [sev : {Warn}, msg : WarnTexts]
    \cup [sev : {Crit}, msg : CritTexts]

Event  == [key : Keys, sev : {Warn, Crit}, msg : Texts, cleared : BOOLEAN]
Active ==
  [cond    : [sev : {Silent, Warn, Crit}, msg : Texts \cup {0}],
   missing : 0..ClearTicks - 1,
   lower   : 0..ClearTicks - 1]

VARIABLES
  active,     (* activeCond of every key                                   *)
  log,        (* alertEngine.log                                           *)
  events,     (* the slice the last call of update returned                *)
  announced,  (* history: the level of each key's last event               *)
  stale       (* history: updates in a row below the announced level       *)

engineVars == <<active, log, events>>
vars == <<active, log, events, announced, stale>>

------------------------------------------------------------------------------
(* update, one key at a time: `c` is the condition the key has now.        *)
(* Definitions named for a fault (UndampedDrop, PushKeepsOldest, ...) are  *)
(* faulty variants of the definition that follows them; the specification  *)
(* does not use them.                                                      *)

Fresh(c) == [cond |-> c, missing |-> 0, lower |-> 0]

Rises(k, c)          == c.sev > active[k].cond.sev

Drops(k, c)          == Silent < c.sev /\ c.sev < active[k].cond.sev
UndampedDrop(k, c)   == Drops(k, c) /\ FALSE
Damped(k, c)         == Drops(k, c) /\ active[k].lower + 1 < ClearTicks

Vanished(k, c)       == c.sev = Silent /\ active[k].cond.sev > Silent
Clears(k, c)         == Vanished(k, c) /\ active[k].missing + 1 >= ClearTicks

NextActiveForgetsLower(k, c) ==
  CASE Damped(k, c)  -> [active[k] EXCEPT !.lower = @ + 1, !.missing = 0]
    [] Vanished(k, c) /\ ~Clears(k, c)
                     -> [active[k] EXCEPT !.missing = @ + 1, !.lower = 0]
    [] OTHER         -> Fresh(c)

NextActiveRetextsDamped(k, c) ==
  CASE Damped(k, c)  -> [active[k] EXCEPT !.lower = @ + 1, !.missing = 0,
                                          !.cond.msg = c.msg]
    [] Vanished(k, c) /\ ~Clears(k, c)
                     -> [active[k] EXCEPT !.missing = @ + 1]
    [] OTHER         -> Fresh(c)

NextActive(k, c) ==
  CASE Damped(k, c)  -> [active[k] EXCEPT !.lower = @ + 1, !.missing = 0]
    [] Vanished(k, c) /\ ~Clears(k, c)
                     -> [active[k] EXCEPT !.missing = @ + 1]
    [] OTHER         -> Fresh(c)

RaiseEvent(k, c) == [key |-> k, sev |-> c.sev, msg |-> c.msg, cleared |-> FALSE]
ClearEvent(k) ==
  [key |-> k, sev |-> active[k].cond.sev, msg |-> active[k].cond.msg,
   cleared |-> TRUE]

RaiseEventsSilentDrop(conds) ==
  {RaiseEvent(k, conds[k]) : k \in {j \in Keys : Rises(j, conds[j])}}
RaiseEvents(conds) ==
  {RaiseEvent(k, conds[k]) : k \in {j \in Keys :
      \/ Rises(j, conds[j])
      \/ Drops(j, conds[j]) /\ ~Damped(j, conds[j])}}
ClearEvents(conds) ==
  {ClearEvent(k) : k \in {j \in Keys : Clears(j, conds[j])}}

PushKeepsOldest(entries) ==
  LET all == log \o entries
  IN  SubSeq(all, 1, IF Len(all) > Cap THEN Cap ELSE Len(all))
Push(entries) ==
  LET all == log \o entries
  IN  SubSeq(all, (IF Len(all) > Cap THEN Len(all) - Cap ELSE 0) + 1, Len(all))

------------------------------------------------------------------------------
(* The history variables follow the events, never the active set.          *)

Told(k, evs) ==
  IF \E e \in evs : e.key = k
  THEN LET e == CHOOSE x \in evs : x.key = k
       IN  IF e.cleared THEN Silent ELSE e.sev
  ELSE announced[k]

(* They saturate, so that a broken engine still has finitely many states.  *)
StaleMax == ClearTicks * ClearTicks
Saturate(n) == IF n > StaleMax THEN StaleMax ELSE n

Remember(conds, evs) ==
  /\ announced' = [k \in Keys |-> Told(k, evs)]
  /\ stale' = [k \in Keys |->
       IF (\E e \in evs : e.key = k) \/ conds[k].sev >= announced[k]
       THEN 0 ELSE Saturate(stale[k] + 1)]

------------------------------------------------------------------------------
Init ==
  /\ active    = [k \in Keys |-> Fresh(NoCond)]
  /\ log       = <<>>
  /\ events    = <<>>
  /\ announced = [k \in Keys |-> Silent]
  /\ stale     = [k \in Keys |-> 0]

Update(conds) ==
  /\ active' = [k \in Keys |-> NextActive(k, conds[k])]
  /\ \E raises \in SetToSeqs(RaiseEvents(conds)),
        clears \in SetToSeqs(ClearEvents(conds)) :
          events' = raises \o clears
  /\ log' = Push(events')
  /\ Remember(conds, RaiseEvents(conds) \cup ClearEvents(conds))

ClearLog ==
  /\ log' = <<>>
  /\ events' = <<>>
  /\ UNCHANGED <<active, announced, stale>>

Next ==
  \/ \E conds \in [Keys -> Conds] : Update(conds)
  \/ ClearLog

Spec == Init /\ [][Next]_vars

------------------------------------------------------------------------------
(* summary and activeList.  summary ranges over a map: `order` is the      *)
(* order of that range.                                                    *)

Present == {k \in Keys : active[k].cond.sev > Silent}

Precedes(c, d) ==
  \/ c.sev > d.sev
  \/ c.sev = d.sev /\ c.msg < d.msg

SummaryNoTieBreak(order) ==
  LET top[i \in 0..Len(order)] ==
        IF i = 0 THEN NoCond
        ELSE LET c == active[order[i]].cond
             IN  IF i = 1 \/ c.sev > top[i - 1].sev THEN c ELSE top[i - 1]
  IN  top[Len(order)]
Summary(order) ==
  LET top[i \in 0..Len(order)] ==
        IF i = 0 THEN NoCond
        ELSE LET c == active[order[i]].cond
             IN  IF i = 1 \/ Precedes(c, top[i - 1]) THEN c ELSE top[i - 1]
  IN  top[Len(order)]

ActiveListHead ==
  LET conds == {active[k].cond : k \in Present}
  IN  CHOOSE c \in conds : \A d \in conds : ~Precedes(d, c)

------------------------------------------------------------------------------
(* Types of everything the engine keeps.                                   *)
TypeOK ==
  /\ active \in [Keys -> Active]
  /\ log \in Seq(Event)
  /\ Len(log) <= Cap
  /\ events \in Seq(Event)
  /\ announced \in [Keys -> {Silent, Warn, Crit}]
  /\ stale \in [Keys -> Nat]

(* What was announced is what is active: the log, the hook and the banner  *)
(* describe the same set of conditions (update, alerts.go:95-145, and its  *)
(* remark that log, hook and clear "all describe a state that was          *)
(* announced").                                                            *)
AnnouncedIsActive ==
  \A k \in Keys : announced[k] = active[k].cond.sev

(* The Alerts tab never contradicts itself: the newest log line of a key,  *)
(* when the bounded log still has one, tells the severity the active list  *)
(* shows, or its clearing (push and clearLog, alerts.go:85-90, 188-190).   *)
LogTellsActive ==
  \A i \in 1..Len(log) :
    (\A j \in i+1..Len(log) : log[j].key # log[i].key) =>
      active[log[i].key].cond.sev = (IF log[i].cleared THEN Silent ELSE log[i].sev)

(* A raised condition that no longer shows at its severity is not kept     *)
(* announced for ever by wobbling between "lower" and "absent", each of    *)
(* which resets or suspends the other's counter: ClearTicks^2 updates are  *)
(* enough to drop it (alerts.go:106-141).                                  *)
StaleBounded ==
  \A k \in Keys : stale[k] < StaleMax

(* The footer names the condition the Alerts tab lists first, whatever     *)
(* order the map is ranged over in (summary's comment, alerts.go:147-153). *)
BannerIsListHead ==
  Present # {} =>
    \A order \in SetToSeqs(Present) : Summary(order) = ActiveListHead

(* While damped a condition "stays what was raised: CRIT with the CRIT     *)
(* text" (alerts.go:105-117): severity and text are never of two readings. *)
TextFitsSeverity ==
  \A k \in Keys : active[k].cond \in Conds

(* What is on screen is what was announced, in severity and in text: the   *)
(* banner and the Alerts tab are drawn from active, the log and the hook   *)
(* were told the events (alerts.go:95-145).                                *)
ShownAsAnnounced == AnnouncedIsActive /\ TextFitsSeverity

(* No event repeats what the previous event of its key said, and a CLEAR   *)
(* carries the severity that was announced (alerts.go:99-137).             *)
NoEcho ==
  [][\A i \in 1..Len(events') :
       LET e == events'[i]
       IN  IF e.cleared THEN announced[e.key] = e.sev
                        ELSE announced[e.key] # e.sev]_vars

(* The engine keeps the promise of AlertPromise: it falls no earlier than  *)
(* ClearTicks calm updates and no later than ClearTicks^2.                 *)
Promise == INSTANCE AlertPromise WITH
  calm <- stale, MinCalm <- ClearTicks, MaxCalm <- StaleMax
KeepsPromise == Promise!Spec
==============================================================================
