------------------------------ MODULE OomTracker ------------------------------
(***************************************************************************)
(* The OOM killer's victims, told twice: the kernel's cumulative oom_kill  *)
(* counter, read by memory rounds (internal/ui/oom.go, probe/mem.go), and  *)
(* the log line that names each one (handleKmsg, internal/ui/kernlog.go).  *)
(*                                                                         *)
(* A memory round runs in a goroutine: it stamps the time and reads the    *)
(* counter in two steps, and its answer lands when it lands.  Two rounds   *)
(* can be in flight (FetchGuard, RoundsBounded), so a reading may land     *)
(* after a newer one and look like a counter that went backwards.          *)
(***************************************************************************)
EXTENDS Naturals, Sequences, Functions, Filters

CONSTANTS
  Slots,      (* memory rounds that can be in flight                       *)
  Window,     (* eventWindow; 0 turns the event alerts off                 *)
  Keep,       (* oomEventKeep (32 in Go)                                   *)
  Match,      (* oomVictimMatch (10 s in Go)                               *)
  Before,     (* kills before ucmon started                                *)
  MaxKills,   (* bound: the kernel's counter                               *)
  MaxTime     (* bound: the clock                                          *)

ASSUME OomAssumption ==
  /\ Window \in Nat
  /\ Keep \in Nat \ {0}
  /\ Match \in Nat
  /\ Before \in Nat
  /\ MaxKills \in Nat
  /\ MaxTime \in Nat

VARIABLES
  clock,      (* the time                                                  *)
  kills,      (* the kernel's oom_kill                                     *)
  lines,      (* kernel log lines naming a victim, not read yet            *)
  flights,    (* memory rounds in flight                                   *)
  counted,    (* memSnap.OOMKillsOK, of the last whole sample              *)
  oom,        (* the oomTracker                                            *)
  landed,     (* history: the first and the largest counter value landed   *)
  late,       (* history: a reading landed after a larger one              *)
  rang        (* history: every key an event of the counter ever had       *)

oomVars == <<clock, kills, lines, flights, counted, oom, landed, late, rang>>

------------------------------------------------------------------------------
Grounded == [did |-> {}, full |-> FALSE, at |-> 0,
             count |-> 0, ok |-> FALSE]
Counter(n) == <<"oom", n>>
Logged(n)  == <<"oom:log", n>>

OomInit ==
  /\ clock = 0
  /\ kills = Before
  /\ lines = <<>>
  /\ flights = [s \in Slots |-> Grounded]
  /\ counted = FALSE
  /\ oom = [primed |-> FALSE, last |-> 0, session |-> 0, logged |-> 0,
            events |-> <<>>, victims |-> <<>>]
  /\ landed = [first |-> 0, max |-> 0]
  /\ late = FALSE
  /\ rang = {}

(* The kernel counts the kill and logs the line that names the victim.     *)
Kill ==
  /\ kills < MaxKills
  /\ kills' = kills + 1
  /\ lines' = Append(lines, [at |-> clock, pid |-> kills'])
  /\ UNCHANGED <<clock, flights, counted, oom, landed, late, rang>>

Tock ==
  /\ clock < MaxTime
  /\ clock' = clock + 1
  /\ UNCHANGED <<kills, lines, flights, counted, oom, landed, late, rang>>

(* ReadOOMKills: not every kernel has the counter, nor every /proc.        *)
Read(f, ok) == [f EXCEPT !.did = @ \cup {"read"}, !.ok = ok,
                         !.count = IF ok THEN kills ELSE 0]
Stamp(f) == [f EXCEPT !.did = @ \cup {"stamp"}, !.at = clock]

Step(s, f) ==
  /\ flights' = [flights EXCEPT ![s] = f]
  /\ UNCHANGED <<clock, kills, lines, counted, oom, landed, late, rang>>

(* fetchMemCmd: SampleMem stamps TakenAt before it opens /proc/vmstat.     *)
SampleMem(s) ==
  /\ flights[s] = Grounded
  /\ Step(s, Stamp([Grounded EXCEPT !.full = TRUE]))
SampleMemReads(s, ok) ==
  /\ flights[s].did = {"stamp"}
  /\ Step(s, Read(flights[s], ok))

(* fetchOOMCountCmd, while sampling is paused: the counter alone, and the  *)
(* time after it was read.                                                 *)
FetchOOMCount(s, ok) ==
  /\ flights[s] = Grounded
  /\ Step(s, Read(Grounded, ok))
FetchOOMCountStamps(s) ==
  /\ flights[s].did = {"read"}
  /\ Step(s, Stamp(flights[s]))

------------------------------------------------------------------------------
Uncapped(seq) == seq
Oldest(seq) == IF Len(seq) > Keep THEN SubSeq(seq, 1, Keep) ELSE seq
Newest(seq) ==
  IF Len(seq) > Keep THEN SubSeq(seq, Len(seq) - Keep + 1, Len(seq)) ELSE seq
InWindow(e, now) == now < e.at + Window

(* prune drops what is too old and then the oldest beyond the cap.         *)
Prune(events, now) ==
  Newest(Picked(events, {i \in DOMAIN events : InWindow(events[i], now)}))

RiseUnprimed(o, count) == IF count > o.last THEN count - o.last ELSE 0

(* observe's first branch: a reading above the last one is that many       *)
(* kills; the first reading, and one that went backwards, is a baseline.   *)
Rise(o, count) == IF o.primed /\ count > o.last THEN count - o.last ELSE 0

Observe(o, count, at) ==
  LET n == Rise(o, count)
      new == IF n > 0 THEN <<[at |-> at, n |-> n, key |-> Counter(count)]>> ELSE <<>>
  IN  [o EXCEPT !.session = @ + n,
                !.events  = Prune(@ \o new, at),
                !.primed  = TRUE,
                !.last    = count]

(* memMsg replaces memSnap whole, readable counter or not; oomCountMsg     *)
(* leaves it alone.  Either observes only a counter that was read.         *)
Land(s) ==
  LET f == flights[s]
  IN  /\ f.did = {"stamp", "read"}
      /\ flights' = [flights EXCEPT ![s] = Grounded]
      /\ counted' = IF f.full THEN f.ok ELSE counted
      /\ IF f.ok
         THEN /\ oom' = Observe(oom, f.count, f.at)
              /\ landed' = [first |-> IF oom.primed THEN landed.first ELSE f.count,
                            max |-> IF oom.primed /\ landed.max > f.count
                                    THEN landed.max ELSE f.count]
              /\ late' = (late \/ (oom.primed /\ f.count < landed.max))
              /\ rang' = rang \cup
                   (IF oom.primed /\ f.count > oom.last THEN {Counter(f.count)} ELSE {})
         ELSE UNCHANGED <<oom, landed, late, rang>>
      /\ UNCHANGED <<clock, kills, lines>>

------------------------------------------------------------------------------
(* addVictim: without a counter the line is the kill itself.               *)
LogEvent(i) == [at |-> lines[i].at, n |-> 1, key |-> Logged(oom.logged + i)]
AddLogEvent(events, i) == Prune(Append(events, LogEvent(i)), lines[i].at)

WithLogEvents(events) ==
  LET added[i \in 0..Len(lines)] ==
        IF i = 0 THEN events ELSE AddLogEvent(added[i - 1], i)
  IN  added[Len(lines)]

(* handleKmsg: one drain of the log, in order.                             *)
HandleKmsg ==
  /\ lines # <<>>
  /\ LET named == [oom EXCEPT !.victims = Newest(@ \o lines)]
     IN  oom' = IF counted THEN named
                ELSE [named EXCEPT
                        !.session = @ + Len(lines),
                        !.logged  = @ + Len(lines),
                        !.events  = WithLogEvents(@)]
  /\ lines' = <<>>
  /\ UNCHANGED <<clock, kills, flights, counted, landed, late, rang>>

OomNext ==
  \/ Kill
  \/ Tock
  \/ \E s \in Slots :
       \/ SampleMem(s)
       \/ \E ok \in BOOLEAN : SampleMemReads(s, ok) \/ FetchOOMCount(s, ok)
       \/ FetchOOMCountStamps(s)
       \/ Land(s)
  \/ HandleKmsg

OomSpec == OomInit /\ [][OomNext]_oomVars

------------------------------------------------------------------------------
(* named: a victim belongs to the one kill nearest it in time, and a kill  *)
(* takes at most as many names as it has victims.                          *)
Apart(v, e) == IF v.at >= e.at THEN v.at - e.at ELSE e.at - v.at
AllClose(v) == {i \in DOMAIN oom.events : Apart(v, oom.events[i]) < Match}
NearestTo(v) ==
  LET close == {i \in DOMAIN oom.events : Apart(v, oom.events[i]) < Match}
  IN  {i \in close : \A j \in close :
         LET di == Apart(v, oom.events[i]) dj == Apart(v, oom.events[j])
         IN  di < dj \/ (di = dj /\ i <= j)}
Named(e) ==
  LET its == Picked(oom.victims,
               {i \in DOMAIN oom.victims :
                  \E k \in NearestTo(oom.victims[i]) : oom.events[k].key = e.key})
  IN  IF Len(its) > e.n THEN SubSeq(its, 1, e.n) ELSE its

(* conds: a kill shows while it is inside the window.                      *)
OnScreen == {e \in Range(oom.events) : InWindow(e, clock)}

------------------------------------------------------------------------------
(* Types; the events and victims kept stay within oomEventKeep             *)
(* (oom.go:44, 68-70, 79-81).                                              *)
OomTypeOK ==
  /\ clock \in 0..MaxTime
  /\ kills \in Nat
  /\ counted \in BOOLEAN
  /\ late \in BOOLEAN
  /\ oom.primed \in BOOLEAN
  /\ oom.last \in Nat
  /\ oom.session \in Nat
  /\ oom.logged \in Nat
  /\ Len(oom.events) <= Keep
  /\ Len(oom.victims) <= Keep
  /\ landed \in [first : Nat, max : Nat]
  /\ \A s \in Slots : flights[s].at <= clock /\ flights[s].count <= kills

(* The session count loses no kill the counter told of, whatever the order *)
(* the readings land in, and counts none of them twice unless a reading    *)
(* landed after a larger one (observe, oom.go:46-59): then the next rise   *)
(* counts again what had been counted.                                     *)
KillsAccounted ==
  oom.primed =>
    /\ oom.session - oom.logged >= landed.max - landed.first
    /\ ~late => oom.session - oom.logged = landed.max - landed.first

(* A kill the counter had not told of yet gets an event with a key no      *)
(* event of the counter ever had, so it raises and rings even while an     *)
(* earlier one is still shown (the comment on conds, oom.go:113-115).      *)
NewKillsRing ==
  [][ (oom.primed /\ Window > 0 /\ landed'.max > landed.max) =>
        \E e \in Range(oom'.events) :
          e.key = Counter(landed'.max) /\ e.key \notin rang ]_oomVars

(* No victim is named under two kills, and no kill has more names than it  *)
(* has victims (the comment on named, oom.go:90-92).                       *)
NamedOnce ==
  \A e, f \in OnScreen :
    /\ Len(Named(e)) <= e.n
    /\ e.key # f.key => Range(Named(e)) \cap Range(Named(f)) = {}
==============================================================================
