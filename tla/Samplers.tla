------------------------------- MODULE Samplers -------------------------------
(***************************************************************************)
(* The samplers that turn the kernel's cumulative counters into rates      *)
(* (internal/probe: cpu.go, net.go, disk.go, procs.go, util.go).  Each     *)
(* keeps the previous reading and, under its lock, reads the counters,     *)
(* compares and replaces it.  Two Samples of one sampler can be under way  *)
(* (FetchGuard, RoundsBounded).                                            *)
(*                                                                         *)
(* A rate times its interval is the difference of two readings, so the     *)
(* model counts what was reported in the counter's own unit.  An item is   *)
(* an interface, a disk, a core or a process; its counter wraps, restarts  *)
(* when it is created again under the same name, and may be missing from   *)
(* a reading (unplugged, exited, /proc/<pid>/io not readable).             *)
(***************************************************************************)
EXTENDS Integers, Functions

CONSTANTS
  Callers,    (* goroutines in Sample                                      *)
  Items,      (* what has a counter                                        *)
  Wrap,       (* the counter's width: it counts modulo Wrap                *)
  MaxCarried  (* bound: counter increments                                 *)

ASSUME SamplersAssumption ==
  /\ Wrap \in Nat \ {0}
  /\ MaxCarried \in Nat

VARIABLES
  counter,    (* the kernel's counters                                     *)
  holder,     (* the callers holding s.mu                                  *)
  reading,    (* per caller, the reading it has made under way             *)
  last,       (* the sampler's previous reading                            *)
  carried,    (* increments so far, all items                              *)
  owed        (* history, per item: counted and not reported yet           *)

samplerVars == <<counter, holder, reading, last, carried, owed>>

------------------------------------------------------------------------------
Unread == [missing |-> Items]
Partial == UNION {[S -> 0..(Wrap - 1)] : S \in SUBSET Items}

SamplersInit ==
  /\ counter \in [Items -> {0, 1 % Wrap}]
  /\ holder = {}
  /\ reading = [c \in Callers |-> Unread]
  /\ last = [i \in {} |-> 0]
  /\ carried = 0
  /\ owed = [i \in Items |-> 0]

Carry(i) ==
  /\ carried < MaxCarried
  /\ counter' = [counter EXCEPT ![i] = (@ + 1) % Wrap]
  /\ carried' = carried + 1
  /\ owed' = [owed EXCEPT ![i] = @ + 1]
  /\ UNCHANGED <<holder, reading, last>>

(* A reload, a re-plug, a new process under the same PID.                  *)
Restart(i) ==
  /\ counter[i] # 0
  /\ counter' = [counter EXCEPT ![i] = 0]
  /\ UNCHANGED <<holder, reading, last, carried, owed>>

LockSampler(c) ==
  /\ holder = {}
  /\ holder' = {c}
  /\ UNCHANGED <<counter, reading, last, carried, owed>>

(* The reading happens under the lock (the comment on advance, cpu.go).    *)
MayReadAnyTime(c) == TRUE
MayRead(c) == c \in holder

ReadCounters(c, present) ==
  /\ MayRead(c)
  /\ reading[c] = Unread
  /\ reading' = [reading EXCEPT ![c] = [i \in present |-> counter[i]]]
  /\ UNCHANGED <<counter, holder, last, carried, owed>>

------------------------------------------------------------------------------
(* CounterRate, times dt: a counter that went backwards reports nothing.   *)
WrappedDelta(cur, prev) == (cur - prev) % Wrap
Delta(cur, prev) == IF cur < prev THEN 0 ELSE cur - prev

(* An item without a previous reading reports nothing yet.                 *)
Reported(cur, i) ==
  IF i \in DOMAIN cur \cap DOMAIN last THEN Delta(cur[i], last[i]) ELSE 0

(* The reading becomes the previous one whole; what it lacks is forgotten. *)
Install(c) ==
  /\ c \in holder
  /\ reading[c] # Unread
  /\ owed' = [i \in Items |-> owed[i] - Reported(reading[c], i)]
  /\ last' = reading[c]
  /\ reading' = [reading EXCEPT ![c] = Unread]
  /\ holder' = {}
  /\ UNCHANGED <<counter, carried>>

(* The counters could not be read: Sample returns and keeps its baseline.  *)
Abandon(c) ==
  /\ c \in holder
  /\ reading[c] = Unread
  /\ holder' = {}
  /\ UNCHANGED <<counter, reading, last, carried, owed>>

SamplersNext ==
  \/ \E i \in Items : Carry(i) \/ Restart(i)
  \/ \E c \in Callers :
       \/ LockSampler(c)
       \/ \E present \in SUBSET Items : ReadCounters(c, present)
       \/ Install(c)
       \/ Abandon(c)

SamplersSpec == SamplersInit /\ [][SamplersNext]_samplerVars

------------------------------------------------------------------------------
SamplersTypeOK ==
  /\ counter \in [Items -> 0..(Wrap - 1)]
  /\ holder \subseteq Callers
  /\ \A c \in holder, d \in holder : c = d
  /\ DOMAIN reading = Callers
  /\ \A c \in Callers : reading[c] = Unread \/ reading[c] \in Partial
  /\ last \in Partial
  /\ carried \in 0..MaxCarried
  /\ owed \in [Items -> Int]

(* No byte, sector or tick is reported that was not counted since ucmon    *)
(* started, and none twice: not when two Samples overlap (cpu.go:71-74),   *)
(* not when a counter wraps or restarts (util.go:56-60), not when an item  *)
(* is missing from one reading and back in the next (procs.go:198-200).    *)
NothingCountedTwice == \A i \in Items : owed[i] >= 0
==============================================================================
