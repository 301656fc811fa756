------------------------------ MODULE Exporter ------------------------------
(***************************************************************************)
(* Exporter.snapshot of internal/ui/exporter.go: scrapes that share one    *)
(* lazily refreshed snapshot, and the goroutine that collects it outside   *)
(* the lock.                                                               *)
(*                                                                         *)
(* Every section under e.mu is short and waits for nothing, so it is one   *)
(* step.  Time is kept as ages and waits in whole units that one Clock     *)
(* action advances; they saturate at MaxAge, beyond which nothing depends  *)
(* on them.  A collection may take any time, or never come back.           *)
(***************************************************************************)
EXTENDS Integers, FiniteSets

CONSTANTS
  Scrapes,      (* HTTP handler goroutines                                 *)
  Collectors,   (* identities of collection goroutines and their channels  *)
  None,
  MinInterval,  (* exporterMinInterval                                     *)
  Wait,         (* exporterWait                                            *)
  MaxAge        (* bound: ages saturate here                               *)

ASSUME ExporterAssumption ==
  /\ None \notin Collectors
  /\ MinInterval \in Nat \ {0}
  /\ Wait \in Nat \ {0}
  /\ MaxAge \in Nat /\ MaxAge > MinInterval

VARIABLES
  cached,    (* e.model is not nil                                         *)
  stamped,   (* time since e.lastAt                                        *)
  taken,     (* history: time since the cached readings were begun         *)
  running,   (* e.running: the collector whose channel it is, or None      *)
  stage,     (* collectors: "idle", "collecting", "published"              *)
  elapsed,   (* time since each collector began                            *)
  at,        (* scrapes: "idle", "waiting", "woken"                        *)
  on,        (* the collector each waiting scrape waits for                *)
  signalled, (* waiting scrapes whose channel is closed                    *)
  waited     (* how long each has waited                                   *)

cacheVars  == <<cached, stamped, taken, running>>
scrapeVars == <<at, on, signalled, waited>>
vars == <<cacheVars, stage, elapsed, scrapeVars>>

Older(age) == IF age < MaxAge THEN age + 1 ELSE MaxAge

Init ==
  /\ cached = FALSE
  /\ stamped = 0
  /\ taken = 0
  /\ running = None
  /\ stage = [c \in Collectors |-> "idle"]
  /\ elapsed = [c \in Collectors |-> 0]
  /\ at = [s \in Scrapes |-> "idle"]
  /\ on = [s \in Scrapes |-> None]
  /\ signalled = {}
  /\ waited = [s \in Scrapes |-> 0]

Fresh == cached /\ stamped < MinInterval

(* snapshot, first section: serve the cache while it is fresh.             *)
ServeFresh(s) ==
  /\ at[s] = "idle"
  /\ Fresh
  /\ UNCHANGED vars

(* ... or wait on a collection, started here if none runs.  Definitions    *)
(* named for a fault are faulty variants of the one that follows.          *)
Begin(c) ==
  /\ stage[c] = "idle"
  /\ running' = c
  /\ stage' = [stage EXCEPT ![c] = "collecting"]
  /\ elapsed' = [elapsed EXCEPT ![c] = 0]

JoinOrStartAlwaysStarts(s) == \E c \in Collectors : Begin(c) /\ on' = [on EXCEPT ![s] = c]

JoinOrStart(s) ==
  \/ /\ running = None
     /\ \E c \in Collectors : Begin(c) /\ on' = [on EXCEPT ![s] = c]
  \/ /\ running # None
     /\ on' = [on EXCEPT ![s] = running]
     /\ UNCHANGED <<running, stage, elapsed>>

StartWaiting(s) ==
  /\ at[s] = "idle"
  /\ ~Fresh
  /\ JoinOrStart(s)
  /\ at' = [at EXCEPT ![s] = "waiting"]
  /\ waited' = [waited EXCEPT ![s] = 0]
  /\ UNCHANGED <<cached, stamped, taken, signalled>>

(* The collection goroutine: publish under the lock, then close(done).     *)
PublishForgetsRunning(c) ==
  /\ stage[c] = "collecting"
  /\ cached' = TRUE
  /\ stamped' = 0
  /\ taken' = elapsed[c]
  /\ stage' = [stage EXCEPT ![c] = "published"]
  /\ UNCHANGED <<running, elapsed, scrapeVars>>

Publish(c) ==
  /\ stage[c] = "collecting"
  /\ cached' = TRUE
  /\ stamped' = 0
  /\ taken' = elapsed[c]
  /\ running' = None
  /\ stage' = [stage EXCEPT ![c] = "published"]
  /\ UNCHANGED <<elapsed, scrapeVars>>

CloseDone(c) ==
  /\ stage[c] = "published"
  /\ stage' = [stage EXCEPT ![c] = "idle"]
  /\ signalled' = signalled \cup {s \in Scrapes : at[s] = "waiting" /\ on[s] = c}
  /\ UNCHANGED <<cacheVars, elapsed, at, on, waited>>

(* The select of a waiting scrape: done, the timer, or the request's end.  *)
WakeOnlyDone(s) ==
  /\ at[s] = "waiting"
  /\ s \in signalled
  /\ at' = [at EXCEPT ![s] = "woken"]
  /\ signalled' = signalled \ {s}
  /\ UNCHANGED <<cacheVars, stage, elapsed, on, waited>>

Wake(s) ==
  /\ at[s] = "waiting"
  /\ s \in signalled \/ waited[s] >= Wait
  /\ at' = [at EXCEPT ![s] = "woken"]
  /\ signalled' = signalled \ {s}
  /\ UNCHANGED <<cacheVars, stage, elapsed, on, waited>>

Cancel(s) ==
  /\ at[s] = "waiting"
  /\ at' = [at EXCEPT ![s] = "idle"]
  /\ on' = [on EXCEPT ![s] = None]
  /\ signalled' = signalled \ {s}
  /\ UNCHANGED <<cacheVars, stage, elapsed, waited>>

(* snapshot, last section.                                                 *)
ServeWhatThereIs(s) ==
  /\ at[s] = "woken"
  /\ at' = [at EXCEPT ![s] = "idle"]
  /\ on' = [on EXCEPT ![s] = None]
  /\ UNCHANGED <<cacheVars, stage, elapsed, signalled, waited>>

Clock ==
  /\ stamped' = IF cached THEN Older(stamped) ELSE 0
  /\ taken' = IF cached THEN Older(taken) ELSE 0
  /\ elapsed' = [c \in Collectors |->
       IF stage[c] = "collecting" THEN Older(elapsed[c]) ELSE 0]
  /\ waited' = [s \in Scrapes |->
       IF at[s] = "waiting" /\ waited[s] < Wait THEN waited[s] + 1 ELSE waited[s]]
  /\ UNCHANGED <<cached, running, stage, at, on, signalled>>

Next ==
  \/ \E s \in Scrapes :
       \/ ServeFresh(s)
       \/ StartWaiting(s)
       \/ Wake(s)
       \/ Cancel(s)
       \/ ServeWhatThereIs(s)
  \/ \E c \in Collectors : Publish(c)
  \/ \E c \in Collectors : CloseDone(c)
  \/ Clock

(* Time passes, a runnable handler runs, and a collector that has got the  *)
(* lock closes its channel.  Nothing says that a collection ends.          *)
Fairness ==
  /\ WF_vars(Clock)
  /\ \A s \in Scrapes : WF_vars(Wake(s)) /\ WF_vars(ServeWhatThereIs(s))
  /\ \A c \in Collectors : WF_vars(CloseDone(c))

Spec == Init /\ [][Next]_vars /\ Fairness

------------------------------------------------------------------------------
(* Types; and a waiting scrape waits on a channel, never on a nil one,      *)
(* which nobody could close (exporter.go:60-72).                            *)
TypeOK ==
  /\ cached \in BOOLEAN
  /\ stamped \in 0..MaxAge
  /\ taken \in 0..MaxAge
  /\ running \in Collectors \cup {None}
  /\ stage \in [Collectors -> {"idle", "collecting", "published"}]
  /\ elapsed \in [Collectors -> 0..MaxAge]
  /\ at \in [Scrapes -> {"idle", "waiting", "woken"}]
  /\ on \in [Scrapes -> Collectors \cup {None}]
  /\ signalled \subseteq Scrapes
  /\ waited \in [Scrapes -> 0..Wait]
  /\ \A s \in Scrapes : at[s] = "waiting" => on[s] # None

(* The collection e.running stands for is in flight, and no other is: a    *)
(* probe stuck in the kernel costs one goroutine, however many scrapes     *)
(* come (exporter.go:50-55).                                               *)
OneCollection ==
  \A c \in Collectors : stage[c] = "collecting" <=> running = c

(* Every waiting scrape waits for a channel that will still be closed, or  *)
(* has been: none is left on the channel of a collection that is over.     *)
WaitIsAnswered ==
  \A s \in Scrapes :
    at[s] = "waiting" /\ s \notin signalled => stage[on[s]] # "idle"

(* "no snapshot yet: the first collection is still running" is said only   *)
(* while it is (errNoSnapshot, exporter.go:40).                            *)
NoSnapshotIsTrue ==
  \A s \in Scrapes : at[s] = "woken" /\ ~cached => running # None

(* The cache never goes back to readings begun before those it holds, so   *)
(* no scrape is served older readings than an earlier one.                 *)
NeverOlder ==
  [][cached /\ stamped' < stamped => taken' <= taken]_vars

(* A scrape is answered even when no collection ever ends                  *)
(* (exporter.go:52-55).                                                    *)
ScrapeAnswered ==
  \A s \in Scrapes : at[s] # "idle" ~> at[s] = "idle"

(* The help text of ucmon_snapshot_age_seconds (exporter.go:106): what is  *)
(* served as the age, the time since e.lastAt, is the "Age of the readings *)
(* served".                                                                *)
AgeIsOfReadings ==
  cached => stamped >= taken
==============================================================================
