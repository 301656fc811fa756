--------------------------- MODULE Exporter_proofs ---------------------------
(***************************************************************************)
(* Proofs about Exporter, for any number of scrapes and collectors and any *)
(* intervals.  The safety properties are proved together: that a wait is   *)
(* answered needs the one collection to be the one e.running stands for,   *)
(* and that readings never go back needs it to be alone.                   *)
(***************************************************************************)
EXTENDS Exporter, TLAPS

(* Whoever waits or was woken before the first collection ended is there   *)
(* because that collection runs.                                           *)
FirstIsAwaited ==
  \A s \in Scrapes : at[s] # "idle" /\ ~cached => running # None

(* What is being read is younger than what is cached.                      *)
CollectingIsYounger ==
  \A c \in Collectors : cached /\ stage[c] = "collecting" => elapsed[c] <= taken

IInv ==
  /\ TypeOK
  /\ OneCollection
  /\ WaitIsAnswered
  /\ FirstIsAwaited
  /\ CollectingIsYounger

LEMMA OlderFacts ==
  ASSUME NEW m \in 0..MaxAge
  PROVE  /\ Older(m) \in 0..MaxAge /\ m <= Older(m)
         /\ \A n \in 0..MaxAge : m <= n => Older(m) <= Older(n)
  BY ExporterAssumption, SMT DEF Older

LEMMA ZeroFacts ==
  /\ 0 \in 0..MaxAge /\ 0 \in 0..Wait
  /\ \A n \in 0..MaxAge : 0 <= n /\ n <= n
  BY ExporterAssumption, SMT

LEMMA InitEstablishes == Init => IInv
<1> SUFFICES ASSUME Init PROVE IInv
  OBVIOUS
<1>1. TypeOK
  BY ZeroFacts DEF Init, TypeOK
<1>2. OneCollection
  BY ExporterAssumption DEF Init, OneCollection
<1>3. WaitIsAnswered /\ FirstIsAwaited /\ CollectingIsYounger
  BY DEF Init, WaitIsAnswered, FirstIsAwaited, CollectingIsYounger
<1> QED
  BY <1>1, <1>2, <1>3 DEF IInv

(* A scrape waits on the running collection, begun by it or by another.    *)
LEMMA StartKeeps ==
  ASSUME IInv, NEW s \in Scrapes, StartWaiting(s)
  PROVE  IInv'
<1> USE DEF IInv
<1>1. /\ UNCHANGED <<cached, stamped, taken, signalled>>
      /\ at' = [at EXCEPT ![s] = "waiting"]
      /\ waited' = [waited EXCEPT ![s] = 0]
  BY DEF StartWaiting
<1>2. PICK c \in Collectors :
        /\ running' = c
        /\ on' = [on EXCEPT ![s] = c]
        /\ \/ running = None /\ Begin(c)
           \/ running = c /\ UNCHANGED <<stage, elapsed>>
  BY DEF StartWaiting, JoinOrStart, Begin, TypeOK
<1>3. /\ stage' \in [Collectors -> {"idle", "collecting", "published"}]
      /\ elapsed' \in [Collectors -> 0..MaxAge]
      /\ stage'[c] = "collecting"
      /\ \A d \in Collectors \ {c} : stage'[d] = stage[d] /\ elapsed'[d] = elapsed[d]
      /\ \/ elapsed'[c] = 0
         \/ stage[c] = "collecting" /\ elapsed'[c] = elapsed[c]
  <2>1. CASE running = None /\ Begin(c)
    BY <2>1, ZeroFacts DEF Begin, TypeOK
  <2>2. CASE running = c /\ UNCHANGED <<stage, elapsed>>
    BY <2>2 DEF TypeOK, OneCollection
  <2> QED
    BY <1>2, <2>1, <2>2
<1>4. TypeOK'
  BY <1>1, <1>2, <1>3, ZeroFacts, ExporterAssumption DEF TypeOK
<1>5. OneCollection'
  BY <1>2, <1>3, ExporterAssumption DEF OneCollection
<1>6. WaitIsAnswered'
  BY <1>1, <1>2, <1>3 DEF WaitIsAnswered, TypeOK
<1>7. FirstIsAwaited'
  BY <1>1, <1>2, ExporterAssumption DEF FirstIsAwaited
<1>8. CollectingIsYounger'
  BY <1>1, <1>3, ZeroFacts DEF CollectingIsYounger, TypeOK
<1> QED
  BY <1>4, <1>5, <1>6, <1>7, <1>8

LEMMA PublishKeeps ==
  ASSUME IInv, NEW c \in Collectors, Publish(c)
  PROVE  IInv'
<1> USE DEF IInv
<1>1. /\ stage[c] = "collecting"
      /\ cached' = TRUE /\ stamped' = 0 /\ taken' = elapsed[c] /\ running' = None
      /\ stage' = [stage EXCEPT ![c] = "published"]
      /\ UNCHANGED <<elapsed, scrapeVars>>
  BY DEF Publish
<1>2. TypeOK'
  BY <1>1, ZeroFacts DEF TypeOK, scrapeVars
<1>3. \A d \in Collectors : stage'[d] # "collecting"
  BY <1>1 DEF OneCollection, TypeOK
<1>4. OneCollection' /\ CollectingIsYounger'
  BY <1>1, <1>3, ExporterAssumption DEF OneCollection, CollectingIsYounger
<1>5. WaitIsAnswered' /\ FirstIsAwaited'
  BY <1>1 DEF WaitIsAnswered, FirstIsAwaited, scrapeVars, TypeOK
<1> QED
  BY <1>2, <1>4, <1>5

LEMMA CloseKeeps ==
  ASSUME IInv, NEW c \in Collectors, CloseDone(c)
  PROVE  IInv'
<1> USE DEF IInv
<1>1. /\ stage[c] = "published"
      /\ stage' = [stage EXCEPT ![c] = "idle"]
      /\ signalled' = signalled \cup {s \in Scrapes : at[s] = "waiting" /\ on[s] = c}
      /\ UNCHANGED <<cached, stamped, taken, running, elapsed, at, on, waited>>
  BY DEF CloseDone, cacheVars
<1>2. TypeOK'
  BY <1>1 DEF TypeOK
<1>3. OneCollection' /\ CollectingIsYounger'
  BY <1>1 DEF OneCollection, CollectingIsYounger, TypeOK
<1>4. WaitIsAnswered' /\ FirstIsAwaited'
  BY <1>1 DEF WaitIsAnswered, FirstIsAwaited, TypeOK
<1> QED
  BY <1>2, <1>3, <1>4

(* A scrape that stops waiting changes nothing but itself.                 *)
LEMMA LeaveKeeps ==
  ASSUME IInv, NEW s \in Scrapes, Wake(s) \/ Cancel(s) \/ ServeWhatThereIs(s)
  PROVE  IInv'
<1> USE DEF IInv
<1>1. /\ UNCHANGED <<cached, stamped, taken, running, stage, elapsed, waited>>
      /\ at[s] # "idle"
      /\ at' = [at EXCEPT ![s] = "woken"] \/ at' = [at EXCEPT ![s] = "idle"]
      /\ on' = on \/ (on' = [on EXCEPT ![s] = None] /\ at' = [at EXCEPT ![s] = "idle"])
      /\ signalled' = signalled \/ signalled' = signalled \ {s}
  BY DEF Wake, Cancel, ServeWhatThereIs, cacheVars
<1>2. /\ at' \in [Scrapes -> {"idle", "waiting", "woken"}]
      /\ at'[s] # "waiting"
      /\ \A r \in Scrapes \ {s} : at'[r] = at[r] /\ on'[r] = on[r]
  BY <1>1 DEF TypeOK
<1>3. TypeOK'
  BY <1>1, <1>2 DEF TypeOK
<1>4. OneCollection' /\ CollectingIsYounger'
  BY <1>1 DEF OneCollection, CollectingIsYounger
<1>5. WaitIsAnswered'
  BY <1>1, <1>2 DEF WaitIsAnswered
<1>6. FirstIsAwaited'
  BY <1>1, <1>2 DEF FirstIsAwaited
<1> QED
  BY <1>3, <1>4, <1>5, <1>6

LEMMA ClockKeeps ==
  ASSUME IInv, Clock
  PROVE  IInv'
<1> USE DEF IInv
<1>1. /\ UNCHANGED <<cached, running, stage, at, on, signalled>>
      /\ stamped' = IF cached THEN Older(stamped) ELSE 0
      /\ taken' = IF cached THEN Older(taken) ELSE 0
      /\ elapsed' = [c \in Collectors |->
           IF stage[c] = "collecting" THEN Older(elapsed[c]) ELSE 0]
      /\ waited' = [s \in Scrapes |->
           IF at[s] = "waiting" /\ waited[s] < Wait THEN waited[s] + 1 ELSE waited[s]]
  BY DEF Clock
<1>2. TypeOK'
  <2>1. stamped' \in 0..MaxAge /\ taken' \in 0..MaxAge
    BY <1>1, OlderFacts, ZeroFacts DEF TypeOK
  <2>2. \A c \in Collectors : elapsed'[c] \in 0..MaxAge
    BY <1>1, OlderFacts, ZeroFacts DEF TypeOK
  <2>3. elapsed' \in [Collectors -> 0..MaxAge]
    BY <1>1, <2>2
  <2>4. ASSUME NEW s \in Scrapes
        PROVE  (IF at[s] = "waiting" /\ waited[s] < Wait THEN waited[s] + 1 ELSE waited[s])
                 \in 0..Wait
    BY ExporterAssumption, SMT DEF TypeOK
  <2>5. waited' \in [Scrapes -> 0..Wait]
    BY <1>1, <2>4
  <2> QED
    BY <1>1, <2>1, <2>3, <2>5 DEF TypeOK
<1>3. OneCollection' /\ WaitIsAnswered' /\ FirstIsAwaited'
  BY <1>1 DEF OneCollection, WaitIsAnswered, FirstIsAwaited
<1>4. CollectingIsYounger'
  <2>1. ASSUME NEW c \in Collectors, cached, stage[c] = "collecting"
        PROVE  Older(elapsed[c]) <= Older(taken)
    <3>1. elapsed[c] \in 0..MaxAge /\ taken \in 0..MaxAge /\ elapsed[c] <= taken
      BY <2>1 DEF TypeOK, CollectingIsYounger
    <3> QED
      BY <3>1, OlderFacts
  <2> QED
    BY <1>1, <2>1 DEF CollectingIsYounger
<1> QED
  BY <1>2, <1>3, <1>4

LEMMA StutterKeeps == IInv /\ UNCHANGED vars => IInv'
  BY DEF vars, cacheVars, scrapeVars, IInv, TypeOK, OneCollection, WaitIsAnswered,
         FirstIsAwaited, CollectingIsYounger

LEMMA StepKeeps == IInv /\ [Next]_vars => IInv'
<1> SUFFICES ASSUME IInv, [Next]_vars PROVE IInv'
  OBVIOUS
<1>1. ASSUME NEW s \in Scrapes,
             \/ ServeFresh(s) \/ StartWaiting(s) \/ Wake(s) \/ Cancel(s)
             \/ ServeWhatThereIs(s)
      PROVE  IInv'
  BY <1>1, StutterKeeps, StartKeeps, LeaveKeeps DEF ServeFresh
<1>2. ASSUME NEW c \in Collectors, Publish(c) \/ CloseDone(c) PROVE IInv'
  BY <1>2, PublishKeeps, CloseKeeps
<1>3. CASE Clock
  BY <1>3, ClockKeeps
<1>4. CASE UNCHANGED vars
  BY <1>4, StutterKeeps
<1> QED
  BY <1>1, <1>2, <1>3, <1>4 DEF Next

LEMMA Invariant == Spec => []IInv
  BY InitEstablishes, StepKeeps, PTL DEF Spec

------------------------------------------------------------------------------
(* The types; a waiting scrape has a channel to wait on.                   *)
THEOREM TypeCorrect == Spec => []TypeOK
<1>1. IInv => TypeOK
  BY DEF IInv
<1> QED
  BY Invariant, <1>1, PTL

(* However many scrapes come, at most one collection runs, and it is the   *)
(* one they wait for (exporter.go:50-69).                                  *)
THEOREM AtMostOneCollection == Spec => []OneCollection
<1>1. IInv => OneCollection
  BY DEF IInv
<1> QED
  BY Invariant, <1>1, PTL

(* No scrape is left on the channel of a collection that is over.          *)
THEOREM WaitsAreAnswered == Spec => []WaitIsAnswered
<1>1. IInv => WaitIsAnswered
  BY DEF IInv
<1> QED
  BY Invariant, <1>1, PTL

(* errNoSnapshot says what is so (exporter.go:40-41, 82-90).               *)
THEOREM NoSnapshotTrue == Spec => []NoSnapshotIsTrue
<1>1. IInv => NoSnapshotIsTrue
  BY DEF IInv, FirstIsAwaited, NoSnapshotIsTrue
<1> QED
  BY Invariant, <1>1, PTL

(* No step puts older readings in the cache than were there.               *)
THEOREM ReadingsNeverGoBack == Spec => NeverOlder
<1>1. ASSUME IInv, [Next]_vars
      PROVE  [cached /\ stamped' < stamped => taken' <= taken]_vars
  <2> SUFFICES ASSUME Next, cached, stamped' < stamped PROVE taken' <= taken
    BY <1>1
  <2>1. taken \in 0..MaxAge /\ stamped \in 0..MaxAge
    BY <1>1 DEF IInv, TypeOK
  <2>2. ASSUME NEW c \in Collectors, Publish(c) PROVE taken' <= taken
    BY <1>1, <2>2 DEF Publish, IInv, CollectingIsYounger
  <2>3. CASE UNCHANGED taken
    BY <2>1, <2>3, ZeroFacts
  <2>4. ~Clock
    <3>1. Older(stamped) \in 0..MaxAge /\ stamped <= Older(stamped)
      BY <2>1, OlderFacts
    <3>2. ~(Older(stamped) < stamped)
      BY <2>1, <3>1, ExporterAssumption, SMT
    <3> QED
      BY <3>2 DEF Clock
  <2> QED
    BY <2>2, <2>3, <2>4 DEF Next, ServeFresh, StartWaiting, Wake, Cancel,
                           ServeWhatThereIs, CloseDone, cacheVars, vars
<1> QED
  BY Invariant, <1>1, PTL DEF Spec, NeverOlder
==============================================================================
