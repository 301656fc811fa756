-------------------------- MODULE FetchGuard_proofs --------------------------
(***************************************************************************)
(* Proofs about FetchGuard, for any kinds, rates and bounds: the types,    *)
(* and that a guard is always answered, rounds never pile up and a closed  *)
(* kernel log is never read again.  The four are proved together, since    *)
(* each needs the others: Quiet below is what they lack.                   *)
(***************************************************************************)
EXTENDS FetchGuard, TLAPS

(* While the log is followed, fewer reads in a row have failed than make   *)
(* handleKmsg give up: the count stops at KmsgMaxErrors.                   *)
ErrsBounded == kmsgOpen => kmsgErrs < KmsgMaxErrors

IInv ==
  /\ TypeOK
  /\ GuardIsAnswered
  /\ RoundsBounded
  /\ KmsgClosedIsQuiet
  /\ ErrsBounded

------------------------------------------------------------------------------
LEMMA CycleType == Cycle \in Nat \ {0}
  BY RateAssumption, SMT DEF Cycle

LEMMA CountType == \A n \in 0..Cycle - 1 : (n + 1) % Cycle \in 0..Cycle - 1
  BY CycleType, SMT

(* The special kinds are kinds, and those that have no rules of their own  *)
(* are not among them.                                                     *)
LEMMA KindFacts ==
  /\ Fast \subseteq Kinds /\ ProcRate \subseteq Kinds /\ Slow \subseteq Kinds
  /\ Cpu \in Kinds /\ Mem \in Kinds /\ Kmsg \in Kinds /\ Detail \in Kinds
  /\ UserKinds \subseteq Primed
  /\ Primed \subseteq Kinds \ {Kmsg, Detail}
  /\ Kmsg # Detail
  /\ ErrKinds \subseteq Primed
  BY KindsAssumption DEF Kinds, Primed

------------------------------------------------------------------------------
(* What the pieces of an action do to the guards and the goroutines.       *)

GuardInv ==
  /\ inFlight \in [Kinds -> BOOLEAN]
  /\ running \in [Kinds -> Nat]
  /\ GuardIsAnswered
  /\ RoundsBounded

(* queue keeps the guards answered and the rounds bounded, whatever kinds  *)
(* are due; and it starts only what is due.                                *)
LEMMA QueueKeepsGuards ==
  ASSUME GuardInv, NEW due \in SUBSET Kinds, Queue(due)
  PROVE  /\ GuardInv'
         /\ \A k \in Kinds \ due : running'[k] = running[k]
<1> DEFINE start == {k \in due \ Disabled : ~inFlight[k]}
<1>1. /\ inFlight' = [k \in Kinds |-> inFlight[k] \/ k \in start]
      /\ running' = [k \in Kinds |-> IF k \in start THEN running[k] + 1 ELSE running[k]]
  BY DEF Queue
<1>2. /\ inFlight' \in [Kinds -> BOOLEAN]
      /\ running' \in [Kinds -> Nat]
  BY <1>1, SMT DEF GuardInv
<1>3. ASSUME NEW k \in Kinds
      PROVE  /\ inFlight'[k] => running'[k] > 0
             /\ k # Detail =>
                  running'[k] <= PrimeOf(k) + (IF inFlight'[k] THEN 1 ELSE 0)
             /\ k \notin due => running'[k] = running[k]
  <2>1. PrimeOf(k) \in Nat
    BY DEF PrimeOf
  <2>2. CASE k \in start
    <3>1. inFlight'[k] = TRUE /\ running'[k] = running[k] + 1
      BY <1>1, <2>2, Zenon
    <3>2. inFlight[k] = FALSE
      BY <2>2 DEF GuardInv
    <3> QED
      BY <2>1, <2>2, <3>1, <3>2, SMT DEF GuardInv, RoundsBounded
  <2>3. CASE k \notin start
    <3>1. inFlight'[k] = inFlight[k] /\ running'[k] = running[k]
      BY <1>1, <2>3, SMT DEF GuardInv
    <3> QED
      BY <2>1, <3>1, SMT DEF GuardInv, GuardIsAnswered, RoundsBounded
  <2> QED
    BY <2>2, <2>3
<1> QED
  BY <1>2, <1>3 DEF GuardInv, GuardIsAnswered, RoundsBounded, PrimeOf

(* A reply clears its guard and takes its goroutine away.                  *)
LEMMA AnsweredKeepsGuards ==
  ASSUME GuardInv, NEW k \in Kinds, Answered(k)
  PROVE  /\ GuardInv'
         /\ \A j \in Kinds \ {k} : running'[j] = running[j]
         /\ running'[k] = running[k] - 1
  BY SMT DEF GuardInv, GuardIsAnswered, RoundsBounded, Answered, PrimeOf

------------------------------------------------------------------------------
(* The start: what Init primes runs without a guard.                       *)
LEMMA InitEstablishes == Init => IInv
<1> SUFFICES ASSUME Init PROVE IInv
  OBVIOUS
<1>1. inFlight \in [Kinds -> BOOLEAN] /\ running \in [Kinds -> Nat]
  <2>1. inFlight = [k \in Kinds |-> FALSE]
    BY DEF Init
  <2>2. running \in [Kinds -> {0, 1}]
    BY DEF Init
  <2> QED
    BY <2>1, <2>2
<1>2. TypeOK
  <2>1. 0 \in 0..Cycle - 1 /\ 0 \in 0..KmsgMaxErrors
    BY CycleType, RateAssumption, SMT
  <2>2. running \in [Kinds -> Nat] /\ inFlight \in [Kinds -> BOOLEAN]
    BY <1>1
  <2> QED
    BY <2>1, <2>2, Zenon DEF Init, TypeOK
<1>3. GuardIsAnswered
  BY DEF Init, GuardIsAnswered
<1>4. RoundsBounded
  BY DEF Init, RoundsBounded, PrimeOf
<1>5. KmsgClosedIsQuiet /\ ErrsBounded
  BY RateAssumption DEF Init, KmsgClosedIsQuiet, ErrsBounded
<1> QED
  BY <1>2, <1>3, <1>4, <1>5 DEF IInv

(* Every step keeps the guards, the log's count and the types.             *)
LEMMA StepKeeps == IInv /\ [Next]_vars => IInv'
<1> SUFFICES ASSUME IInv, [Next]_vars PROVE IInv'
  OBVIOUS
<1> USE DEF IInv
<1>0. GuardInv
  BY DEF GuardInv, TypeOK
<1>1. CASE Tick
  <2>1. PICK due \in SUBSET Kinds :
           /\ Queue(due)
           /\ ~kmsgOpen => Kmsg \notin due
           /\ tickCount' \in 0..Cycle - 1
    <3>1. CASE paused
      <4>1. PausedDue \in SUBSET Kinds /\ (~kmsgOpen => Kmsg \notin PausedDue)
        BY KindFacts, KindsAssumption DEF PausedDue, KmsgDue, Primed
      <4> QED
        BY <1>1, <3>1, <4>1 DEF Tick, TypeOK
    <3>2. CASE ~paused
      <4> DEFINE n == (tickCount + 1) % Cycle
      <4>1. n \in 0..Cycle - 1
        BY CountType DEF TypeOK
      <4>2. Due(n) \in SUBSET Kinds /\ (~kmsgOpen => Kmsg \notin Due(n))
        <5> HIDE DEF n
        <5> QED
          BY KindFacts DEF Due, KmsgDue, Primed
      <4> QED
        BY <1>1, <3>2, <4>1, <4>2 DEF Tick
    <3> QED
      BY <3>1, <3>2
  <2>2. GuardInv' /\ \A k \in Kinds \ due : running'[k] = running[k]
    BY <1>0, <2>1, QueueKeepsGuards
  <2>3. KmsgClosedIsQuiet' /\ ErrsBounded'
    BY <1>1, <2>1, <2>2, KindFacts DEF Tick, KmsgClosedIsQuiet, ErrsBounded
  <2> QED
    BY <1>1, <2>1, <2>2, <2>3 DEF Tick, TypeOK, GuardInv
<1>2. ASSUME NEW k \in Kinds, Arrives(k) PROVE IInv'
  <2>1. CASE Reply(k)
    <3>1. GuardInv' /\ \A j \in Kinds \ {k} : running'[j] = running[j]
      BY <1>0, <2>1, AnsweredKeepsGuards DEF Reply
    <3>2. KmsgClosedIsQuiet' /\ ErrsBounded'
      BY <2>1, <3>1, KindFacts DEF Reply, KmsgClosedIsQuiet, ErrsBounded
    <3> QED
      BY <2>1, <3>1, <3>2 DEF Reply, TypeOK, GuardInv
  <2>2. CASE ErrorReply(k)
    <3>1. GuardInv' /\ \A j \in Kinds \ {k} : running'[j] = running[j]
      BY <1>0, <2>2, AnsweredKeepsGuards DEF ErrorReply
    <3>2. KmsgClosedIsQuiet' /\ ErrsBounded'
      BY <2>2, <3>1, KindFacts DEF ErrorReply, KmsgClosedIsQuiet, ErrsBounded
    <3> QED
      BY <2>2, <3>1, <3>2 DEF ErrorReply, TypeOK, GuardInv
  <2>3. ASSUME k = Detail, NEW gone \in BOOLEAN, DetailReply(gone) PROVE IInv'
    <3>1. GuardInv' /\ \A j \in Kinds \ {k} : running'[j] = running[j]
      BY <1>0, <2>3, AnsweredKeepsGuards DEF DetailReply
    <3>2. KmsgClosedIsQuiet' /\ ErrsBounded'
      BY <2>3, <3>1, KindFacts DEF DetailReply, KmsgClosedIsQuiet, ErrsBounded
    <3> QED
      BY <2>3, <3>1, <3>2 DEF DetailReply, TypeOK, GuardInv
  <2>4. ASSUME k = Kmsg, NEW failed \in BOOLEAN, KmsgReply(failed) PROVE IInv'
    <3>1. GuardInv' /\ running'[Kmsg] = running[Kmsg] - 1 /\ running[Kmsg] > 0
      BY <1>0, <2>4, AnsweredKeepsGuards DEF KmsgReply, Answered
    <3>2. kmsgOpen
      BY <3>1 DEF KmsgClosedIsQuiet
    <3>3. running[Kmsg] <= 1
      BY KindFacts DEF RoundsBounded, PrimeOf, TypeOK
    <3>4. KmsgClosedIsQuiet'
      BY <3>1, <3>3, KindFacts, SMT DEF KmsgClosedIsQuiet, TypeOK
    <3>5. kmsgErrs' \in 0..KmsgMaxErrors /\ kmsgOpen' \in BOOLEAN /\ ErrsBounded'
      <4>1. kmsgErrs' = 0 \/ kmsgErrs' = kmsgErrs + 1
        BY <2>4 DEF KmsgReply
      <4>2. kmsgOpen' <=> ~(failed /\ kmsgErrs + 1 >= KmsgMaxErrors)
        BY <2>4, <3>2, Zenon DEF KmsgReply
      <4>3. kmsgOpen' \in BOOLEAN
        BY <2>4, Zenon DEF KmsgReply
      <4>4. kmsgErrs \in Nat /\ kmsgErrs < KmsgMaxErrors
        BY <3>2, RateAssumption DEF ErrsBounded, TypeOK
      <4>5. kmsgOpen' => kmsgErrs' < KmsgMaxErrors
        <5>1. CASE failed
          BY <4>1, <4>2, <4>4, <5>1, RateAssumption, SMT
        <5>2. CASE ~failed
          BY <2>4, <5>2, RateAssumption, SMT DEF KmsgReply
        <5> QED
          BY <5>1, <5>2
      <4>6. kmsgErrs' \in 0..KmsgMaxErrors
        BY <4>1, <4>4, RateAssumption, SMT
      <4> QED
        BY <4>3, <4>5, <4>6 DEF ErrsBounded
    <3> QED
      BY <2>4, <3>1, <3>4, <3>5 DEF KmsgReply, TypeOK, GuardInv
  <2> QED
    BY <1>2, <2>1, <2>2, <2>3, <2>4 DEF Arrives
<1>3. CASE TogglePause
  BY <1>3 DEF TogglePause, TypeOK, GuardIsAnswered, RoundsBounded,
              KmsgClosedIsQuiet, ErrsBounded
<1>4. ASSUME NEW k \in UserKinds, UserRefresh(k) PROVE IInv'
  <2>1. k \in Kinds \ {Kmsg, Detail}
    BY KindFacts
  <2>2. GuardInv'
    BY <1>0, <1>4, <2>1, SMT
    DEF UserRefresh, QueueUser, GuardInv, GuardIsAnswered, RoundsBounded, PrimeOf
  <2>3. running'[Kmsg] = running[Kmsg]
    BY <1>4, <2>1, KindFacts DEF UserRefresh, QueueUser, TypeOK
  <2> QED
    BY <1>4, <2>2, <2>3
    DEF UserRefresh, TypeOK, GuardInv, KmsgClosedIsQuiet, ErrsBounded
<1>5. ASSUME NEW k \in UserKinds, ConfirmKill(k) PROVE IInv'
  <2> DEFINE list == IF inFlight[k] \/ k \in Disabled THEN {} ELSE {k}
             over == IF detail # "closed" THEN {Detail} ELSE {}
  <2>1. k \in Kinds \ {Kmsg, Detail}
    BY KindFacts
  <2>2. /\ inFlight' = [j \in Kinds |-> inFlight[j] \/ j \in list]
        /\ running' = [j \in Kinds |->
              IF j \in list \cup over THEN running[j] + 1 ELSE running[j]]
    BY <1>5 DEF ConfirmKill
  <2>3. list \subseteq {k} /\ over \subseteq {Detail} /\ (k \in list => inFlight[k] = FALSE)
    BY <2>1 DEF TypeOK
  <2> HIDE DEF list, over
  <2>4. inFlight' \in [Kinds -> BOOLEAN] /\ running' \in [Kinds -> Nat]
    BY <2>2, SMT DEF TypeOK
  <2>5. ASSUME NEW j \in Kinds
        PROVE  /\ inFlight'[j] => running'[j] > 0
               /\ j # Detail =>
                    running'[j] <= PrimeOf(j) + (IF inFlight'[j] THEN 1 ELSE 0)
               /\ j = Kmsg => running'[j] = running[j]
    <3>1. PrimeOf(j) \in Nat
      BY DEF PrimeOf
    <3>2. CASE j \in list
      <4>1. inFlight'[j] = TRUE /\ running'[j] = running[j] + 1
        BY <2>2, <3>2, Zenon
      <4>2. inFlight[j] = FALSE /\ j # Kmsg
        BY <2>1, <2>3, <3>2
      <4> QED
        BY <3>1, <4>1, <4>2, SMT DEF TypeOK, RoundsBounded
    <3>3. CASE j \notin list
      <4>1. inFlight'[j] = inFlight[j]
        BY <2>2, <3>3, SMT DEF TypeOK
      <4>2. running'[j] = (IF j \in over THEN running[j] + 1 ELSE running[j])
        BY <2>2, <3>3, Zenon
      <4>3. j # Detail => j \notin over
        BY <2>3
      <4>4. j = Kmsg => j # Detail
        BY KindFacts
      <4> QED
        BY <3>1, <4>1, <4>2, <4>3, <4>4, SMT DEF TypeOK, GuardIsAnswered, RoundsBounded
    <3> QED
      BY <3>2, <3>3
  <2> QED
    BY <1>5, <2>4, <2>5, KindFacts
    DEF ConfirmKill, TypeOK, GuardIsAnswered, RoundsBounded, PrimeOf,
        KmsgClosedIsQuiet, ErrsBounded
<1>6. CASE OpenDetail \/ RefreshDetail
  <2>1. /\ running' = [running EXCEPT ![Detail] = @ + 1]
        /\ detail' \in {"open"}
        /\ UNCHANGED <<ticking, paused, tickCount, inFlight, kmsgErrs, kmsgOpen, err>>
    BY <1>6 DEF OpenDetail, RefreshDetail
  <2>2. TypeOK'
    BY <2>1, KindFacts, SMT DEF TypeOK
  <2>3. GuardIsAnswered' /\ RoundsBounded' /\ KmsgClosedIsQuiet'
    BY <2>1, KindFacts, SMT
    DEF TypeOK, GuardIsAnswered, RoundsBounded, PrimeOf, KmsgClosedIsQuiet
  <2> QED
    BY <2>1, <2>2, <2>3 DEF ErrsBounded
<1>7. CASE CloseDetail
  BY <1>7 DEF CloseDetail, TypeOK, GuardIsAnswered, RoundsBounded,
              KmsgClosedIsQuiet, ErrsBounded
<1>8. CASE UNCHANGED vars
  BY <1>8 DEF vars, TypeOK, GuardIsAnswered, RoundsBounded,
              KmsgClosedIsQuiet, ErrsBounded
<1> QED
  BY <1>1, <1>2, <1>3, <1>4, <1>5, <1>6, <1>7, <1>8 DEF Next

LEMMA Invariant == Spec => []IInv
  BY InitEstablishes, StepKeeps, PTL DEF Spec

------------------------------------------------------------------------------
(* The types of the sampling loop, with the bound on failed log reads.     *)
THEOREM TypeCorrect == Spec => []TypeOK
<1>1. IInv => TypeOK
  BY DEF IInv
<1> QED
  BY Invariant, <1>1, PTL

(* No probe is ever silenced for good: whatever kinds there are and at     *)
(* whatever rates they run, a raised guard has a goroutine still to answer *)
(* (behind.go:73-106).                                                     *)
THEOREM GuardsAreAnswered == Spec => []GuardIsAnswered
<1>1. IInv => GuardIsAnswered
  BY DEF IInv
<1> QED
  BY Invariant, <1>1, PTL

(* However long a probe hangs, its goroutines do not pile up: one guarded  *)
(* round, and one from Init (behind.go:69-72, model.go:412-436); and the   *)
(* kernel log is not read after it was closed (kernlog.go:189-194).        *)
THEOREM RoundsDoNotPileUp == Spec => []NoRoundTooMany
<1>1. IInv => NoRoundTooMany
  BY DEF IInv, NoRoundTooMany
<1> QED
  BY Invariant, <1>1, PTL
==============================================================================
