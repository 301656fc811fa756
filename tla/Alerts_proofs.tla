---------------------------- MODULE Alerts_proofs ----------------------------
(***************************************************************************)
(* Proofs about AlertEngine and AlertDelivery, for any set of keys, any    *)
(* texts, any log size, any clearTicks and any length of the hook queue.   *)
(*                                                                         *)
(* KeyInv is what the two damping counters of a key amount to: with T =    *)
(* ClearTicks, `lower` times T plus `missing` is at least the number of    *)
(* updates since the condition last showed at the severity announced, and  *)
(* each counter alone is at most that number.                              *)
(*                                                                         *)
(* The log, the alert log file and the hook are told the same events, each *)
(* in its own way.  After(s, k, d) is what a reader of the events s takes  *)
(* the level of k to be if it was d before: it is defined by the newest    *)
(* event of k, and reading s and then t is reading the two joined.  Every  *)
(* claim about what the outside believes is an equation about After.       *)
(***************************************************************************)
EXTENDS AlertDelivery, SequenceLemmas

T == ClearTicks

KeyInv(a, n) ==
  /\ a \in Active
  /\ a.cond \in Conds
  /\ a.cond.sev = Silent => a.missing = 0 /\ a.lower = 0 /\ n = 0
  /\ a.cond.sev = Warn => a.lower = 0
  /\ n \in Nat
  /\ n <= a.lower * T + a.missing
  /\ a.lower <= n /\ a.missing <= n

KeysInv ==
  /\ active \in [Keys -> Active]
  /\ announced \in [Keys -> {Silent, Warn, Crit}]
  /\ stale \in [Keys -> Nat]
  /\ AnnouncedIsActive
  /\ \A k \in Keys : KeyInv(active[k], stale[k])

LogInv ==
  /\ log \in Seq(Event)
  /\ Len(log) <= Cap
  /\ events \in Seq(Event)

IInv == KeysInv /\ LogInv

------------------------------------------------------------------------------
(* Numbers.                                                                *)
LEMMA NumberFacts ==
  /\ T \in Nat \ {0}
  /\ Cap \in Nat \ {0}
  /\ StaleMax \in Nat
  /\ Silent = -1 /\ Warn = 0 /\ Crit = 1
<1>1. T \in Nat \ {0} /\ Cap \in Nat \ {0}
  BY EngineAssumption, SMT DEF T, ClearTicks, Cap
<1>2. StaleMax \in Nat
  BY <1>1, SMT DEF StaleMax, T
<1> QED
  BY <1>1, <1>2 DEF Silent, Warn, Crit

LEMMA Distributes == \A m \in Nat : (m + 1) * T = m * T + T
  BY NumberFacts, SMT

LEMMA SquareIsMore ==
  ASSUME NEW m \in 0..T - 1, NEW n \in 0..T - 1
  PROVE  m * T + n < StaleMax
<1>1. T \in Nat \ {0} /\ m \in Nat /\ n \in Nat /\ m + 1 <= T /\ n < T
  BY NumberFacts, SMT
<1>2. m * T + n < m * T + T
  BY <1>1, SMT
<1>3. m * T + T = (m + 1) * T
  BY <1>1, Distributes
<1>4. (m + 1) * T <= T * T
  BY <1>1, SMT
<1> QED
  BY <1>1, <1>2, <1>3, <1>4, SMT DEF StaleMax, T

(* What KeyInv is for.                                                     *)
LEMMA KeyInvBounds ==
  ASSUME NEW a, NEW n, KeyInv(a, n)
  PROVE  n < StaleMax
<1>1. a.lower \in 0..T - 1 /\ a.missing \in 0..T - 1
  BY DEF KeyInv, Active, T
<1>2. a.lower * T + a.missing < StaleMax
  BY <1>1, SquareIsMore
<1>3. n \in Nat /\ n <= a.lower * T + a.missing
  BY DEF KeyInv
<1>4. a.lower * T + a.missing \in Nat
  BY <1>1, NumberFacts, SMT
<1> QED
  BY <1>2, <1>3, <1>4, NumberFacts, SMT

LEMMA CondFacts ==
  ASSUME NEW c \in Conds
  PROVE  /\ c.sev \in {Silent, Warn, Crit}
         /\ c.sev \in Int
         /\ c.msg \in Texts \cup {0}
         /\ c.sev > Silent => c.sev \in {Warn, Crit} /\ c.msg \in Texts
         /\ Fresh(c) \in Active
         /\ KeyInv(Fresh(c), 0)
<1>1. /\ c.sev \in {Silent, Warn, Crit}
      /\ c.msg \in Texts \cup {0}
      /\ c.sev # Silent => c.sev \in {Warn, Crit} /\ c.msg \in Texts
      /\ c \in [sev : {Silent, Warn, Crit}, msg : Texts \cup {0}]
  BY DEF Conds, NoCond, Texts, Silent, Warn, Crit
<1>2. c.sev \in Int /\ (c.sev > Silent => c.sev # Silent)
  BY <1>1, SMT DEF Silent, Warn, Crit
<1>3. 0 \in 0..T - 1
  BY NumberFacts, SMT
<1>4. Fresh(c) \in Active
  BY <1>1, <1>3 DEF Fresh, Active, T
<1>5. 0 * T + 0 = 0
  BY NumberFacts, SMT
<1>6. KeyInv(Fresh(c), 0)
  BY <1>4, <1>5 DEF KeyInv, Fresh
<1> QED
  BY <1>1, <1>2, <1>4, <1>6

------------------------------------------------------------------------------
(* One key in one update: it is announced anew, cleared, damped, missed    *)
(* for a while, or seen as it was.                                         *)
Announces(k, c) == Rises(k, c) \/ (Drops(k, c) /\ ~Damped(k, c))

Renewed(k, c) ==
  /\ Announces(k, c) /\ ~Clears(k, c)
  /\ NextActive(k, c) = Fresh(c)
  /\ c.sev > Silent /\ c.sev # active[k].cond.sev
  /\ c.sev < active[k].cond.sev => active[k].lower + 1 >= T

Cleared(k, c) ==
  /\ ~Announces(k, c) /\ Clears(k, c)
  /\ NextActive(k, c) = Fresh(c)
  /\ c.sev = Silent /\ active[k].cond.sev > Silent
  /\ active[k].missing + 1 >= T

Dampened(k, c) ==
  /\ ~Announces(k, c) /\ ~Clears(k, c)
  /\ NextActive(k, c) = [active[k] EXCEPT !.lower = @ + 1, !.missing = 0]
  /\ active[k].cond.sev = Crit /\ c.sev < active[k].cond.sev
  /\ active[k].lower + 1 < T

Missed(k, c) ==
  /\ ~Announces(k, c) /\ ~Clears(k, c)
  /\ NextActive(k, c) = [active[k] EXCEPT !.missing = @ + 1]
  /\ active[k].cond.sev > Silent /\ c.sev < active[k].cond.sev
  /\ active[k].missing + 1 < T

AsBefore(k, c) ==
  /\ ~Announces(k, c) /\ ~Clears(k, c)
  /\ NextActive(k, c) = Fresh(c)
  /\ c.sev = active[k].cond.sev

LEMMA FiveWays ==
  ASSUME KeysInv, NEW k \in Keys, NEW c \in Conds
  PROVE  Renewed(k, c) \/ Cleared(k, c) \/ Dampened(k, c) \/ Missed(k, c) \/ AsBefore(k, c)
<1> DEFINE was == active[k].cond.sev
<1>1. /\ active[k].cond \in Conds
      /\ active[k].lower \in Nat /\ active[k].missing \in Nat
  BY NumberFacts DEF KeysInv, KeyInv, Active
<1>2. was \in {Silent, Warn, Crit} /\ c.sev \in {Silent, Warn, Crit}
  BY <1>1, CondFacts
<1>3. Silent = -1 /\ Warn = 0 /\ Crit = 1 /\ T \in Nat
  BY NumberFacts
<1>4. CASE c.sev > was
  BY <1>1, <1>2, <1>3, <1>4, SMT
  DEF Renewed, Announces, Rises, Drops, Damped, Clears, Vanished, NextActive
<1>5. CASE c.sev = was
  BY <1>1, <1>2, <1>3, <1>5, SMT
  DEF AsBefore, Announces, Rises, Drops, Damped, Clears, Vanished, NextActive
<1>6. CASE Silent < c.sev /\ c.sev < was
  <2>1. was = Crit
    BY <1>2, <1>3, <1>6, SMT
  <2>2. CASE active[k].lower + 1 < T
    BY <1>1, <1>2, <1>3, <1>6, <2>1, <2>2, SMT
    DEF Dampened, Announces, Rises, Drops, Damped, Clears, Vanished, NextActive, T
  <2>3. CASE ~(active[k].lower + 1 < T)
    BY <1>1, <1>2, <1>3, <1>6, <2>1, <2>3, SMT
    DEF Renewed, Announces, Rises, Drops, Damped, Clears, Vanished, NextActive, T
  <2> QED
    BY <2>2, <2>3
<1>7. CASE c.sev = Silent /\ c.sev < was
  <2>1. CASE active[k].missing + 1 < T
    BY <1>1, <1>2, <1>3, <1>7, <2>1, SMT
    DEF Missed, Announces, Rises, Drops, Damped, Clears, Vanished, NextActive, T
  <2>2. CASE ~(active[k].missing + 1 < T)
    BY <1>1, <1>2, <1>3, <1>7, <2>2, SMT
    DEF Cleared, Announces, Rises, Drops, Damped, Clears, Vanished, NextActive, T
  <2> QED
    BY <2>1, <2>2
<1> QED
  BY <1>2, <1>3, <1>4, <1>5, <1>6, <1>7, SMT

(* A damped step adds one to a counter and at most T to lower times T plus *)
(* missing: the counters keep their relation to the calm updates.          *)
LEMMA CalmStep ==
  ASSUME KeysInv, NEW k \in Keys, NEW c \in Conds, Dampened(k, c) \/ Missed(k, c)
  PROVE  /\ KeyInv(NextActive(k, c), stale[k] + 1)
         /\ NextActive(k, c).cond = active[k].cond
<1> DEFINE a == active[k]
           n == stale[k]
           b == NextActive(k, c)
<1>1. /\ a \in Active /\ a.cond \in Conds /\ n \in Nat
      /\ a.lower \in 0..T - 1 /\ a.missing \in 0..T - 1
      /\ n <= a.lower * T + a.missing
      /\ a.lower <= n /\ a.missing <= n
      /\ a.cond.sev = Warn => a.lower = 0
  BY DEF KeysInv, KeyInv, Active, T
<1>2. T \in Nat \ {0} /\ a.lower \in Nat /\ a.missing \in Nat /\ a.missing < T
        /\ a.lower * T \in Nat
  BY <1>1, NumberFacts, SMT
<1>3. CASE Dampened(k, c)
  <2>1. b = [a EXCEPT !.lower = @ + 1, !.missing = 0] /\ a.cond.sev = Crit /\ a.lower + 1 < T
    BY <1>3 DEF Dampened
  <2>2. a.lower + 1 \in 0..T - 1 /\ 0 \in 0..T - 1
    BY <1>2, <2>1, SMT
  <2>3. b \in Active /\ b.lower = a.lower + 1 /\ b.missing = 0 /\ b.cond = a.cond
    BY <1>1, <2>1, <2>2 DEF Active, T
  <2>4. n + 1 <= (a.lower + 1) * T + 0
    <3>1. (a.lower + 1) * T = a.lower * T + T
      BY <1>2, Distributes
    <3> QED
      BY <1>1, <1>2, <3>1, SMT
  <2>5. a.lower + 1 <= n + 1 /\ 0 <= n + 1 /\ n + 1 \in Nat
    BY <1>1, <1>2, SMT
  <2>6. Crit # Silent /\ Crit # Warn
    BY NumberFacts
  <2> HIDE DEF b
  <2> QED
    BY <1>1, <2>1, <2>3, <2>4, <2>5, <2>6 DEF KeyInv, b
<1>4. CASE Missed(k, c)
  <2>1. b = [a EXCEPT !.missing = @ + 1] /\ a.cond.sev > Silent /\ a.missing + 1 < T
    BY <1>4 DEF Missed
  <2>2. a.missing + 1 \in 0..T - 1
    BY <1>2, <2>1, SMT
  <2>3. b \in Active /\ b.lower = a.lower /\ b.missing = a.missing + 1 /\ b.cond = a.cond
    BY <1>1, <2>1, <2>2 DEF Active, T
  <2>4. n + 1 <= a.lower * T + (a.missing + 1)
    BY <1>1, <1>2, SMT
  <2>5. a.missing + 1 <= n + 1 /\ a.lower <= n + 1 /\ n + 1 \in Nat
    BY <1>1, <1>2, SMT
  <2>6. a.cond.sev # Silent
    BY <2>1, NumberFacts, SMT
  <2> HIDE DEF b
  <2> QED
    BY <1>1, <2>3, <2>4, <2>5, <2>6 DEF KeyInv, b
<1> QED
  BY <1>3, <1>4

------------------------------------------------------------------------------
(* The events of one update: at most one per key, and each is an Event.    *)
Told1(conds) == RaiseEvents(conds) \cup ClearEvents(conds)

LEMMA WhoIsTold ==
  ASSUME KeysInv, NEW conds \in [Keys -> Conds]
  PROVE  /\ \A e \in Told1(conds) :
              \/ Announces(e.key, conds[e.key]) /\ e = RaiseEvent(e.key, conds[e.key])
              \/ Clears(e.key, conds[e.key]) /\ e = ClearEvent(e.key)
         /\ \A e \in Told1(conds) : e.key \in Keys
         /\ \A k \in Keys : Announces(k, conds[k]) => RaiseEvent(k, conds[k]) \in Told1(conds)
         /\ \A k \in Keys : Clears(k, conds[k]) => ClearEvent(k) \in Told1(conds)
<1>1. RaiseEvents(conds) = {RaiseEvent(k, conds[k]) : k \in {j \in Keys : Announces(j, conds[j])}}
  BY DEF RaiseEvents, Announces
<1>2. \A k \in Keys : \A c : RaiseEvent(k, c).key = k /\ ClearEvent(k).key = k
  BY DEF RaiseEvent, ClearEvent
<1>3. ASSUME NEW e \in Told1(conds)
      PROVE  /\ \/ Announces(e.key, conds[e.key]) /\ e = RaiseEvent(e.key, conds[e.key])
                \/ Clears(e.key, conds[e.key]) /\ e = ClearEvent(e.key)
             /\ e.key \in Keys
  <2>1. CASE e \in RaiseEvents(conds)
    BY <1>1, <1>2, <2>1
  <2>2. CASE e \in ClearEvents(conds)
    BY <1>2, <2>2 DEF ClearEvents
  <2> QED
    BY <2>1, <2>2 DEF Told1
<1>4. ASSUME NEW k \in Keys
      PROVE  /\ Announces(k, conds[k]) => RaiseEvent(k, conds[k]) \in Told1(conds)
             /\ Clears(k, conds[k]) => ClearEvent(k) \in Told1(conds)
  BY <1>1 DEF Told1, ClearEvents
<1> QED
  BY <1>3, <1>4

LEMMA ToldFacts ==
  ASSUME KeysInv, NEW conds \in [Keys -> Conds], NEW k \in Keys
  PROVE  LET c == conds[k]
             told == Told(k, Told1(conds))
             spoken == \E e \in Told1(conds) : e.key = k
         IN  /\ Renewed(k, c) => spoken /\ told = c.sev
             /\ Cleared(k, c) => spoken /\ told = Silent
             /\ ~Announces(k, c) /\ ~Clears(k, c) => ~spoken /\ told = announced[k]
<1> DEFINE c == conds[k]
           evs == Told1(conds)
<1>1. ASSUME Renewed(k, c)
      PROVE  (\E e \in evs : e.key = k) /\ Told(k, evs) = c.sev
  <2>1. RaiseEvent(k, c) \in evs /\ RaiseEvent(k, c).key = k
    BY <1>1, WhoIsTold DEF Renewed, RaiseEvent
  <2>2. \A e \in evs : e.key = k => e = RaiseEvent(k, c)
    BY <1>1, WhoIsTold DEF Renewed
  <2>3. (CHOOSE x \in evs : x.key = k) = RaiseEvent(k, c)
    BY <2>1, <2>2
  <2>4. RaiseEvent(k, c).cleared = FALSE /\ RaiseEvent(k, c).sev = c.sev
    BY DEF RaiseEvent
  <2> HIDE DEF c, evs
  <2> QED
    BY <2>1, <2>3, <2>4 DEF Told
<1>2. ASSUME Cleared(k, c)
      PROVE  (\E e \in evs : e.key = k) /\ Told(k, evs) = Silent
  <2>1. ClearEvent(k) \in evs /\ ClearEvent(k).key = k
    BY <1>2, WhoIsTold DEF Cleared, ClearEvent
  <2>2. \A e \in evs : e.key = k => e = ClearEvent(k)
    BY <1>2, WhoIsTold DEF Cleared
  <2>3. (CHOOSE x \in evs : x.key = k) = ClearEvent(k)
    BY <2>1, <2>2
  <2>4. ClearEvent(k).cleared = TRUE
    BY DEF ClearEvent
  <2> HIDE DEF c, evs
  <2> QED
    BY <2>1, <2>3, <2>4 DEF Told
<1>3. ASSUME ~Announces(k, c), ~Clears(k, c)
      PROVE  ~(\E e \in evs : e.key = k) /\ Told(k, evs) = announced[k]
  <2>1. ~\E e \in evs : e.key = k
    BY <1>3, WhoIsTold
  <2> QED
    BY <2>1 DEF Told
<1> QED
  BY <1>1, <1>2, <1>3

(* One update, one key: what is announced next is what is active next, and *)
(* the calm updates are counted from the condition seen.                   *)
LEMMA KeyStep ==
  ASSUME KeysInv, NEW conds \in [Keys -> Conds], NEW k \in Keys, Update(conds)
  PROVE  LET c == conds[k]
         IN  /\ KeyInv(active'[k], stale'[k])
             /\ announced'[k] = active'[k].cond.sev
             /\ \/ Renewed(k, c) /\ announced'[k] = c.sev /\ stale'[k] = 0
                \/ Cleared(k, c) /\ announced'[k] = c.sev /\ stale'[k] = 0
                \/ /\ Dampened(k, c) \/ Missed(k, c)
                   /\ announced'[k] = announced[k] /\ stale'[k] = stale[k] + 1
                \/ AsBefore(k, c) /\ announced'[k] = c.sev /\ stale'[k] = 0
<1> DEFINE c == conds[k]
           spoken == \E e \in Told1(conds) : e.key = k
<1>1. /\ active'[k] = NextActive(k, c)
      /\ announced'[k] = Told(k, Told1(conds))
      /\ stale'[k] = IF spoken \/ c.sev >= announced[k] THEN 0 ELSE Saturate(stale[k] + 1)
  BY DEF Update, Remember, Told1
<1>2. c \in Conds
  OBVIOUS
<1>3. Fresh(c).cond = c /\ KeyInv(Fresh(c), 0)
  BY <1>2, CondFacts DEF Fresh
<1>4. announced[k] = active[k].cond.sev
  BY DEF KeysInv, AnnouncedIsActive
<1>5. ASSUME Renewed(k, c)
      PROVE  /\ KeyInv(active'[k], stale'[k]) /\ announced'[k] = active'[k].cond.sev
             /\ announced'[k] = c.sev /\ stale'[k] = 0
  BY <1>1, <1>3, <1>5, ToldFacts DEF Renewed
<1>6. ASSUME Cleared(k, c)
      PROVE  /\ KeyInv(active'[k], stale'[k]) /\ announced'[k] = active'[k].cond.sev
             /\ announced'[k] = c.sev /\ stale'[k] = 0
  BY <1>1, <1>3, <1>6, ToldFacts DEF Cleared
<1>7. ASSUME Dampened(k, c) \/ Missed(k, c)
      PROVE  /\ KeyInv(active'[k], stale'[k]) /\ announced'[k] = active'[k].cond.sev
             /\ announced'[k] = announced[k] /\ stale'[k] = stale[k] + 1
  <2>1. ~spoken /\ announced'[k] = announced[k]
    BY <1>1, <1>7, ToldFacts DEF Dampened, Missed
  <2>2. KeyInv(active'[k], stale[k] + 1) /\ active'[k].cond = active[k].cond
    BY <1>1, <1>2, <1>7, CalmStep
  <2>3. c.sev < announced[k]
    BY <1>4, <1>7 DEF Dampened, Missed
  <2>4. ~(c.sev >= announced[k])
    <3>1. c.sev \in Int /\ announced[k] \in Int
      BY <1>2, CondFacts, NumberFacts DEF KeysInv
    <3> QED
      BY <2>3, <3>1, SMT
  <2>5. stale[k] + 1 < StaleMax /\ stale[k] + 1 \in Nat
    BY <2>2, KeyInvBounds DEF KeysInv
  <2>6. Saturate(stale[k] + 1) = stale[k] + 1
    BY <2>5, NumberFacts, SMT DEF Saturate
  <2> QED
    BY <1>1, <1>4, <2>1, <2>2, <2>4, <2>6
<1>8. ASSUME AsBefore(k, c)
      PROVE  /\ KeyInv(active'[k], stale'[k]) /\ announced'[k] = active'[k].cond.sev
             /\ announced'[k] = c.sev /\ stale'[k] = 0
  <2>1. ~spoken /\ announced'[k] = announced[k] /\ active'[k] = Fresh(c)
    BY <1>1, <1>8, ToldFacts DEF AsBefore
  <2>2. c.sev = announced[k] /\ c.sev >= announced[k]
    <3>1. c.sev = announced[k] /\ c.sev \in Int
      BY <1>2, <1>4, <1>8, CondFacts DEF AsBefore
    <3> QED
      BY <3>1, SMT
  <2> QED
    BY <1>1, <1>3, <2>1, <2>2
<1> QED
  BY <1>2, <1>5, <1>6, <1>7, <1>8, FiveWays

------------------------------------------------------------------------------
(* The log.                                                                *)

LEMMA EventsAreFinite ==
  ASSUME NEW conds
  PROVE  IsFiniteSet(RaiseEvents(conds)) /\ IsFiniteSet(ClearEvents(conds))
<1> DEFINE raised == {j \in Keys : Announces(j, conds[j])}
           gone == {j \in Keys : Clears(j, conds[j])}
           raise == [k \in raised |-> RaiseEvent(k, conds[k])]
           clear == [k \in gone |-> ClearEvent(k)]
<1>1. IsFiniteSet(raised) /\ IsFiniteSet(gone)
  BY EngineAssumption, FS_Subset
<1>2. RaiseEvents(conds) = {RaiseEvent(k, conds[k]) : k \in raised}
  BY DEF RaiseEvents, Announces
<1>3. raise \in Surjection(raised, RaiseEvents(conds))
  BY <1>2 DEF Surjection
<1>4. clear \in Surjection(gone, ClearEvents(conds))
  BY DEF ClearEvents, Surjection
<1> HIDE DEF raised, gone, raise, clear
<1>5. IsFiniteSet(RaiseEvents(conds))
  BY <1>1, <1>3, FS_Surjection
<1>6. IsFiniteSet(ClearEvents(conds))
  BY <1>1, <1>4, FS_Surjection
<1> QED
  BY <1>5, <1>6

LEMMA EventsOfUpdate ==
  ASSUME KeysInv, NEW conds \in [Keys -> Conds], Update(conds)
  PROVE  events' \in Seq(Told1(conds)) /\ Told1(conds) \subseteq Event
<1>1. PICK raises \in SetToSeqs(RaiseEvents(conds)), clears \in SetToSeqs(ClearEvents(conds)) :
        events' = raises \o clears
  BY DEF Update
<1>2. raises \in Seq(RaiseEvents(conds)) /\ clears \in Seq(ClearEvents(conds))
  BY EventsAreFinite, OrderingOf
<1>3. raises \in Seq(Told1(conds)) /\ clears \in Seq(Told1(conds))
  <2>1. RaiseEvents(conds) \subseteq Told1(conds) /\ ClearEvents(conds) \subseteq Told1(conds)
    BY DEF Told1
  <2> QED
    BY <1>2, <2>1, SeqMonotonic
<1>4. events' \in Seq(Told1(conds))
  BY <1>1, <1>3, ConcatProperties
<1>5. ASSUME NEW e \in Told1(conds) PROVE e \in Event
  <2>1. PICK k \in Keys : \/ Announces(k, conds[k]) /\ e = RaiseEvent(k, conds[k])
                          \/ Clears(k, conds[k]) /\ e = ClearEvent(k)
    BY WhoIsTold
  <2>2. PICK c \in Conds : c = conds[k]
    OBVIOUS
  <2>3. active[k].cond \in Conds
    BY DEF KeysInv, KeyInv
  <2>4. CASE Announces(k, c) /\ e = RaiseEvent(k, c)
    <3>1. c.sev > Silent
      <4>1. c.sev \in {Silent, Warn, Crit} /\ active[k].cond.sev \in {Silent, Warn, Crit}
        BY <2>3, CondFacts
      <4> QED
        BY <2>4, <4>1, NumberFacts, SMT DEF Announces, Rises, Drops
    <3>2. c.sev \in {Warn, Crit} /\ c.msg \in Texts
      BY <3>1, CondFacts
    <3> QED
      BY <2>4, <3>2, Zenon DEF RaiseEvent, Event
  <2>5. CASE Clears(k, c) /\ e = ClearEvent(k)
    <3>1. active[k].cond.sev > Silent
      BY <2>5 DEF Clears, Vanished
    <3>2. active[k].cond.sev \in {Warn, Crit} /\ active[k].cond.msg \in Texts
      BY <2>3, <3>1, CondFacts
    <3> QED
      BY <2>5, <3>2, Zenon DEF ClearEvent, Event
  <2> QED
    BY <2>1, <2>2, <2>4, <2>5
<1> QED
  BY <1>4, <1>5

(* push leaves the newest lines, at most Cap of them.                      *)
LEMMA PushFits ==
  ASSUME LogInv, NEW entries \in Seq(Event)
  PROVE  Push(entries) \in Seq(Event) /\ Len(Push(entries)) <= Cap
<1> DEFINE all == log \o entries
           m == (IF Len(all) > Cap THEN Len(all) - Cap ELSE 0) + 1
<1>1. all \in Seq(Event)
  BY ConcatProperties DEF LogInv
<1>2. Len(all) \in Nat /\ all \in [1..Len(all) -> Event]
  BY <1>1, LenProperties
<1> HIDE DEF all
<1>3. m \in Nat /\ 1 <= m /\ Len(all) - m + 1 <= Cap
  BY <1>2, NumberFacts, SMT
<1> HIDE DEF m
<1>4. \A i \in m..Len(all) : all[i] \in Event
  BY <1>2, <1>3, SMT
<1>5. /\ SubSeq(all, m, Len(all)) \in Seq(Event)
      /\ Len(SubSeq(all, m, Len(all))) = IF m <= Len(all) THEN Len(all) - m + 1 ELSE 0
  <2>1. m \in Int /\ Len(all) \in Int
    BY <1>2, <1>3
  <2> QED
    BY <1>4, <2>1, SubSeqProperties
<1>6. Push(entries) = SubSeq(all, m, Len(all))
  BY DEF Push, all, m
<1> QED
  BY <1>2, <1>3, <1>5, <1>6, NumberFacts, SMT

------------------------------------------------------------------------------
LEMMA InitEstablishes == Init => IInv
<1> SUFFICES ASSUME Init PROVE IInv
  OBVIOUS
<1>1. NoCond \in Conds /\ NoCond.sev = Silent
  BY DEF Conds, NoCond
<1>2. Fresh(NoCond) \in Active /\ KeyInv(Fresh(NoCond), 0) /\ Fresh(NoCond).cond = NoCond
  BY <1>1, CondFacts DEF Fresh
<1>3. KeysInv
  BY <1>1, <1>2 DEF Init, KeysInv, AnnouncedIsActive
<1>4. LogInv
  BY EmptySeq, NumberFacts DEF Init, LogInv
<1> QED
  BY <1>3, <1>4 DEF IInv

LEMMA UpdateKeeps ==
  ASSUME IInv, NEW conds \in [Keys -> Conds], Update(conds)
  PROVE  IInv'
<1>1. KeysInv /\ LogInv
  BY DEF IInv
<1>2. \A k \in Keys : KeyInv(active'[k], stale'[k]) /\ announced'[k] = active'[k].cond.sev
  BY <1>1, KeyStep
<1>3. \A k \in Keys : /\ active'[k] \in Active
                      /\ active'[k].cond.sev \in {Silent, Warn, Crit}
                      /\ stale'[k] \in Nat
  BY <1>2, CondFacts DEF KeyInv
<1>4. active' \in [Keys -> Active]
  <2>1. active' = [k \in Keys |-> NextActive(k, conds[k])]
    BY DEF Update
  <2> QED
    BY <1>3, <2>1
<1>5. announced' \in [Keys -> {Silent, Warn, Crit}]
  <2>1. announced' = [k \in Keys |-> Told(k, Told1(conds))]
    BY DEF Update, Remember, Told1
  <2> QED
    BY <1>2, <1>3, <2>1
<1>6. stale' \in [Keys -> Nat]
  <2>1. PICK f : stale' = [k \in Keys |-> f[k]]
    <3> DEFINE f == [k \in Keys |->
           IF (\E e \in Told1(conds) : e.key = k) \/ conds[k].sev >= announced[k]
           THEN 0 ELSE Saturate(stale[k] + 1)]
    <3>1. stale' = [k \in Keys |-> f[k]]
      BY DEF Update, Remember, Told1
    <3> QED
      BY <3>1
  <2> QED
    BY <1>3, <2>1
<1>8. KeysInv'
  BY <1>2, <1>4, <1>5, <1>6 DEF KeysInv, AnnouncedIsActive
<1>9. events' \in Seq(Event)
  BY <1>1, EventsOfUpdate, SeqMonotonic
<1>10. LogInv'
  BY <1>1, <1>9, PushFits DEF Update, LogInv
<1> QED
  BY <1>8, <1>10 DEF IInv

LEMMA StepKeeps == IInv /\ [Next]_vars => IInv'
<1> SUFFICES ASSUME IInv, [Next]_vars PROVE IInv'
  OBVIOUS
<1>1. ASSUME NEW conds \in [Keys -> Conds], Update(conds) PROVE IInv'
  BY <1>1, UpdateKeeps
<1>2. CASE ClearLog
  <2>1. UNCHANGED <<active, announced, stale>> /\ log' = <<>> /\ events' = <<>>
    BY <1>2 DEF ClearLog
  <2>2. LogInv'
    BY <2>1, EmptySeq, NumberFacts DEF LogInv
  <2> QED
    BY <2>1, <2>2 DEF IInv, KeysInv, AnnouncedIsActive
<1>3. CASE UNCHANGED vars
  BY <1>3 DEF vars, IInv, KeysInv, AnnouncedIsActive, LogInv
<1> QED
  BY <1>1, <1>2, <1>3 DEF Next

LEMMA Invariant == Spec => []IInv
  BY InitEstablishes, StepKeeps, PTL DEF Spec

------------------------------------------------------------------------------
(* The properties the runs check, for every value of the constants.        *)

(* Everything keeps its type, and the log its capacity, whatever update    *)
(* and clearLog do (alerts.go:85-145, 188-190).                            *)
THEOREM TypeCorrect == Spec => []TypeOK
<1>1. IInv => TypeOK
  BY DEF IInv, KeysInv, LogInv, TypeOK
<1> QED
  BY <1>1, Invariant, PTL

(* What was announced is what is active: neither a damped drop nor a       *)
(* damped absence moves one without the other (alerts.go:95-145), and the  *)
(* text is one of that severity (alerts.go:105-117).                       *)
THEOREM AnnouncedActive == Spec => []ShownAsAnnounced
<1>1. IInv => AnnouncedIsActive
  BY DEF IInv, KeysInv
<1>2. IInv => TextFitsSeverity
  BY DEF IInv, KeysInv, KeyInv, TextFitsSeverity
<1> QED
  BY <1>1, <1>2, Invariant, PTL DEF ShownAsAnnounced

(* A condition that stopped showing is dropped within ClearTicks^2         *)
(* updates, however it wobbles between lower and absent: the two counters  *)
(* of activeCond bound one another (alerts.go:106-141).                    *)
THEOREM StaleIsBounded == Spec => []StaleBounded
<1>1. IInv => StaleBounded
  BY KeyInvBounds DEF IInv, KeysInv, StaleBounded
<1> QED
  BY <1>1, Invariant, PTL

(* No event repeats its predecessor, and a clear speaks of the severity    *)
(* that was announced (alerts.go:99-137).                                  *)
THEOREM NothingEchoes == Spec => NoEcho
<1> DEFINE Fair(e) == IF e.cleared THEN announced[e.key] = e.sev
                                   ELSE announced[e.key] # e.sev
           New == \A i \in 1..Len(events') : Fair(events'[i])
<1>1. ASSUME IInv, NEW conds \in [Keys -> Conds], Update(conds) PROVE New
  <2>1. KeysInv
    BY <1>1 DEF IInv
  <2>2. events' \in Seq(Told1(conds))
    BY <1>1, <2>1, EventsOfUpdate
  <2>3. ASSUME NEW e \in Told1(conds) PROVE Fair(e)
    <3>1. PICK k \in Keys : \/ Announces(k, conds[k]) /\ e = RaiseEvent(k, conds[k])
                            \/ Clears(k, conds[k]) /\ e = ClearEvent(k)
      BY <2>1, WhoIsTold
    <3>2. PICK c \in Conds : c = conds[k]
      OBVIOUS
    <3>3. announced[k] = active[k].cond.sev /\ active[k].cond \in Conds
      BY <2>1 DEF KeysInv, KeyInv, AnnouncedIsActive
    <3>4. CASE Announces(k, c) /\ e = RaiseEvent(k, c)
      <4>1. e.cleared = FALSE /\ e.key = k /\ e.sev = c.sev
        BY <3>4 DEF RaiseEvent
      <4>2. c.sev # active[k].cond.sev
        <5>1. c.sev \in Int /\ active[k].cond.sev \in Int
          BY <3>3, CondFacts
        <5> QED
          BY <3>4, <5>1, NumberFacts, SMT DEF Announces, Rises, Drops
      <4> QED
        BY <3>3, <4>1, <4>2
    <3>5. CASE Clears(k, c) /\ e = ClearEvent(k)
      <4>1. e.cleared = TRUE /\ e.key = k /\ e.sev = active[k].cond.sev
        BY <3>5 DEF ClearEvent
      <4> QED
        BY <3>3, <4>1
    <3> QED
      BY <3>1, <3>2, <3>4, <3>5
  <2>4. \A i \in 1..Len(events') : events'[i] \in Told1(conds)
    BY <2>2, ElementOfSeq
  <2> HIDE DEF Fair
  <2> QED
    BY <2>3, <2>4
<1>2. ASSUME ClearLog PROVE New
  BY <1>2 DEF ClearLog
<1>3. IInv /\ [Next]_vars => New \/ UNCHANGED vars
  BY <1>1, <1>2, Zenon DEF Next
<1>4. IInv /\ [Next]_vars => [New]_vars
  BY <1>3
<1> QED
  BY <1>4, Invariant, PTL DEF Spec, NoEcho

(* The engine implements the hysteresis AlertPromise promises: it follows  *)
(* a rise at once, falls no earlier than ClearTicks calm updates and no    *)
(* later than ClearTicks^2 (update, alerts.go:92-145).                     *)
THEOREM PromiseIsKept == Spec => KeepsPromise
<1>1. Init => Promise!Init
  BY DEF Init, Promise!Init, Silent, Promise!Silent
<1>2. ASSUME IInv, IInv', NEW conds \in [Keys -> Conds], Update(conds)
      PROVE  Promise!Observe
  <2>1. KeysInv /\ announced' \in [Keys -> {Silent, Warn, Crit}] /\ stale' \in [Keys -> Nat]
    BY <1>2 DEF IInv, KeysInv
  <2>2. ASSUME NEW k \in Keys
        PROVE  \E seen \in Promise!Levels :
                 Promise!Follow(k, seen) \/ Promise!Hold(k, seen) \/ Promise!Fall(k, seen)
    <3> DEFINE seen == conds[k].sev
               a == active[k]
               n == stale[k]
    <3>1. /\ conds[k] \in Conds /\ a.cond \in Conds /\ announced[k] = a.cond.sev
          /\ n \in Nat /\ a.lower <= n /\ a.missing <= n
          /\ a.lower \in Nat /\ a.missing \in Nat
      BY <2>1, NumberFacts DEF KeysInv, KeyInv, Active, AnnouncedIsActive
    <3>2. seen \in Promise!Levels /\ seen \in Int /\ announced[k] \in Int
      BY <3>1, CondFacts
      DEF Promise!Levels, Promise!Silent, Promise!Warn, Promise!Crit, Silent, Warn, Crit
    <3>3. CASE Renewed(k, conds[k]) /\ announced'[k] = seen /\ stale'[k] = 0
      <4>1. CASE seen >= announced[k]
        BY <3>2, <3>3, <4>1 DEF Promise!Follow
      <4>2. CASE seen < announced[k]
        <5>1. n + 1 >= ClearTicks
          BY <3>1, <3>3, <4>2, NumberFacts, SMT DEF Renewed, T
        <5> QED
          BY <3>2, <3>3, <4>2, <5>1 DEF Promise!Fall
      <4> HIDE DEF seen
      <4> QED
        BY <3>2, <4>1, <4>2, SMT
    <3>4. CASE Cleared(k, conds[k]) /\ announced'[k] = seen /\ stale'[k] = 0
      <4>1. seen < announced[k]
        BY <3>1, <3>2, <3>4, SMT DEF Cleared
      <4>2. n + 1 >= ClearTicks
        BY <3>1, <3>4, NumberFacts, SMT DEF Cleared, T
      <4> QED
        BY <3>2, <3>4, <4>1, <4>2 DEF Promise!Fall
    <3>5. CASE /\ Dampened(k, conds[k]) \/ Missed(k, conds[k])
               /\ announced'[k] = announced[k] /\ stale'[k] = n + 1
      <4>1. seen < announced[k]
        BY <3>1, <3>5 DEF Dampened, Missed
      <4>2. KeyInv(active'[k], stale'[k])
        BY <1>2, <2>1, KeyStep
      <4>3. n + 1 < StaleMax
        BY <3>5, <4>2, KeyInvBounds
      <4> QED
        BY <3>2, <3>5, <4>1, <4>3 DEF Promise!Hold
    <3>6. CASE AsBefore(k, conds[k]) /\ announced'[k] = seen /\ stale'[k] = 0
      <4>1. seen >= announced[k]
        BY <3>1, <3>2, <3>6, SMT DEF AsBefore
      <4> QED
        BY <3>2, <3>6, <4>1 DEF Promise!Follow
    <3> HIDE DEF seen
    <3> QED
      BY <1>2, <2>1, <3>3, <3>4, <3>5, <3>6, KeyStep DEF seen
  <2>3. announced' \in [Keys -> Promise!Levels] /\ stale' \in [Keys -> Nat]
    BY <2>1 DEF Promise!Levels, Promise!Silent, Promise!Warn, Promise!Crit, Silent, Warn, Crit
  <2> QED
    BY <2>2, <2>3 DEF Promise!Observe
<1>3. ASSUME ClearLog PROVE UNCHANGED Promise!vars
  BY <1>3 DEF ClearLog, Promise!vars
<1>4. ASSUME UNCHANGED vars PROVE UNCHANGED Promise!vars
  BY <1>4 DEF vars, Promise!vars
<1>5. IInv /\ IInv' /\ [Next]_vars => [Promise!Observe]_(Promise!vars)
  BY <1>2, <1>3, <1>4, Zenon DEF Next
<1> QED
  BY <1>1, <1>5, Invariant, PTL DEF Spec, KeepsPromise, Promise!Spec

------------------------------------------------------------------------------
(* What the events of one update tell: of each key they have, the severity *)
(* active next; of every other key, nothing has changed.                   *)
LEMMA EventsTell ==
  ASSUME KeysInv, NEW conds \in [Keys -> Conds], Update(conds)
  PROVE  /\ events' \in Seq(Event)
         /\ \A i \in 1..Len(events') :
              /\ events'[i].key \in Keys
              /\ Says(events'[i]) = active'[events'[i].key].cond.sev
         /\ \A k \in Keys : k \notin KeysOf(events') =>
              active'[k].cond.sev = active[k].cond.sev
<1>1. /\ events' \in Seq(Told1(conds)) /\ events' \in Seq(Event)
      /\ \A i \in 1..Len(events') : events'[i] \in Told1(conds)
  BY EventsOfUpdate, SeqMonotonic, ElementOfSeq
<1>2. ASSUME NEW e \in Told1(conds)
      PROVE  e.key \in Keys /\ Says(e) = active'[e.key].cond.sev
  <2>1. PICK k \in Keys : k = e.key
    BY WhoIsTold
  <2>2. active'[k] = NextActive(k, conds[k]) /\ conds[k] \in Conds
    BY DEF Update
  <2>3. CASE Announces(k, conds[k]) /\ e = RaiseEvent(k, conds[k])
    <3>1. Renewed(k, conds[k])
      BY <2>2, <2>3, FiveWays DEF Cleared, Dampened, Missed, AsBefore
    <3>2. active'[k].cond = conds[k]
      BY <2>2, <3>1 DEF Renewed, Fresh
    <3>3. e.cleared = FALSE /\ e.sev = conds[k].sev
      BY <2>3 DEF RaiseEvent
    <3> QED
      BY SMTT(20), <2>1, <3>2, <3>3 DEF Says
  <2>4. CASE Clears(k, conds[k]) /\ e = ClearEvent(k)
    <3>1. Cleared(k, conds[k])
      BY <2>2, <2>4, FiveWays DEF Renewed, Dampened, Missed, AsBefore
    <3>2. active'[k].cond = conds[k] /\ conds[k].sev = Silent
      BY <2>2, <3>1 DEF Cleared, Fresh
    <3>3. e.cleared = TRUE
      BY <2>4 DEF ClearEvent
    <3> QED
      BY SMTT(20), <2>1, <3>2, <3>3 DEF Says
  <2> QED
    BY <2>1, <2>3, <2>4, WhoIsTold
<1>3. PICK raises \in SetToSeqs(RaiseEvents(conds)), clears \in SetToSeqs(ClearEvents(conds)) :
        events' = raises \o clears
  BY DEF Update
<1>4. ASSUME NEW e \in Told1(conds) PROVE e.key \in KeysOf(events')
  <2>1. /\ raises \in Seq(RaiseEvents(conds)) /\ clears \in Seq(ClearEvents(conds))
        /\ \A x \in RaiseEvents(conds) : \E i \in 1..Len(raises) : raises[i] = x
        /\ \A x \in ClearEvents(conds) : \E i \in 1..Len(clears) : clears[i] = x
    BY EventsAreFinite, OrderingOf
  <2>2. raises \in Seq(Event) /\ clears \in Seq(Event)
    <3>1. RaiseEvents(conds) \subseteq Event /\ ClearEvents(conds) \subseteq Event
      BY EventsOfUpdate DEF Told1
    <3> QED
      BY <2>1, <3>1, SeqMonotonic
  <2>3. \E i \in 1..Len(events') : events'[i] = e
    <3>1. CASE e \in RaiseEvents(conds)
      <4>1. PICK i \in 1..Len(raises) : raises[i] = e
        BY <2>1, <3>1
      <4>2. i \in 1..Len(events') /\ events'[i] = e
        BY <1>3, <2>2, <4>1, ConcatProperties, LenProperties, SMT
      <4> QED
        BY <4>2
    <3>2. CASE e \in ClearEvents(conds)
      <4>1. PICK i \in 1..Len(clears) : clears[i] = e
        BY <2>1, <3>2
      <4>2. Len(raises) + i \in 1..Len(events') /\ events'[Len(raises) + i] = e
        BY <1>3, <2>2, <4>1, ConcatProperties, LenProperties, SMT
      <4> QED
        BY <4>2
    <3> QED
      BY <3>1, <3>2 DEF Told1
  <2> QED
    BY <2>3 DEF KeysOf
<1>5. ASSUME NEW k \in Keys, k \notin KeysOf(events')
      PROVE  active'[k].cond.sev = active[k].cond.sev
  <2>1. ~Announces(k, conds[k]) /\ ~Clears(k, conds[k])
    BY <1>4, <1>5, WhoIsTold DEF RaiseEvent, ClearEvent
  <2>2. active'[k] = NextActive(k, conds[k]) /\ conds[k] \in Conds
    BY DEF Update
  <2>3. CASE Dampened(k, conds[k]) \/ Missed(k, conds[k])
    BY <2>2, <2>3, CalmStep
  <2>4. CASE AsBefore(k, conds[k])
    BY <2>2, <2>4 DEF AsBefore, Fresh
  <2> QED
    BY <2>1, <2>2, <2>3, <2>4, FiveWays DEF Renewed, Cleared
<1> QED
  BY <1>1, <1>2, <1>5

(* The log keeps a suffix of what it was told: its newest line of a key is *)
(* the newest that was ever told of it.                                    *)
LogTells == LogTellsActive /\ \A i \in 1..Len(log) : log[i].key \in Keys

LEMMA PushTells ==
  ASSUME KeysInv, LogInv, LogTells, NEW conds \in [Keys -> Conds], Update(conds)
  PROVE  LogTells'
<1> DEFINE all == log \o events'
           m == (IF Len(all) > Cap THEN Len(all) - Cap ELSE 0) + 1
           n == Len(log)
           sev(k) == active'[k].cond.sev
<1>1. log \in Seq(Event) /\ events' \in Seq(Event) /\ log' = SubSeq(all, m, Len(all))
  BY EventsTell DEF LogInv, Update, Push
<1>2. /\ all \in Seq(Event) /\ Len(all) = n + Len(events')
      /\ n \in Nat /\ Len(events') \in Nat
      /\ \A i \in 1..n : all[i] = log[i]
      /\ \A i \in 1..Len(events') : n + i \in 1..Len(all) /\ all[n + i] = events'[i]
  BY <1>1, ConcatProperties, LenProperties, SMT
<1>3. \A i \in 1..Len(all) : i \in 1..n \/ (i - n \in 1..Len(events') /\ i = n + (i - n))
  BY <1>2, SMT
<1>4. ASSUME NEW i \in 1..Len(all), \A j \in i + 1..Len(all) : all[j].key # all[i].key
      PROVE  all[i].key \in Keys /\ sev(all[i].key) = Says(all[i])
  <2>1. CASE i \in 1..n
    <3>1. all[i] = log[i] /\ log[i].key \in Keys
      BY <1>2, <2>1 DEF LogTells
    <3>2. log[i].key \notin KeysOf(events')
      <4>1. \A j \in 1..Len(events') : n + j \in i + 1..Len(all) /\ events'[j] = all[n + j]
        BY <1>2, <2>1
      <4> QED
        BY <1>4, <3>1, <4>1 DEF KeysOf
    <3>3. \A j \in i + 1..n : log[j].key # log[i].key
      <4>1. \A j \in i + 1..n : j \in i + 1..Len(all) /\ log[j] = all[j]
        BY <1>2, <2>1
      <4> QED
        BY <1>4, <3>1, <4>1
    <3>4. active[log[i].key].cond.sev = Says(log[i])
      BY <2>1, <3>3 DEF LogTells, LogTellsActive, Says
    <3> QED
      BY <3>1, <3>2, <3>4, EventsTell
  <2>2. CASE i - n \in 1..Len(events') /\ i = n + (i - n)
    <3>1. all[i] = events'[i - n]
      BY <1>2, <2>2
    <3> QED
      BY <2>2, <3>1, EventsTell
  <2> QED
    BY <1>3, <2>1, <2>2
<1>5. ASSUME NEW i \in 1..Len(all) PROVE all[i].key \in Keys
  <2>1. all[i] \in Event
    BY <1>2, ElementOfSeq
  <2> QED
    BY <2>1 DEF Event
<1> HIDE DEF all
<1>6. m \in Nat /\ 1 <= m /\ Len(all) \in Nat
  BY <1>2, NumberFacts, SMT
<1> HIDE DEF m
<1>7. /\ Len(log') = IF m <= Len(all) THEN Len(all) - m + 1 ELSE 0
      /\ \A i \in 1..Len(all) - m + 1 : log'[i] = all[m + i - 1]
  <2>1. \A i \in m..Len(all) : all[i] \in Event
    <3>1. \A i \in m..Len(all) : i \in 1..Len(all)
      BY <1>6
    <3> QED
      BY <1>2, <3>1, ElementOfSeq
  <2> QED
    BY <1>1, <1>6, <2>1, SubSeqProperties
<1>8. \A i \in 1..Len(log') : m + i - 1 \in 1..Len(all) /\ log'[i] = all[m + i - 1]
  BY <1>6, <1>7, SMT
<1>9. ASSUME NEW i \in 1..Len(log'), \A j \in i + 1..Len(log') : log'[j].key # log'[i].key
      PROVE  sev(log'[i].key) = Says(log'[i])
  <2>1. ASSUME NEW j \in (m + i - 1) + 1..Len(all) PROVE all[j].key # all[m + i - 1].key
    <3>1. j - m + 1 \in i + 1..Len(log') /\ j - m + 1 \in 1..Len(log') /\ m + (j - m + 1) - 1 = j
      BY <1>6, <1>7, SMT
    <3> QED
      BY <1>8, <1>9, <3>1
  <2> QED
    BY <1>4, <1>8, <2>1
<1>10. LogTellsActive'
  BY <1>9 DEF LogTellsActive, Says
<1> QED
  BY <1>5, <1>8, <1>10 DEF LogTells

(* The Alerts tab never contradicts itself: the newest line the bounded    *)
(* log still has of a key tells the severity the active list shows, or its *)
(* clearing (push and clearLog, alerts.go:85-90, 188-190).                 *)
THEOREM LogAgrees == Spec => []LogTellsActive
<1>1. Init => LogTells
  BY DEF Init, LogTells, LogTellsActive
<1>2. ASSUME IInv, LogTells, [Next]_vars PROVE LogTells'
  <2>1. ASSUME NEW conds \in [Keys -> Conds], Update(conds) PROVE LogTells'
    BY <1>2, <2>1, PushTells DEF IInv
  <2>2. CASE ClearLog
    BY <2>2 DEF ClearLog, LogTells, LogTellsActive
  <2>3. CASE UNCHANGED vars
    BY <1>2, <2>3 DEF vars, LogTells, LogTellsActive
  <2> QED
    BY <1>2, <2>1, <2>2, <2>3 DEF Next
<1>3. IInv /\ LogTells /\ [Next]_vars => LogTells'
  BY <1>2
<1>4. LogTells => LogTellsActive
  BY DEF LogTells
<1> QED
  BY <1>1, <1>3, <1>4, Invariant, PTL DEF Spec

------------------------------------------------------------------------------
(* The footer.  Precedes orders the conditions strictly and totally, so    *)
(* that one of those present precedes the others; summary's pass over the  *)
(* map keeps the first of what it has seen, in whatever order that is.     *)
Shown == {active[k].cond : k \in Present}
Foremost(c, S) == c \in S /\ \A d \in S : ~Precedes(d, c)

LEMMA CondParts ==
  ASSUME NEW c \in Conds
  PROVE  c \in [sev : {Silent, Warn, Crit}, msg : Nat]
<1>1. WarnTexts \subseteq Nat /\ CritTexts \subseteq Nat /\ 0 \in Nat
  BY EngineAssumption
<1>2. CASE c = NoCond
  BY <1>2 DEF NoCond
<1>3. CASE c \in [sev : {Warn}, msg : WarnTexts]
  BY <1>1, <1>3
<1>4. CASE c \in [sev : {Crit}, msg : CritTexts]
  BY <1>1, <1>4
<1> QED
  BY <1>2, <1>3, <1>4 DEF Conds

LEMMA PrecedesOrders ==
  ASSUME NEW c \in Conds, NEW d \in Conds, NEW e \in Conds
  PROVE  /\ ~Precedes(c, c)
         /\ ~Precedes(d, c) /\ ~Precedes(e, d) => ~Precedes(e, c)
         /\ Precedes(d, c) => ~Precedes(c, d)
         /\ ~Precedes(c, d) /\ ~Precedes(d, c) => c = d
<1>1. /\ c.sev \in Int /\ d.sev \in Int /\ e.sev \in Int
      /\ c.msg \in Int /\ d.msg \in Int /\ e.msg \in Int
  BY CondParts, NumberFacts
<1>2. c.sev = d.sev /\ c.msg = d.msg => c = d
  BY CondParts
<1> QED
  BY <1>1, <1>2, SMT DEF Precedes

LEMMA OneForemost ==
  ASSUME NEW S \in SUBSET Conds, NEW c, NEW d, Foremost(c, S), Foremost(d, S)
  PROVE  c = d
BY PrecedesOrders DEF Foremost

(* summary's loop, after i conditions of the order.                        *)
Leads(top, order) ==
  top = [i \in 0..Len(order) |->
           IF i = 0 THEN NoCond
           ELSE LET c == active[order[i]].cond
                IN  IF i = 1 \/ Precedes(c, top[i - 1]) THEN c ELSE top[i - 1]]

LEMMA SummaryLoop ==
  ASSUME TextFitsSeverity, NEW order \in Seq(Keys)
  PROVE  \E top : Leads(top, order) /\ Summary(order) = top[Len(order)]
<1> DEFINE N == Len(order)
           step == [p \in (1..N) \X Conds |->
                      IF p[1] = 1 \/ Precedes(active[order[p[1]]].cond, p[2])
                      THEN active[order[p[1]]].cond ELSE p[2]]
<1>1. N \in Nat /\ NoCond \in Conds /\ \A i \in 1..N : active[order[i]].cond \in Conds
  BY DEF TextFitsSeverity, Conds
<1>2. step \in [(1..N) \X Conds -> Conds]
  <2>1. ASSUME NEW p \in (1..N) \X Conds
        PROVE  (IF p[1] = 1 \/ Precedes(active[order[p[1]]].cond, p[2])
                THEN active[order[p[1]]].cond ELSE p[2]) \in Conds
    BY <1>1
  <2> QED
    BY <2>1
<1>3. \A i \in 1..N, q \in Conds :
        step[<<i, q>>] = IF i = 1 \/ Precedes(active[order[i]].cond, q)
                         THEN active[order[i]].cond ELSE q
  OBVIOUS
<1> HIDE DEF N, step
<1>4. PICK g \in [0..N -> Conds] : Recurs(g, N, NoCond, step)
  BY <1>1, <1>2, RecursionUpTo
<1>5. ASSUME NEW i \in 0..N
      PROVE  g[i] = IF i = 0 THEN NoCond
                    ELSE LET c == active[order[i]].cond
                         IN  IF i = 1 \/ Precedes(c, g[i - 1]) THEN c ELSE g[i - 1]
  <2>1. CASE i = 0
    BY <1>4, <2>1 DEF Recurs
  <2>2. CASE i # 0
    <3>1. i \in 1..N /\ i - 1 \in 0..N
      BY <1>1, <2>2, SMT
    <3>2. g[i] = step[<<i, g[i - 1]>>] /\ g[i - 1] \in Conds
      BY <1>4, <3>1 DEF Recurs
    <3> QED
      BY <1>3, <2>2, <3>1, <3>2
  <2> QED
    BY <2>1, <2>2
<1>6. Leads(g, order)
  BY <1>4, <1>5 DEF Leads, N
<1>7. Leads(CHOOSE top : Leads(top, order), order)
  BY <1>6
<1>8. Summary(order) = (CHOOSE top : Leads(top, order))[Len(order)]
  BY Zenon DEF Summary, Leads
<1> QED
  BY <1>7, <1>8

LEMMA SummaryKeepsForemost ==
  ASSUME TextFitsSeverity, NEW order \in Seq(Keys), Len(order) > 0, NEW top, Leads(top, order)
  PROVE  Foremost(top[Len(order)], {active[order[i]].cond : i \in 1..Len(order)})
<1> DEFINE N == Len(order)
           Seen(n) == {active[order[i]].cond : i \in 1..n}
           S == {n \in Nat : 1 <= n /\ n <= N => Foremost(top[n], Seen(n))}
<1>1. N \in Nat /\ \A i \in 1..N : active[order[i]].cond \in Conds
  BY DEF TextFitsSeverity
<1>2. ASSUME NEW n \in 1..N
      PROVE  top[n] = IF n = 1 \/ Precedes(active[order[n]].cond, top[n - 1])
                      THEN active[order[n]].cond ELSE top[n - 1]
  <2>1. n \in 0..N /\ n # 0
    BY <1>1, SMT
  <2>2. \A i \in 0..N : top[i] = IF i = 0 THEN NoCond
                    ELSE IF i = 1 \/ Precedes(active[order[i]].cond, top[i - 1])
                         THEN active[order[i]].cond ELSE top[i - 1]
    BY Zenon DEF Leads
  <2> QED
    BY <2>1, <2>2
<1>3. 0 \in S
  OBVIOUS
<1>4. ASSUME NEW n \in S PROVE n + 1 \in S
  <2> SUFFICES ASSUME n + 1 <= N PROVE Foremost(top[n + 1], Seen(n + 1))
    OBVIOUS
  <2> DEFINE c == active[order[n + 1]].cond
             m == n + 1
  <2>1. n \in Nat /\ m \in 1..N /\ m - 1 = n /\ c \in Conds
    BY <1>1, SMT
  <2>2. Seen(m) = Seen(n) \cup {c}
    <3>1. \A i : i \in 1..m <=> i \in 1..n \/ i = m
      BY <2>1, SMT
    <3> QED
      BY <3>1
  <2>3. Seen(m) \subseteq Conds
    <3>1. 1..m \subseteq 1..N
      BY <1>1, <2>1, SMT
    <3> QED
      BY <1>1, <3>1
  <2>4. top[m] = IF m = 1 \/ Precedes(c, top[n]) THEN c ELSE top[n]
    BY <1>2, <2>1
  <2>5. CASE n = 0
    <3>1. Seen(m) = {c} /\ top[m] = c
      BY <2>1, <2>2, <2>4, <2>5
    <3> QED
      BY ZenonT(40), <2>1, <3>1, PrecedesOrders DEF Foremost
  <2>6. CASE n # 0
    <3>1. Foremost(top[n], Seen(n))
      BY <2>1, <2>6, SMT
    <3> HIDE DEF Seen, c, m
    <3>2. CASE Precedes(c, top[n])
      <4>1. top[m] = c /\ top[n] \in Conds /\ ~Precedes(top[n], c)
        BY <2>1, <2>2, <2>3, <2>4, <3>1, <3>2, PrecedesOrders DEF Foremost
      <4> QED
        BY <2>1, <2>2, <2>3, <3>1, <4>1, PrecedesOrders DEF Foremost, m
    <3>3. CASE ~Precedes(c, top[n])
      <4>1. m # 1 /\ top[m] = top[n]
        BY <2>1, <2>4, <2>6, <3>3 DEF m
      <4> QED
        BY <2>2, <3>1, <3>3, <4>1 DEF Foremost, m
    <3> QED
      BY <3>2, <3>3
  <2> QED
    BY <2>5, <2>6
<1>5. S = Nat
  BY <1>3, <1>4, InductionOver
<1>6. N \in S
  BY <1>1, <1>5
<1>7. 1 <= N
  BY <1>1, SMT
<1> QED
  BY <1>6, <1>7

(* The footer names the condition the Alerts tab lists first, whatever     *)
(* order the map is ranged over in (summary's comment, alerts.go:147-153). *)
THEOREM BannerHeadsList == Spec => []BannerIsListHead
<1>1. ASSUME IInv, Present # {}, NEW order \in SetToSeqs(Present)
      PROVE  Summary(order) = ActiveListHead
  <2>1. TextFitsSeverity
    BY <1>1 DEF IInv, KeysInv, KeyInv, TextFitsSeverity
  <2>2. IsFiniteSet(Present) /\ Present \subseteq Keys
    BY EngineAssumption, FS_Subset DEF Present
  <2>3. /\ order \in Seq(Present) /\ \A k \in Present : \E i \in 1..Len(order) : order[i] = k
    BY <1>1, <2>2, OrderingOf
  <2>4. order \in Seq(Keys) /\ Len(order) > 0 /\ \A i \in 1..Len(order) : order[i] \in Present
    <3>1. Len(order) \in Nat /\ Len(order) # 0
      BY <1>1, <2>3
    <3> QED
      BY <2>2, <2>3, <3>1, SeqMonotonic, ElementOfSeq
  <2>5. Shown = {active[order[i]].cond : i \in 1..Len(order)}
    BY <2>3, <2>4 DEF Shown
  <2>6. Foremost(Summary(order), Shown)
    <3>1. PICK top : Leads(top, order) /\ Summary(order) = top[Len(order)]
      BY <2>1, <2>4, SummaryLoop
    <3> QED
      BY <2>1, <2>4, <2>5, <3>1, SummaryKeepsForemost
  <2>7. Foremost(ActiveListHead, Shown)
    BY <2>6 DEF ActiveListHead, Shown, Foremost
  <2>8. Shown \subseteq Conds
    BY <2>1, <2>2 DEF Shown, TextFitsSeverity
  <2> QED
    BY <2>6, <2>7, <2>8, OneForemost
<1>2. IInv => BannerIsListHead
  BY <1>1 DEF BannerIsListHead
<1> QED
  BY <1>2, Invariant, PTL

------------------------------------------------------------------------------
(* The newest event of a key, and what a reader of events believes.        *)
IsNewest(i, s, k) ==
  /\ i \in 1..Len(s)
  /\ s[i].key = k
  /\ \A j \in i + 1..Len(s) : s[j].key # k

LEMMA NewestIs ==
  ASSUME NEW E, NEW s \in Seq(E), NEW k, k \in KeysOf(s)
  PROVE  IsNewest(Newest(s, k), s, k)
<1> DEFINE I == {i \in 1..Len(s) : s[i].key = k}
<1>1. I \in SUBSET Int /\ I # {} /\ Len(s) \in Int /\ \A i \in I : i <= Len(s)
  BY DEF KeysOf
<1>2. Max(I) \in I /\ \A y \in I : y <= Max(I)
  BY <1>1, GreatestNumber
<1>3. Newest(s, k) = Max(I)
  BY <1>1 DEF Newest, SelectLastInSeq
<1>4. \A j \in Max(I) + 1..Len(s) : j \notin I /\ j \in 1..Len(s)
  BY <1>2, SMT
<1> QED
  BY <1>2, <1>3, <1>4 DEF IsNewest

After(s, k, d) == IF k \in KeysOf(s) THEN Says(s[Newest(s, k)]) ELSE d

LEMMA AfterNewest ==
  ASSUME NEW E, NEW s \in Seq(E), NEW k, NEW d, NEW i, IsNewest(i, s, k)
  PROVE  After(s, k, d) = Says(s[i])
<1>1. k \in KeysOf(s)
  BY DEF KeysOf, IsNewest
<1>2. IsNewest(Newest(s, k), s, k)
  BY <1>1, NewestIs
<1>3. Newest(s, k) = i
  <2>1. Len(s) \in Nat
    OBVIOUS
  <2>2. Newest(s, k) \notin i + 1..Len(s) /\ i \notin Newest(s, k) + 1..Len(s)
    BY <1>2 DEF IsNewest
  <2> QED
    BY <1>2, <2>1, <2>2, SMT DEF IsNewest
<1> QED
  BY <1>1, <1>3 DEF After

LEMMA KeysOfConcat ==
  ASSUME NEW E, NEW s \in Seq(E), NEW t \in Seq(E)
  PROVE  KeysOf(s \o t) = KeysOf(s) \cup KeysOf(t)
<1> DEFINE st == s \o t
<1>1. /\ st \in Seq(E) /\ Len(st) = Len(s) + Len(t) /\ Len(s) \in Nat /\ Len(t) \in Nat
      /\ \A i \in 1..Len(s) : i \in 1..Len(st) /\ st[i] = s[i]
      /\ \A i \in 1..Len(t) : Len(s) + i \in 1..Len(st) /\ st[Len(s) + i] = t[i]
  BY ConcatProperties, LenProperties, SMT
<1>2. \A i \in 1..Len(st) : i \in 1..Len(s) \/ (i - Len(s) \in 1..Len(t) /\ i = Len(s) + (i - Len(s)))
  BY <1>1, SMT
<1> HIDE DEF st
<1>3. ASSUME NEW k \in KeysOf(st) PROVE k \in KeysOf(s) \cup KeysOf(t)
  <2>1. PICK i \in 1..Len(st) : st[i].key = k
    BY DEF KeysOf
  <2>2. CASE i \in 1..Len(s)
    BY <1>1, <2>1, <2>2 DEF KeysOf
  <2>3. CASE i - Len(s) \in 1..Len(t) /\ i = Len(s) + (i - Len(s))
    <3>1. t[i - Len(s)].key = k
      BY <1>1, <2>1, <2>3
    <3> QED
      BY <2>3, <3>1 DEF KeysOf
  <2> QED
    BY <1>2, <2>2, <2>3
<1>4. KeysOf(s) \subseteq KeysOf(st) /\ KeysOf(t) \subseteq KeysOf(st)
  BY <1>1 DEF KeysOf
<1> QED
  BY <1>3, <1>4 DEF st

(* Reading s and then t.                                                   *)
LEMMA AfterConcat ==
  ASSUME NEW E, NEW s \in Seq(E), NEW t \in Seq(E), NEW k, NEW d
  PROVE  After(s \o t, k, d) = After(t, k, After(s, k, d))
<1> DEFINE st == s \o t
<1>1. /\ st \in Seq(E) /\ Len(st) = Len(s) + Len(t) /\ Len(s) \in Nat /\ Len(t) \in Nat
      /\ \A i \in 1..Len(s) : i \in 1..Len(st) /\ st[i] = s[i]
      /\ \A i \in 1..Len(t) : Len(s) + i \in 1..Len(st) /\ st[Len(s) + i] = t[i]
  BY ConcatProperties, LenProperties, SMT
<1>2. KeysOf(st) = KeysOf(s) \cup KeysOf(t)
  BY KeysOfConcat
<1> HIDE DEF st
<1>3. CASE k \in KeysOf(t)
  <2> DEFINE n == Newest(t, k)
  <2>1. n \in 1..Len(t) /\ t[n].key = k /\ \A j \in n + 1..Len(t) : t[j].key # k
    BY <1>3, NewestIs DEF IsNewest
  <2> HIDE DEF n
  <2>2. Len(s) + n \in 1..Len(st) /\ st[Len(s) + n] = t[n]
    BY <1>1, <2>1
  <2>3. \A j \in (Len(s) + n) + 1..Len(st) : st[j].key # k
    <3> TAKE j \in (Len(s) + n) + 1..Len(st)
    <3>1. j - Len(s) \in n + 1..Len(t) /\ j - Len(s) \in 1..Len(t) /\ j = Len(s) + (j - Len(s))
      BY <1>1, <2>1, SMT
    <3> QED
      BY <1>1, <2>1, <3>1
  <2>7. IsNewest(Len(s) + n, st, k)
    BY <2>1, <2>2, <2>3 DEF IsNewest
  <2>8. After(st, k, d) = Says(t[n])
    BY <1>1, <2>2, <2>7, AfterNewest
  <2>5. After(t, k, After(s, k, d)) = Says(t[n])
    BY <1>3 DEF After, n
  <2> QED
    BY <2>5, <2>8 DEF st
<1>4. CASE k \notin KeysOf(t) /\ k \in KeysOf(s)
  <2> DEFINE n == Newest(s, k)
  <2>1. n \in 1..Len(s) /\ s[n].key = k /\ \A j \in n + 1..Len(s) : s[j].key # k
    BY <1>4, NewestIs DEF IsNewest
  <2> HIDE DEF n
  <2>2. n \in 1..Len(st) /\ st[n] = s[n]
    BY <1>1, <2>1
  <2>3. \A j \in n + 1..Len(st) : st[j].key # k
    <3> TAKE j \in n + 1..Len(st)
    <3>1. CASE j <= Len(s)
      <4>1. j \in n + 1..Len(s) /\ j \in 1..Len(s)
        BY <1>1, <2>1, <3>1, SMT
      <4> QED
        BY <1>1, <2>1, <4>1
    <3>2. CASE ~(j <= Len(s))
      <4>1. j - Len(s) \in 1..Len(t) /\ j = Len(s) + (j - Len(s))
        BY <1>1, <2>1, <3>2, SMT
      <4>2. st[j] = t[j - Len(s)] /\ t[j - Len(s)].key \in KeysOf(t)
        BY <1>1, <4>1 DEF KeysOf
      <4> QED
        BY <1>4, <4>2
    <3> QED
      BY <3>1, <3>2
  <2>7. IsNewest(n, st, k)
    BY <2>1, <2>2, <2>3 DEF IsNewest
  <2>8. After(st, k, d) = Says(s[n])
    BY <1>1, <2>2, <2>7, AfterNewest
  <2>5. After(t, k, After(s, k, d)) = After(s, k, d) /\ After(s, k, d) = Says(s[n])
    BY <1>4 DEF After, n
  <2> QED
    BY <2>5, <2>8 DEF st
<1>5. CASE k \notin KeysOf(t) /\ k \notin KeysOf(s)
  BY <1>2, <1>5 DEF After, st
<1> QED
  BY <1>3, <1>4, <1>5

LEMMA AfterShort ==
  ASSUME NEW E, NEW e \in E, NEW k, NEW d
  PROVE  /\ KeysOf(<<>>) = {} /\ KeysOf(<<e>>) = {e.key}
         /\ After(<<>>, k, d) = d
         /\ After(<<e>>, k, d) = IF e.key = k THEN Says(e) ELSE d
<1>1. KeysOf(<<>>) = {}
  BY DEF KeysOf
<1>2. /\ <<e>> \in Seq(E) /\ Len(<<e>>) = 1 /\ <<e>>[1] = e /\ 1..1 = {1}
      /\ \A j \in 1 + 1..1 : FALSE
  BY SMT
<1>3. KeysOf(<<e>>) = {e.key}
  BY <1>2 DEF KeysOf
<1>4. ASSUME e.key = k PROVE After(<<e>>, k, d) = Says(e)
  <2>1. IsNewest(1, <<e>>, k)
    BY <1>2, <1>4 DEF IsNewest
  <2>2. After(<<e>>, k, d) = Says(<<e>>[1])
    BY <1>2, <2>1, AfterNewest
  <2> QED
    BY <1>2, <2>2
<1>5. After(<<>>, k, d) = d /\ (e.key # k => After(<<e>>, k, d) = d)
  BY <1>1, <1>3 DEF After
<1> QED
  BY <1>1, <1>3, <1>4, <1>5

------------------------------------------------------------------------------
(* The delivery.  DeliveryInv adds to the engine's invariant the types of  *)
(* what is in transit and, per key, where the newest event is: on its way, *)
(* told to the outside, or lost.                                           *)
Levels == {Silent, Warn, Crit}

Transit ==
  /\ pending \in Seq(Event)
  /\ ch \in Seq(Event)
  /\ Len(ch) <= QueueLen
  /\ \/ worker = Idle
     \/ \E e \in Event : worker = Running(e)
  /\ outside \in [Keys -> Levels]
  /\ filed \in [Keys -> Levels]

(* What the outside believes of k once everything in transit is told.      *)
Believed(k) == After(pending, k, After(ch, k, After(InHand, k, outside[k])))

Follows(k) ==
  \/ k \in behind /\ k \notin KeysOf(pending)
  \/ Believed(k) = active[k].cond.sev

DeliveryInv == IInv /\ Transit /\ FileAgrees /\ \A k \in Keys : Follows(k)

LEMMA HandFacts ==
  ASSUME Transit
  PROVE  /\ InHand \in Seq(Event)
         /\ worker = Idle => InHand = <<>>
         /\ worker.state = "running" =>
              worker.job \in Event /\ InHand = <<worker.job>> /\ worker = Running(worker.job)
  BY DEF Transit, InHand, Idle, Running

LEMMA ChainFacts ==
  ASSUME NEW a \in Seq(Event), NEW b \in Seq(Event), NEW c \in Seq(Event)
  PROVE  /\ \A k, d : After(a \o b \o c, k, d) = After(c, k, After(b, k, After(a, k, d)))
         /\ KeysOf(a \o b \o c) = (KeysOf(a) \cup KeysOf(b)) \cup KeysOf(c)
<1> DEFINE ab == a \o b
<1>1. ab \in Seq(Event)
  BY ConcatProperties
<1>2. KeysOf(ab) = KeysOf(a) \cup KeysOf(b)
  BY KeysOfConcat
<1>3. \A k, d : After(ab, k, d) = After(b, k, After(a, k, d))
  BY AfterConcat
<1> HIDE DEF ab
<1>4. KeysOf(ab \o c) = KeysOf(ab) \cup KeysOf(c)
  BY <1>1, KeysOfConcat
<1>5. \A k, d : After(ab \o c, k, d) = After(c, k, After(ab, k, d))
  BY <1>1, AfterConcat
<1> QED
  BY <1>2, <1>3, <1>4, <1>5 DEF ab

LEMMA LevelFacts ==
  ASSUME NEW s \in Seq(Event), NEW k, NEW d \in Levels
  PROVE  After(s, k, d) \in Levels
<1>1. \A e \in Event : Says(e) \in Levels
  BY DEF Event, Says, Levels
<1>2. CASE k \in KeysOf(s)
  <2>1. Newest(s, k) \in 1..Len(s)
    BY <1>2, NewestIs DEF IsNewest
  <2>2. s[Newest(s, k)] \in Event
    BY <2>1, ElementOfSeq
  <2> QED
    BY <1>1, <1>2, <2>2 DEF After
<1> QED
  BY <1>2 DEF After

(* A queue that is taken from the front.                                   *)
LEMMA FrontFacts ==
  ASSUME NEW E, NEW s \in Seq(E), s # <<>>
  PROVE  /\ Head(s) \in E /\ Tail(s) \in Seq(E) /\ Len(Tail(s)) = Len(s) - 1
         /\ Head(s).key \in KeysOf(s)
         /\ KeysOf(s) = {Head(s).key} \cup KeysOf(Tail(s))
         /\ \A k, d : After(s, k, d) =
              After(Tail(s), k, IF Head(s).key = k THEN Says(Head(s)) ELSE d)
<1>1. /\ Head(s) \in E /\ Tail(s) \in Seq(E) /\ Len(Tail(s)) = Len(s) - 1
      /\ <<Head(s)>> \in Seq(E)
  BY HeadTailProperties
<1>2. s = <<Head(s)>> \o Tail(s)
  <2>1. /\ Len(<<Head(s)>> \o Tail(s)) = Len(s) /\ <<Head(s)>> \o Tail(s) \in Seq(E)
        /\ \A i \in 1..Len(s) : (<<Head(s)>> \o Tail(s))[i] = s[i]
    OBVIOUS
  <2> QED
    BY <2>1, SeqEqual
<1>3. KeysOf(s) = {Head(s).key} \cup KeysOf(Tail(s))
  <2>1. KeysOf(<<Head(s)>> \o Tail(s)) = KeysOf(<<Head(s)>>) \cup KeysOf(Tail(s))
    BY ZenonT(30), <1>1, KeysOfConcat
  <2>2. KeysOf(<<Head(s)>>) = {Head(s).key}
    BY <1>1, AfterShort
  <2> QED
    BY <1>2, <2>1, <2>2
<1>4. \A k, d : After(s, k, d) =
        After(Tail(s), k, IF Head(s).key = k THEN Says(Head(s)) ELSE d)
  <2> TAKE k, d
  <2>1. After(<<Head(s)>> \o Tail(s), k, d) = After(Tail(s), k, After(<<Head(s)>>, k, d))
    <3> DEFINE front == <<Head(s)>>
               rest == Tail(s)
    <3>1. front \in Seq(E) /\ rest \in Seq(E)
      BY <1>1
    <3> HIDE DEF front, rest
    <3>2. After(front \o rest, k, d) = After(rest, k, After(front, k, d))
      BY <3>1, AfterConcat
    <3> QED
      BY <3>2 DEF front, rest
  <2>2. After(<<Head(s)>>, k, d) = IF Head(s).key = k THEN Says(Head(s)) ELSE d
    BY <1>1, AfterShort
  <2> QED
    BY <1>2, <2>1, <2>2
<1> QED
  BY <1>1, <1>3, <1>4

LEMMA AfterEvents ==
  ASSUME KeysInv, NEW conds \in [Keys -> Conds], Update(conds), NEW k \in Keys, NEW d
  PROVE  /\ k \in KeysOf(events') => After(events', k, d) = active'[k].cond.sev
         /\ k \notin KeysOf(events') =>
              After(events', k, d) = d /\ active'[k].cond.sev = active[k].cond.sev
<1>1. /\ events' \in Seq(Event)
      /\ \A i \in 1..Len(events') : Says(events'[i]) = active'[events'[i].key].cond.sev
      /\ k \notin KeysOf(events') => active'[k].cond.sev = active[k].cond.sev
  BY EventsTell
<1>2. CASE k \in KeysOf(events')
  <2>1. Newest(events', k) \in 1..Len(events') /\ events'[Newest(events', k)].key = k
    BY <1>1, <1>2, NewestIs DEF IsNewest
  <2> QED
    BY <1>1, <1>2, <2>1 DEF After
<1>3. CASE k \notin KeysOf(events')
  BY <1>1, <1>3 DEF After
<1> QED
  BY <1>2, <1>3

(* handleAlertEvents writes a prefix of the events of a tick.              *)
LEMMA FileStep ==
  ASSUME KeysInv, Transit, FileAgrees, NEW conds \in [Keys -> Conds], Update(conds),
         NEW n \in 0..Len(events'), AppendAlertLog(n)
  PROVE  FileAgrees' /\ filed' \in [Keys -> Levels]
<1> DEFINE done == SubSeq(events', 1, n)
           lost == SubSeq(events', n + 1, Len(events'))
<1>1. events' \in Seq(Event) /\ Len(events') \in Nat
  BY EventsTell
<1>2. done \in Seq(Event) /\ lost \in Seq(Event)
  <2>1. \A i \in 1..Len(events') : events'[i] \in Event
    BY <1>1
  <2>2. \A i \in 1..n : i \in 1..Len(events')
    BY <1>1
  <2>3. \A i \in n + 1..Len(events') : i \in 1..Len(events')
    BY <1>1
  <2>4. n \in Int /\ n + 1 \in Int /\ Len(events') \in Int /\ 1 \in Int
    BY <1>1
  <2>5. done \in Seq(Event)
    BY <2>1, <2>2, <2>4, SubSeqProperties
  <2>6. lost \in Seq(Event)
    BY <2>1, <2>3, <2>4, SubSeqProperties
  <2> QED
    BY <2>5, <2>6
<1>3. done \o lost = events'
  <2>1. /\ 1 \in 1..Len(events') + 1 /\ n \in (1 - 1)..Len(events')
        /\ Len(events') \in n..Len(events')
    BY <1>1
  <2>2. done \o lost = SubSeq(events', 1, Len(events'))
    BY <1>1, <2>1, ConcatAdjacentSubSeq
  <2> QED
    BY <1>1, <2>2, SubSeqFull
<1>4. /\ filed' = [k \in Keys |-> After(done, k, filed[k])]
      /\ unfiled' = (unfiled \ KeysOf(done)) \cup KeysOf(lost)
  BY DEF AppendAlertLog, File, After
<1> HIDE DEF done, lost
<1>5. KeysOf(events') = KeysOf(done) \cup KeysOf(lost)
  <2>1. KeysOf(done \o lost) = KeysOf(done) \cup KeysOf(lost)
    BY <1>2, KeysOfConcat
  <2> QED
    BY <1>3, <2>1
<1>6. \A k, d : After(events', k, d) = After(lost, k, After(done, k, d))
  <2>1. \A k, d : After(done \o lost, k, d) = After(lost, k, After(done, k, d))
    BY <1>2, AfterConcat
  <2> QED
    BY <1>3, <2>1
<1>7. ASSUME NEW k \in Keys PROVE k \in unfiled' \/ filed'[k] = active'[k].cond.sev
  <2>1. CASE k \in KeysOf(lost)
    BY <1>4, <2>1
  <2>2. CASE k \notin KeysOf(lost) /\ k \in KeysOf(done)
    <3>1. filed'[k] = After(events', k, filed[k])
      BY <1>4, <1>6, <2>2 DEF After
    <3> QED
      BY <1>5, <2>2, <3>1, AfterEvents
  <2>3. CASE k \notin KeysOf(lost) /\ k \notin KeysOf(done)
    <3>1. filed'[k] = filed[k] /\ (k \in unfiled => k \in unfiled')
      BY <1>4, <2>3 DEF After
    <3>2. active'[k].cond.sev = active[k].cond.sev
      BY <1>5, <2>3, AfterEvents
    <3> QED
      BY <3>1, <3>2 DEF FileAgrees
  <2> QED
    BY <2>1, <2>2, <2>3
<1>8. filed' \in [Keys -> Levels]
  <2>1. \A k \in Keys : filed[k] \in Levels
    BY DEF Transit
  <2>2. \A k \in Keys : After(done, k, filed[k]) \in Levels
    BY <1>2, <2>1, LevelFacts
  <2> QED
    BY <1>4, <2>2
<1> QED
  BY <1>7, <1>8 DEF FileAgrees

LEMMA EmptyFacts ==
  /\ <<>> \in Seq(Event) /\ Len(<<>>) = 0
  /\ KeysOf(<<>>) = {}
  /\ \A k, d : After(<<>>, k, d) = d
<1>1. KeysOf(<<>>) = {}
  BY DEF KeysOf
<1> QED
  BY <1>1 DEF After

LEMMA TickKeeps ==
  ASSUME DeliveryInv, NEW conds \in [Keys -> Conds], Tick(conds)
  PROVE  DeliveryInv'
<1>1. KeysInv /\ LogInv /\ IInv /\ Transit /\ FileAgrees /\ Update(conds) /\ pending = <<>>
  BY DEF DeliveryInv, IInv, Tick
<1>2. IInv'
  BY <1>1, UpdateKeeps
<1>3. /\ pending' = events' /\ events' \in Seq(Event)
      /\ ch' = ch /\ worker' = worker /\ outside' = outside /\ behind' = behind
  BY <1>1, EventsTell DEF Tick
<1>4. FileAgrees' /\ filed' \in [Keys -> Levels]
  <2>1. CASE events' = <<>>
    <3>1. filed' = filed /\ unfiled' = unfiled
      BY <2>1 DEF Tick
    <3>2. \A k \in Keys : active'[k].cond.sev = active[k].cond.sev
      BY <1>1, <2>1, AfterEvents, EmptyFacts
    <3> QED
      BY <1>1, <3>1, <3>2 DEF FileAgrees, Transit
  <2>2. CASE events' # <<>>
    <3>1. PICK n \in 0..Len(events') : AppendAlertLog(n)
      BY <2>2 DEF Tick
    <3> QED
      BY <1>1, <3>1, FileStep
  <2> QED
    BY <2>1, <2>2
<1>5. Transit'
  BY <1>1, <1>3, <1>4 DEF Transit
<1>6. ASSUME NEW k \in Keys PROVE Follows(k)'
  <2> DEFINE b == After(ch, k, After(InHand, k, outside[k]))
  <2>1. Believed(k) = b /\ Believed(k)' = After(events', k, b) /\ KeysOf(pending) = {}
    BY <1>1, <1>3, EmptyFacts DEF Believed, InHand
  <2>2. Follows(k)
    BY DEF DeliveryInv
  <2> HIDE DEF b
  <2>3. CASE k \in KeysOf(events')
    <3>1. After(events', k, b) = active'[k].cond.sev
      BY <1>1, <2>3, AfterEvents
    <3> QED
      BY <2>1, <3>1 DEF Follows
  <2>4. CASE k \notin KeysOf(events')
    <3>1. After(events', k, b) = b /\ active'[k].cond.sev = active[k].cond.sev
      BY <1>1, <2>4, AfterEvents
    <3> QED
      BY <1>3, <2>1, <2>2, <2>4, <3>1 DEF Follows
  <2> QED
    BY <2>3, <2>4
<1> QED
  BY <1>2, <1>4, <1>5, <1>6 DEF DeliveryInv

(* The steps of the delivery leave the engine and its log file alone.      *)
LEMMA EngineStays ==
  ASSUME DeliveryInv, UNCHANGED vars, UNCHANGED <<filed, unfiled>>
  PROVE  IInv' /\ FileAgrees' /\ filed' \in [Keys -> Levels] /\ active' = active
<1>1. IInv'
  BY StepKeeps DEF DeliveryInv
<1>2. active' = active
  BY DEF vars
<1> QED
  BY <1>1, <1>2 DEF DeliveryInv, FileAgrees, Transit

(* An event of a key that comes later settles what is believed of the key. *)
LEMMA LaterSettles ==
  ASSUME NEW E, NEW s \in Seq(E), NEW k, k \in KeysOf(s), NEW c, NEW d
  PROVE  After(s, k, c) = After(s, k, d)
BY DEF After

LEMMA EnqueueKeeps == DeliveryInv /\ Enqueue => DeliveryInv'
<1> SUFFICES ASSUME DeliveryInv, Enqueue PROVE DeliveryInv'
  OBVIOUS
<1> DEFINE e == Head(pending)
           rest == Tail(pending)
<1>1. /\ IInv' /\ FileAgrees' /\ filed' \in [Keys -> Levels] /\ active' = active
      /\ outside' = outside /\ worker' = worker /\ pending' = rest
  BY EngineStays DEF Enqueue
<1>2. Transit /\ pending \in Seq(Event) /\ pending # <<>> /\ ch \in Seq(Event)
  BY DEF Enqueue, DeliveryInv, Transit
<1>3. /\ e \in Event /\ rest \in Seq(Event) /\ KeysOf(pending) = {e.key} \cup KeysOf(rest)
      /\ \A k, d : After(pending, k, d) = After(rest, k, IF e.key = k THEN Says(e) ELSE d)
  BY <1>2, FrontFacts
<1>4. \A k \in Keys : Follows(k)
  BY DEF DeliveryInv
<1>5. \/ Len(ch) < QueueLen /\ ch' = Append(ch, e) /\ behind' = behind \ {e.key}
      \/ behind' = behind \cup {e.key} /\ ch' = ch
  BY DEF Enqueue
<1> HIDE DEF e, rest
<1>6. CASE Len(ch) < QueueLen /\ ch' = Append(ch, e) /\ behind' = behind \ {e.key}
  <2>1. ch' \in Seq(Event) /\ Len(ch') = Len(ch) + 1 /\ ch' = ch \o <<e>>
    BY <1>2, <1>3, <1>6, AppendProperties, AppendIsConcat
  <2>2. Len(ch') <= QueueLen
    BY <1>2, <1>6, <2>1, QueueAssumption, LenProperties, SMT
  <2>3. Transit'
    BY <1>1, <1>2, <1>3, <2>1, <2>2 DEF Transit
  <2>4. \A k, d : After(ch', k, d) = IF e.key = k THEN Says(e) ELSE After(ch, k, d)
    <3> TAKE k, d
    <3> DEFINE one == <<e>>
    <3>1. one \in Seq(Event)
      BY <1>3
    <3>2. After(one, k, After(ch, k, d)) = IF e.key = k THEN Says(e) ELSE After(ch, k, d)
      BY <1>3, AfterShort
    <3> HIDE DEF one
    <3>3. After(ch \o one, k, d) = After(one, k, After(ch, k, d))
      BY <1>2, <3>1, AfterConcat
    <3> QED
      BY <2>1, <3>2, <3>3 DEF one
  <2>5. ASSUME NEW k \in Keys PROVE Follows(k)'
    <3>1. Believed(k)' = Believed(k)
      BY <1>1, <1>3, <2>4 DEF Believed, InHand
    <3>2. Follows(k)
      BY <1>4
    <3> QED
      BY <1>1, <1>3, <1>6, <3>1, <3>2 DEF Follows
  <2> QED
    BY <1>1, <2>3, <2>5 DEF DeliveryInv
<1>7. CASE behind' = behind \cup {e.key} /\ ch' = ch
  <2>1. Transit'
    BY <1>1, <1>2, <1>3, <1>7 DEF Transit
  <2>2. ASSUME NEW k \in Keys PROVE Follows(k)'
    <3> DEFINE d == After(ch, k, After(InHand, k, outside[k]))
    <3>1. /\ Believed(k)' = After(rest, k, d)
          /\ Believed(k) = After(rest, k, IF e.key = k THEN Says(e) ELSE d)
      BY <1>1, <1>3, <1>7 DEF Believed, InHand
    <3>2. Follows(k)
      BY <1>4
    <3> HIDE DEF d
    <3>3. CASE e.key # k
      BY <1>1, <1>3, <1>7, <3>1, <3>2, <3>3 DEF Follows
    <3>4. CASE e.key = k /\ k \in KeysOf(rest)
      <4>1. Believed(k)' = Believed(k) /\ k \in KeysOf(pending)
        BY <1>3, <3>1, <3>4, LaterSettles
      <4> QED
        BY <1>1, <3>2, <4>1 DEF Follows
    <3>5. CASE e.key = k /\ k \notin KeysOf(rest)
      BY <1>1, <1>7, <3>5 DEF Follows
    <3> QED
      BY <3>3, <3>4, <3>5
  <2> QED
    BY <1>1, <2>1, <2>2 DEF DeliveryInv
<1> QED
  BY <1>5, <1>6, <1>7

LEMMA TakeJobKeeps == DeliveryInv /\ TakeJob => DeliveryInv'
<1> SUFFICES ASSUME DeliveryInv, TakeJob PROVE DeliveryInv'
  OBVIOUS
<1> DEFINE e == Head(ch)
           rest == Tail(ch)
<1>1. /\ IInv' /\ FileAgrees' /\ filed' \in [Keys -> Levels] /\ active' = active
      /\ outside' = outside /\ pending' = pending /\ behind' = behind
      /\ worker = Idle /\ worker' = Running(e) /\ ch' = rest
  BY EngineStays DEF TakeJob
<1>2. Transit /\ pending \in Seq(Event) /\ ch \in Seq(Event) /\ ch # <<>> /\ Len(ch) <= QueueLen
  BY DEF TakeJob, DeliveryInv, Transit
<1>3. /\ e \in Event /\ rest \in Seq(Event) /\ Len(rest) = Len(ch) - 1
      /\ \A k, d : After(ch, k, d) = After(rest, k, IF e.key = k THEN Says(e) ELSE d)
  BY <1>2, FrontFacts
<1>4. InHand = <<>> /\ InHand' = <<e>>
  BY <1>1 DEF InHand, Idle, Running
<1> HIDE DEF e, rest
<1>5. Transit'
  <2>1. Len(rest) <= QueueLen
    BY <1>2, <1>3, QueueAssumption, LenProperties, SMT
  <2> QED
    BY <1>1, <1>2, <1>3, <2>1 DEF Transit
<1>6. ASSUME NEW k \in Keys PROVE Follows(k)'
  <2>1. \A d : After(InHand, k, d) = d
    BY <1>4, EmptyFacts
  <2>2. \A d : After(InHand', k, d) = IF e.key = k THEN Says(e) ELSE d
    BY <1>3, <1>4, AfterShort
  <2>3. Believed(k)' = Believed(k)
    BY <1>1, <1>3, <2>1, <2>2 DEF Believed
  <2>4. Follows(k)
    BY DEF DeliveryInv
  <2> QED
    BY <1>1, <2>3, <2>4 DEF Follows
<1> QED
  BY <1>1, <1>5, <1>6 DEF DeliveryInv

LEMMA HookDoneKeeps == DeliveryInv /\ HookDone => DeliveryInv'
<1> SUFFICES ASSUME DeliveryInv, HookDone PROVE DeliveryInv'
  OBVIOUS
<1> DEFINE e == worker.job
<1>1. /\ IInv' /\ FileAgrees' /\ filed' \in [Keys -> Levels] /\ active' = active
      /\ pending' = pending /\ behind' = behind /\ ch' = ch
      /\ worker.state = "running" /\ worker' = Idle
      /\ outside' = [outside EXCEPT ![e.key] = Says(e)]
  BY EngineStays DEF HookDone
<1>2. Transit
  BY DEF DeliveryInv
<1>3. e \in Event /\ InHand = <<e>> /\ InHand' = <<>>
  BY <1>1, <1>2, HandFacts DEF InHand, Idle
<1> HIDE DEF e
<1>4. Says(e) \in Levels /\ e.key \in Keys /\ outside \in [Keys -> Levels]
  BY <1>2, <1>3 DEF Event, Says, Levels, Transit
<1>5. Transit'
  BY <1>1, <1>2, <1>4 DEF Transit
<1>6. ASSUME NEW k \in Keys PROVE Follows(k)'
  <2>1. After(InHand, k, outside[k]) = IF e.key = k THEN Says(e) ELSE outside[k]
    BY <1>3, AfterShort
  <2>2. After(InHand', k, outside'[k]) = outside'[k]
    BY <1>3, EmptyFacts
  <2>3. outside'[k] = IF e.key = k THEN Says(e) ELSE outside[k]
    BY <1>1, <1>4
  <2>4. Believed(k)' = Believed(k)
    BY <1>1, <2>1, <2>2, <2>3 DEF Believed
  <2>5. Follows(k)
    BY DEF DeliveryInv
  <2> QED
    BY <1>1, <2>4, <2>5 DEF Follows
<1> QED
  BY <1>1, <1>5, <1>6 DEF DeliveryInv

LEMMA HookFailedKeeps == DeliveryInv /\ HookFailed => DeliveryInv'
<1> SUFFICES ASSUME DeliveryInv, HookFailed PROVE DeliveryInv'
  OBVIOUS
<1> DEFINE e == worker.job
<1>1. /\ IInv' /\ FileAgrees' /\ filed' \in [Keys -> Levels] /\ active' = active
      /\ pending' = pending /\ outside' = outside /\ ch' = ch
      /\ worker.state = "running" /\ worker' = Idle
      /\ behind' = IF NotToldAgain(e.key) THEN behind \cup {e.key} ELSE behind
  BY EngineStays DEF HookFailed
<1>2. Transit /\ ch \in Seq(Event) /\ pending \in Seq(Event)
  BY DEF DeliveryInv, Transit
<1>3. e \in Event /\ InHand = <<e>> /\ InHand' = <<>>
  BY <1>1, <1>2, HandFacts DEF InHand, Idle
<1> HIDE DEF e
<1>4. NotToldAgain(e.key) <=> e.key \notin KeysOf(ch) /\ e.key \notin KeysOf(pending)
  <2>1. KeysOf(ch \o pending) = KeysOf(ch) \cup KeysOf(pending)
    BY <1>2, KeysOfConcat
  <2> QED
    BY <2>1 DEF NotToldAgain
<1>5. Transit'
  BY <1>1, <1>2 DEF Transit
<1>6. ASSUME NEW k \in Keys PROVE Follows(k)'
  <2> DEFINE c == After(InHand, k, outside[k])
  <2>1. Follows(k) /\ Believed(k) = After(pending, k, After(ch, k, c))
    BY DEF DeliveryInv, Believed
  <2>2. Believed(k)' = After(pending, k, After(ch, k, outside[k]))
    BY <1>1, <1>3, EmptyFacts DEF Believed
  <2>3. c = IF e.key = k THEN Says(e) ELSE outside[k]
    BY <1>3, AfterShort
  <2> HIDE DEF c
  <2>4. CASE e.key = k /\ NotToldAgain(e.key)
    BY <1>1, <1>4, <2>4 DEF Follows
  <2>5. CASE e.key = k /\ ~NotToldAgain(e.key)
    <3>1. Believed(k)' = Believed(k)
      <4>1. CASE k \in KeysOf(pending)
        BY <1>2, <2>1, <2>2, <4>1, LaterSettles
      <4>2. CASE k \in KeysOf(ch)
        <5>1. After(ch, k, c) = After(ch, k, outside[k])
          BY <1>2, <4>2, LaterSettles
        <5> QED
          BY <2>1, <2>2, <5>1
      <4> QED
        BY <1>4, <2>5, <4>1, <4>2
    <3> QED
      BY <1>1, <2>1, <2>5, <3>1 DEF Follows
  <2>6. CASE e.key # k
    BY <1>1, <2>1, <2>2, <2>3, <2>6 DEF Follows
  <2> QED
    BY <2>4, <2>5, <2>6
<1> QED
  BY <1>1, <1>5, <1>6 DEF DeliveryInv

LEMMA QuitKeeps == DeliveryInv /\ Quit => DeliveryInv'
<1> SUFFICES ASSUME DeliveryInv, Quit PROVE DeliveryInv'
  OBVIOUS
<1>1. /\ IInv' /\ FileAgrees' /\ filed' \in [Keys -> Levels] /\ active' = active
      /\ pending = <<>> /\ pending' = <<>> /\ outside' = outside /\ ch' = <<>>
      /\ worker' = Idle /\ behind' = behind \cup KeysOf(Chain)
  BY EngineStays DEF Quit
<1>2. /\ Transit /\ ch \in Seq(Event) /\ pending \in Seq(Event) /\ InHand \in Seq(Event)
      /\ InHand' = <<>>
  BY <1>1, HandFacts DEF DeliveryInv, Transit, InHand, Idle
<1>3. KeysOf(Chain) = (KeysOf(InHand) \cup KeysOf(ch)) \cup KeysOf(pending)
  BY <1>2, ChainFacts DEF Chain
<1>4. Transit'
  BY <1>1, <1>2, EmptyFacts, QueueAssumption DEF Transit
<1>5. ASSUME NEW k \in Keys PROVE Follows(k)'
  <2>1. Follows(k) /\ k \notin KeysOf(pending')
    BY <1>1, EmptyFacts DEF DeliveryInv
  <2>2. CASE k \in KeysOf(Chain)
    BY <1>1, <2>1, <2>2 DEF Follows
  <2>3. CASE k \notin KeysOf(Chain)
    <3>1. Believed(k) = outside[k]
      BY <1>3, <2>3 DEF Believed, After
    <3>2. Believed(k)' = outside[k]
      BY <1>1, <1>2, EmptyFacts DEF Believed
    <3> QED
      BY <1>1, <2>1, <3>1, <3>2 DEF Follows
  <2> QED
    BY <2>2, <2>3
<1> QED
  BY <1>1, <1>4, <1>5 DEF DeliveryInv

LEMMA DeliveryStarts == DeliveryInit => DeliveryInv
<1> SUFFICES ASSUME DeliveryInit PROVE DeliveryInv
  OBVIOUS
<1>1. /\ IInv /\ pending = <<>> /\ ch = <<>> /\ worker = Idle
      /\ outside = [k \in Keys |-> Silent] /\ filed = [k \in Keys |-> Silent]
      /\ \A k \in Keys : active[k].cond.sev = Silent
  BY InitEstablishes DEF DeliveryInit, Init, Fresh, NoCond
<1>2. InHand = <<>>
  BY <1>1 DEF InHand, Idle
<1>3. Transit
  BY <1>1, EmptyFacts, QueueAssumption DEF Transit, Levels
<1>4. FileAgrees
  BY <1>1 DEF FileAgrees
<1>5. \A k \in Keys : Follows(k)
  BY <1>1, <1>2, EmptyFacts DEF Follows, Believed
<1> QED
  BY <1>1, <1>3, <1>4, <1>5 DEF DeliveryInv

LEMMA DeliveryKeeps == DeliveryInv /\ [DeliveryNext]_allVars => DeliveryInv'
<1> SUFFICES ASSUME DeliveryInv, [DeliveryNext]_allVars PROVE DeliveryInv'
  OBVIOUS
<1>1. ASSUME NEW conds \in [Keys -> Conds], Tick(conds) PROVE DeliveryInv'
  BY <1>1, TickKeeps
<1>2. CASE UNCHANGED allVars
  <2>1. UNCHANGED vars /\ UNCHANGED deliveryVars
    BY <1>2 DEF allVars
  <2>2. IInv' /\ FileAgrees' /\ active' = active
    BY <2>1, EngineStays DEF deliveryVars
  <2> QED
    BY <2>1, <2>2 DEF deliveryVars, DeliveryInv, Transit, Follows, Believed, InHand
<1> QED
  BY <1>1, <1>2, EnqueueKeeps, TakeJobKeeps, HookDoneKeeps, HookFailedKeeps, QuitKeeps
     DEF DeliveryNext

LEMMA Delivery == DeliverySpec => []DeliveryInv
BY DeliveryStarts, DeliveryKeeps, PTL DEF DeliverySpec

(* However the UI goroutine's enqueueing, the worker and the hooks that    *)
(* fail or hang interleave, and however short the queue: the channel never *)
(* holds more than hookQueueLen, and of each key the newest event on its   *)
(* way, or the last one told, is the active severity, unless that event    *)
(* itself was lost (hookQueue, alerts.go:225-313).                         *)
THEOREM OutsideFollows == DeliverySpec => []OutsideAgrees
<1>1. ASSUME DeliveryInv PROVE OutsideAgrees
  <2>1. /\ Transit /\ ch \in Seq(Event) /\ pending \in Seq(Event) /\ InHand \in Seq(Event)
        /\ Len(ch) <= QueueLen
    BY <1>1, HandFacts DEF DeliveryInv, Transit
  <2>2. \A k, d : After(Chain, k, d) = After(pending, k, After(ch, k, After(InHand, k, d)))
    BY <2>1, ChainFacts DEF Chain
  <2>3. ASSUME NEW k \in Keys
        PROVE  \/ k \in behind /\ k \notin KeysOf(pending)
               \/ IF k \in KeysOf(Chain)
                  THEN Says(Chain[Newest(Chain, k)]) = active[k].cond.sev
                  ELSE outside[k] = active[k].cond.sev
    <3>1. Follows(k) /\ Believed(k) = After(Chain, k, outside[k])
      BY <1>1, <2>2 DEF DeliveryInv, Believed
    <3> QED
      BY <3>1 DEF Follows, After
  <2> QED
    BY <2>1, <2>3 DEF OutsideAgrees
<1>2. DeliveryInv => OutsideAgrees
  BY <1>1
<1> QED
  BY <1>2, Delivery, PTL

(* The log file's last line of each key is the active severity, unless     *)
(* the write of its newest line failed, at whichever line of whichever     *)
(* tick writing stopped (appendAlertLog, alerts.go:262-274).               *)
THEOREM FileFollows == DeliverySpec => []FileAgrees
<1>1. DeliveryInv => FileAgrees
  BY DEF DeliveryInv
<1> QED
  BY <1>1, Delivery, PTL

(* With its delivery around it the engine is still the engine: every step  *)
(* is an Update or leaves it alone, so what is proved of Spec holds in the *)
(* composition.                                                            *)
THEOREM EngineWithin == DeliverySpec => Spec
<1>1. DeliveryInit => Init
  BY DEF DeliveryInit
<1>2. [DeliveryNext]_allVars => [Next]_vars
  BY DEF DeliveryNext, allVars, Tick, Enqueue, TakeJob, HookDone, HookFailed, Quit, Next
<1> QED
  BY <1>1, <1>2, PTL DEF DeliverySpec, Spec
==============================================================================
