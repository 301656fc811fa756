---------------------------- MODULE Kernel_proofs ----------------------------
(***************************************************************************)
(* Proofs about what the kernel tells: the kills it counts and logs        *)
(* (OomTracker), for any number of memory rounds in flight, any kills and  *)
(* any event window, and the records of its ring (KernelLog), for any ring, *)
(* any lines and any disks they are about.                                 *)
(***************************************************************************)
EXTENDS OomTracker, KernelLog, SequenceLemmas

(* OomTracker: the session count accounts for every kill the counter told  *)
(* of.  The inductive part is how far the last reading may lie below the   *)
(* largest one.                                                            *)

Flight == [did : SUBSET {"stamp", "read"}, full : BOOLEAN, at : Nat,
           count : Nat, ok : BOOLEAN]

(* The types the counting needs.                                           *)
Counts ==
  /\ DOMAIN oom = {"primed", "last", "session", "logged", "events", "victims"}
  /\ oom.primed \in BOOLEAN
  /\ oom.last \in Nat /\ oom.session \in Nat /\ oom.logged \in Nat
  /\ landed \in [first : Nat, max : Nat]
  /\ late \in BOOLEAN
  /\ kills \in Nat
  /\ clock \in Nat
  /\ lines \in Seq([at : Nat, pid : Nat])
  /\ flights \in [Slots -> Flight]

(* Before the first reading only log lines count.  After it the last       *)
(* reading is the largest unless one landed late.                          *)
LastBelowMax ==
  /\ ~oom.primed => oom.session = oom.logged
  /\ oom.primed => oom.last <= landed.max
  /\ (oom.primed /\ ~late) => oom.last = landed.max

OomInv == Counts /\ LastBelowMax /\ KillsAccounted

LEMMA FlightFacts ==
  ASSUME Counts, NEW f \in Flight, NEW ok \in BOOLEAN
  PROVE  Read(f, ok) \in Flight /\ Stamp(f) \in Flight
  BY DEF Counts, Flight, Read, Stamp

LEMMA GroundedFacts ==
  Grounded \in Flight /\ [Grounded EXCEPT !.full = TRUE] \in Flight
  BY DEF Flight, Grounded

LEMMA OomStart == OomInit => OomInv
<1> SUFFICES ASSUME OomInit PROVE OomInv
  OBVIOUS
<1> USE DEF OomInit
<1>1. Counts
  <2>1. flights \in [Slots -> Flight]
    BY GroundedFacts
  <2>2. lines \in Seq([at : Nat, pid : Nat]) /\ kills \in Nat /\ clock \in Nat
    BY OomAssumption
  <2> QED
    BY <2>1, <2>2 DEF Counts
<1>2. LastBelowMax /\ KillsAccounted
  BY DEF LastBelowMax, KillsAccounted
<1> QED
  BY <1>1, <1>2 DEF OomInv

(* A step that counts nothing.                                             *)
LEMMA UncountedKeeps ==
  ASSUME OomInv, Counts', UNCHANGED <<oom, landed, late>>
  PROVE  OomInv'
  BY DEF OomInv, LastBelowMax, KillsAccounted

(* A round that stamps or reads changes its own flight only.               *)
LEMMA RoundKeeps ==
  ASSUME OomInv, NEW s \in Slots,
         \/ SampleMem(s) \/ FetchOOMCountStamps(s)
         \/ \E ok \in BOOLEAN : SampleMemReads(s, ok) \/ FetchOOMCount(s, ok)
  PROVE  OomInv'
<1>1. flights[s] \in Flight /\ Counts
  BY DEF OomInv, Counts
<1>2. \E f \in Flight : Step(s, f)
  <2>1. CASE SampleMem(s)
    BY <1>1, <2>1, GroundedFacts, FlightFacts DEF SampleMem
  <2>2. CASE FetchOOMCountStamps(s)
    BY <1>1, <2>2, FlightFacts DEF FetchOOMCountStamps
  <2>3. ASSUME NEW ok \in BOOLEAN, SampleMemReads(s, ok) \/ FetchOOMCount(s, ok)
        PROVE  \E f \in Flight : Step(s, f)
    BY <1>1, <2>3, GroundedFacts, FlightFacts DEF SampleMemReads, FetchOOMCount
  <2> QED
    BY <2>1, <2>2, <2>3
<1>3. PICK f \in Flight : Step(s, f)
  BY <1>2
<1>4. Counts'
  BY <1>1, <1>3 DEF Step, Counts
<1> QED
  BY <1>3, <1>4, UncountedKeeps DEF Step

LEMMA KillKeeps ==
  ASSUME OomInv, Kill \/ Tock
  PROVE  OomInv'
<1>1. UNCHANGED <<flights, counted, oom, landed, late, rang>>
  BY DEF Kill, Tock
<1>2. kills' \in Nat /\ clock' \in Nat /\ lines' \in Seq([at : Nat, pid : Nat])
  <2>1. CASE Kill
    <3>1. kills' \in Nat
      BY <2>1 DEF Kill, OomInv, Counts
    <3>2. [at |-> clock, pid |-> kills'] \in [at : Nat, pid : Nat]
      BY <3>1 DEF OomInv, Counts
    <3> QED
      BY <2>1, <3>1, <3>2 DEF Kill, OomInv, Counts
  <2>2. CASE Tock
    BY <2>2 DEF Tock, OomInv, Counts
  <2> QED
    BY <2>1, <2>2
<1>3. Counts'
  BY <1>1, <1>2 DEF OomInv, Counts
<1> QED
  BY <1>1, <1>3, UncountedKeeps

(* Log lines raise the session count and their own count by the same.      *)
LEMMA LogKeeps ==
  ASSUME OomInv, HandleKmsg
  PROVE  OomInv'
<1> DEFINE n == Len(lines)
<1>1. UNCHANGED <<clock, kills, flights, landed, late>> /\ lines' = <<>>
  BY DEF HandleKmsg
<1>2. n \in Nat
  BY DEF OomInv, Counts
<1>3. /\ DOMAIN oom' = DOMAIN oom
      /\ oom'.primed = oom.primed /\ oom'.last = oom.last
      /\ \/ oom'.session = oom.session /\ oom'.logged = oom.logged
         \/ oom'.session = oom.session + n /\ oom'.logged = oom.logged + n
  <2> DEFINE named == [oom EXCEPT !.victims = Newest(@ \o lines)]
             events == WithLogEvents(named.events)
  <2>1. \/ oom' = named
        \/ oom' = [named EXCEPT !.session = @ + n, !.logged = @ + n, !.events = events]
    BY Zenon DEF HandleKmsg
  <2>2. /\ DOMAIN named = DOMAIN oom
        /\ named.primed = oom.primed /\ named.last = oom.last
        /\ named.session = oom.session /\ named.logged = oom.logged
    BY DEF OomInv, Counts
  <2> HIDE DEF named, events, n
  <2> QED
    BY <2>1, <2>2 DEF OomInv, Counts
<1> HIDE DEF n
<1>4. Counts'
  BY <1>1, <1>2, <1>3 DEF OomInv, Counts
<1>5. LastBelowMax' /\ KillsAccounted'
  BY <1>1, <1>2, <1>3 DEF OomInv, Counts, LastBelowMax, KillsAccounted
<1> QED
  BY <1>4, <1>5 DEF OomInv

(* A reading lands: what it adds to the session count is what it adds to   *)
(* the largest reading, or more.                                           *)
LEMMA LandKeeps ==
  ASSUME OomInv, NEW s \in Slots, Land(s)
  PROVE  OomInv'
<1> DEFINE f == flights[s]
           c == f.count
<1>1. f \in Flight /\ c \in Nat
  BY DEF OomInv, Counts, Flight
<1>2. UNCHANGED <<clock, kills, lines>> /\ flights' \in [Slots -> Flight]
  BY GroundedFacts DEF Land, OomInv, Counts
<1>3. CASE ~f.ok
  <2>1. UNCHANGED <<oom, landed, late>>
    BY <1>3 DEF Land
  <2>2. Counts'
    BY <1>2, <2>1 DEF OomInv, Counts
  <2> QED
    BY <2>1, <2>2, UncountedKeeps
<1>4. CASE f.ok
  <2> DEFINE n == Rise(oom, c)
  <2>1. /\ landed' = [first |-> IF oom.primed THEN landed.first ELSE c,
                      max |-> IF oom.primed /\ landed.max > c THEN landed.max ELSE c]
        /\ late' = (late \/ (oom.primed /\ c < landed.max))
        /\ oom' = Observe(oom, c, f.at)
    BY <1>4 DEF Land
  <2>2. n = IF oom.primed /\ c > oom.last THEN c - oom.last ELSE 0
    BY DEF Rise
  <2>3. /\ DOMAIN oom' = DOMAIN oom
        /\ oom'.primed = TRUE /\ oom'.last = c
        /\ oom'.session = oom.session + n /\ oom'.logged = oom.logged
    BY <2>1 DEF Observe, OomInv, Counts
  <2> HIDE DEF c, n, f
  <2>4. n \in Nat
    BY <1>1, <2>2 DEF OomInv, Counts
  <2>5. /\ landed'.first = IF oom.primed THEN landed.first ELSE c
        /\ landed'.max = IF oom.primed /\ landed.max > c THEN landed.max ELSE c
        /\ landed' \in [first : Nat, max : Nat]
        /\ late' \in BOOLEAN
    BY <1>1, <2>1 DEF OomInv, Counts
  <2>6. Counts'
    <3>1. oom'.last \in Nat /\ oom'.session \in Nat /\ oom'.logged \in Nat
      BY <1>1, <2>3, <2>4 DEF OomInv, Counts
    <3>2. kills' \in Nat /\ clock' \in Nat /\ lines' \in Seq([at : Nat, pid : Nat])
      BY <1>2 DEF OomInv, Counts
    <3>3. DOMAIN oom' = {"primed", "last", "session", "logged", "events", "victims"}
      BY <2>3 DEF OomInv, Counts
    <3> QED
      BY <1>2, <2>3, <2>5, <3>1, <3>2, <3>3 DEF Counts
  <2>7. /\ late' => (late \/ (oom.primed /\ c < landed.max))
        /\ ~late' => ~late /\ (oom.primed => c >= landed.max)
    BY <1>1, <2>1 DEF OomInv, Counts
  <2>8. landed.first \in Nat /\ landed.max \in Nat
    BY DEF OomInv, Counts
  <2>9. LastBelowMax'
    BY <1>1, <2>3, <2>5, <2>7, <2>8 DEF OomInv, Counts, LastBelowMax
  <2>10. KillsAccounted'
    <3>1. CASE ~oom.primed
      BY <1>1, <2>2, <2>3, <2>5, <3>1 DEF OomInv, Counts, LastBelowMax, KillsAccounted
    <3>2. CASE oom.primed
      <4>1. /\ oom.last \in Nat /\ oom.session \in Nat /\ oom.logged \in Nat
            /\ oom.last <= landed.max
            /\ ~late => oom.last = landed.max
            /\ oom.session - oom.logged >= landed.max - landed.first
            /\ ~late => oom.session - oom.logged = landed.max - landed.first
        BY <3>2 DEF OomInv, Counts, LastBelowMax, KillsAccounted
      <4>2. /\ landed'.first = landed.first
            /\ landed'.max = IF landed.max > c THEN landed.max ELSE c
            /\ n = IF c > oom.last THEN c - oom.last ELSE 0
            /\ oom'.session = oom.session + n /\ oom'.logged = oom.logged
            /\ ~late' => ~late /\ c >= landed.max
        BY <2>2, <2>3, <2>5, <2>7, <3>2
      <4>3. oom'.session - oom'.logged >= landed'.max - landed'.first
        BY <1>1, <2>4, <2>8, <4>1, <4>2
      <4>4. ~late' => oom'.session - oom'.logged = landed'.max - landed'.first
        BY <1>1, <2>4, <2>8, <4>1, <4>2
      <4> QED
        BY <4>3, <4>4 DEF KillsAccounted
    <3> QED
      BY <3>1, <3>2
  <2> QED
    BY <2>6, <2>9, <2>10 DEF OomInv
<1> QED
  BY <1>3, <1>4

LEMMA OomKeeps == OomInv /\ [OomNext]_oomVars => OomInv'
<1> SUFFICES ASSUME OomInv, [OomNext]_oomVars PROVE OomInv'
  OBVIOUS
<1>1. CASE Kill \/ Tock
  BY <1>1, KillKeeps
<1>2. ASSUME NEW s \in Slots,
             \/ SampleMem(s) \/ FetchOOMCountStamps(s)
             \/ \E ok \in BOOLEAN : SampleMemReads(s, ok) \/ FetchOOMCount(s, ok)
      PROVE  OomInv'
  BY <1>2, RoundKeeps
<1>3. ASSUME NEW s \in Slots, Land(s) PROVE OomInv'
  BY <1>3, LandKeeps
<1>4. CASE HandleKmsg
  BY <1>4, LogKeeps
<1>5. CASE UNCHANGED oomVars
  <2>1. Counts' /\ UNCHANGED <<oom, landed, late>>
    BY <1>5 DEF oomVars, OomInv, Counts
  <2> QED
    BY <2>1, UncountedKeeps
<1> QED
  BY <1>1, <1>2, <1>3, <1>4, <1>5 DEF OomNext

LEMMA OomInvariance == OomSpec => []OomInv
BY OomStart, OomKeeps, PTL DEF OomSpec


(* The session count holds every kill the counter told of, in whatever     *)
(* order its readings land, and none twice while they land in order        *)
(* (observe, oom.go:46-58).                                                *)
THEOREM KillsAreAccounted == OomSpec => []KillsAccounted
<1>1. OomInv => KillsAccounted
  BY DEF OomInv
<1> QED
  BY <1>1, OomInvariance, PTL

------------------------------------------------------------------------------
(* The events and the names.  Whatever was kept is of a kill the counter   *)
(* told of, or of a line; a key of the counter that ever rang is no larger *)
(* than the largest reading.                                               *)
OomEvent == [at : Nat, n : Nat, key : {"oom", "oom:log"} \X Nat]
Victim == [at : Nat, pid : Nat]

Kept ==
  /\ oom.events \in Seq(OomEvent) /\ Len(oom.events) <= Keep
  /\ oom.victims \in Seq(Victim) /\ Len(oom.victims) <= Keep
RangBelowMax ==
  /\ ~oom.primed => rang = {}
  /\ \A n \in Nat : Counter(n) \in rang => n <= landed.max

TellInv == Kept /\ RangBelowMax

LEMMA NewestFacts ==
  ASSUME NEW E, NEW s \in Seq(E)
  PROVE  /\ Newest(s) \in Seq(E) /\ Len(Newest(s)) <= Keep
         /\ s # <<>> => \E i \in 1..Len(Newest(s)) : Newest(s)[i] = s[Len(s)]
<1>1. Keep \in Nat \ {0} /\ Len(s) \in Nat
  BY OomAssumption
<1>2. CASE Len(s) > Keep
  <2> DEFINE m == Len(s) - Keep + 1
             t == SubSeq(s, m, Len(s))
  <2>1. /\ m \in Nat \ {0} /\ m <= Len(s) + 1 /\ Len(s) <= Len(s)
        /\ Len(s) - m + 1 = Keep /\ m - 1 + Keep = Len(s)
    BY <1>1, <1>2
  <2> HIDE DEF m
  <2>2. t \in Seq(E) /\ Len(t) = Keep /\ t[Keep] = s[Len(s)]
    BY <1>1, <2>1, PieceOf
  <2>3. Newest(s) = t
    BY <1>2 DEF Newest, m
  <2> QED
    BY SMTT(20), <1>1, <2>2, <2>3
<1>3. CASE ~(Len(s) > Keep)
  <2>1. s # <<>> => Len(s) \in 1..Len(s)
    BY EmptySeq
  <2>2. Len(s) <= Keep
    BY <1>1, <1>3
  <2>3. Newest(s) = s
    BY <1>3 DEF Newest
  <2> QED
    BY ZenonT(20), <2>1, <2>2, <2>3
<1> QED
  BY <1>2, <1>3

(* prune keeps the newest event while that one is inside its window.       *)
LEMMA PruneFacts ==
  ASSUME NEW s \in Seq(OomEvent), NEW at \in Nat
  PROVE  /\ Prune(s, at) \in Seq(OomEvent) /\ Len(Prune(s, at)) <= Keep
         /\ s # <<>> /\ InWindow(s[Len(s)], at) =>
              s[Len(s)] \in Range(Prune(s, at))
<1> DEFINE K == {i \in DOMAIN s : InWindow(s[i], at)}
           q == Picked(s, K)
<1>1. Prune(s, at) = Newest(q)
  BY DEF Prune
<1>2. s # <<>> /\ InWindow(s[Len(s)], at) => Len(s) \in K
  BY EmptySeq
<1>3. q \in Seq(OomEvent)
  BY PickedFacts
<1>4. Len(s) \in K /\ s # <<>> => q # <<>> /\ q[Len(q)] = s[Len(s)]
  BY PickedEnds
<1> HIDE DEF K, q
<1>5. Newest(q) \in Seq(OomEvent) /\ Len(Newest(q)) <= Keep
  BY <1>3, NewestFacts
<1>6. ASSUME s # <<>>, InWindow(s[Len(s)], at)
      PROVE  s[Len(s)] \in Range(Newest(q))
  <2>1. q # <<>> /\ q[Len(q)] = s[Len(s)]
    BY <1>2, <1>4, <1>6
  <2>2. PICK i \in 1..Len(Newest(q)) : Newest(q)[i] = q[Len(q)]
    BY <1>3, <2>1, NewestFacts
  <2>3. i \in DOMAIN Newest(q)
    BY <1>5, <2>2
  <2> QED
    BY <2>1, <2>2, <2>3 DEF Range
<1> QED
  BY <1>1, <1>5, <1>6

(* One event per log line, behind those there are.                         *)
LEMMA WithLogEventsTyped ==
  ASSUME lines \in Seq(Victim), oom.logged \in Nat, NEW s \in Seq(OomEvent), Len(s) <= Keep
  PROVE  WithLogEvents(s) \in Seq(OomEvent) /\ Len(WithLogEvents(s)) <= Keep
<1> DEFINE N == Len(lines)
           E == {q \in Seq(OomEvent) : Len(q) <= Keep}
           step == [p \in (1..N) \X E |-> AddLogEvent(p[2], p[1])]
           Added(g) == g = [i \in 0..N |-> IF i = 0 THEN s ELSE AddLogEvent(g[i - 1], i)]
<1>1. N \in Nat
  OBVIOUS
<1>2. ASSUME NEW i \in 1..N, NEW q \in E PROVE AddLogEvent(q, i) \in E
  <2>1. lines[i].at \in Nat
    <3>1. lines[i] \in Victim
      BY ElementOfSeq
    <3> QED
      BY <3>1 DEF Victim
  <2>2. LogEvent(i) \in OomEvent
    BY <1>1, <2>1 DEF LogEvent, Logged, OomEvent
  <2>3. Append(q, LogEvent(i)) \in Seq(OomEvent)
    BY <2>2
  <2> QED
    BY <2>1, <2>3, PruneFacts DEF AddLogEvent
<1>3. step \in [(1..N) \X E -> E] /\ \A i \in 1..N, q \in E : step[<<i, q>>] = AddLogEvent(q, i)
  BY <1>2
<1> HIDE DEF N, E, step
<1>4. s \in E
  BY DEF E
<1>5. PICK g \in [0..N -> E] : Recurs(g, N, s, step)
  BY <1>1, <1>3, <1>4, RecursionUpTo
<1>6. ASSUME NEW i \in 0..N PROVE g[i] = IF i = 0 THEN s ELSE AddLogEvent(g[i - 1], i)
  <2>1. CASE i = 0
    BY <1>5, <2>1 DEF Recurs
  <2>2. CASE i # 0
    <3>1. i \in 1..N /\ i - 1 \in 0..N
      BY <1>1, <2>2, SMT
    <3>2. g[i] = step[<<i, g[i - 1]>>] /\ g[i - 1] \in E
      BY <1>5, <3>1 DEF Recurs
    <3> QED
      BY <1>3, <2>2, <3>1, <3>2
  <2> QED
    BY <2>1, <2>2
<1>7. Added(g)
  BY <1>5, <1>6
<1> DEFINE h == CHOOSE x : Added(x)
<1>8. Added(h)
  BY <1>7
<1>9. WithLogEvents(s) = h[N]
  BY Zenon DEF WithLogEvents, N
<1> HIDE DEF h
<1>10. h \in [0..N -> E]
  <2> DEFINE S == {i \in Nat : i <= N => h[i] \in E}
  <2>0. \A i \in 0..N : h[i] = IF i = 0 THEN s ELSE AddLogEvent(h[i - 1], i)
    BY <1>8, Zenon
  <2>1. 0 \in S
    BY <1>1, <1>4, <2>0
  <2>2. ASSUME NEW i \in S PROVE i + 1 \in S
    <3> SUFFICES ASSUME i + 1 <= N PROVE h[i + 1] \in E
      OBVIOUS
    <3>1. i + 1 \in 1..N /\ i + 1 \in 0..N /\ (i + 1) - 1 = i /\ h[i] \in E /\ i + 1 # 0
      BY <1>1, SMT
    <3>2. h[i + 1] = AddLogEvent(h[i], i + 1)
      BY <2>0, <3>1
    <3> QED
      BY <1>2, <3>1, <3>2
  <2>3. S = Nat
    BY <2>1, <2>2, InductionOver
  <2>4. \A i \in 0..N : h[i] \in E
    BY <1>1, <2>3
  <2>5. h = [i \in 0..N |-> h[i]]
    BY <1>8, Zenon
  <2> QED
    BY <2>4, <2>5
<1> QED
  BY <1>1, <1>9, <1>10 DEF E

LEMMA TellStart == OomInit => TellInv
BY OomAssumption DEF OomInit, TellInv, Kept, RangBelowMax

LEMMA TellLogKeeps ==
  ASSUME OomInv, TellInv, HandleKmsg
  PROVE  TellInv'
<1> DEFINE named == [oom EXCEPT !.victims = Newest(@ \o lines)]
           all == WithLogEvents(named.events)
<1>1. /\ lines \in Seq(Victim) /\ oom.logged \in Nat
      /\ oom.events \in Seq(OomEvent) /\ oom.victims \in Seq(Victim)
      /\ Len(oom.events) <= Keep /\ Len(oom.victims) <= Keep
      /\ DOMAIN oom = {"primed", "last", "session", "logged", "events", "victims"}
  BY DEF OomInv, Counts, TellInv, Kept, Victim
<1>2. oom.victims \o lines \in Seq(Victim)
  BY <1>1
<1>3. /\ Newest(oom.victims \o lines) \in Seq(Victim)
      /\ Len(Newest(oom.victims \o lines)) <= Keep
  BY <1>2, NewestFacts
<1>4. /\ named.events = oom.events /\ named.primed = oom.primed
      /\ named.victims = Newest(oom.victims \o lines) /\ DOMAIN named = DOMAIN oom
  BY <1>1
<1>5. \/ oom' = named
      \/ oom' = [named EXCEPT !.session = @ + Len(lines), !.logged = @ + Len(lines),
                              !.events = all]
  BY Zenon DEF HandleKmsg
<1>6. all \in Seq(OomEvent) /\ Len(all) <= Keep
  BY <1>1, <1>4, WithLogEventsTyped
<1> HIDE DEF named, all
<1>7. /\ oom'.events \in {oom.events, all} /\ oom'.victims = named.victims
      /\ oom'.primed = oom.primed
  BY <1>1, <1>4, <1>5
<1>8. UNCHANGED <<landed, rang>>
  BY DEF HandleKmsg
<1> QED
  BY <1>1, <1>3, <1>4, <1>6, <1>7, <1>8 DEF TellInv, Kept, RangBelowMax

(* What a reading that lands does to the events.                           *)
LEMMA LandsAt ==
  ASSUME OomInv, TellInv, NEW s \in Slots, Land(s), flights[s].ok
  PROVE  LET f == flights[s]
             c == f.count
         IN  /\ c \in Nat /\ f.at \in Nat
             /\ oom'.events \in Seq(OomEvent) /\ oom'.victims = oom.victims
             /\ Len(oom'.events) <= Keep /\ oom'.primed = TRUE
             /\ landed'.max = IF oom.primed /\ landed.max > c THEN landed.max ELSE c
             /\ rang' = rang \cup
                  (IF oom.primed /\ c > oom.last THEN {Counter(c)} ELSE {})
             /\ oom.primed /\ c > oom.last /\ Window > 0 =>
                  \E e \in Range(oom'.events) : e.key = Counter(c)
<1> DEFINE f == flights[s]
           c == f.count
           n == Rise(oom, c)
           new == [at |-> f.at, n |-> n, key |-> Counter(c)]
           more == IF n > 0 THEN <<new>> ELSE <<>>
           all == oom.events \o more
<1>1. f \in Flight /\ c \in Nat /\ f.at \in Nat
  BY DEF OomInv, Counts, Flight
<1>2. /\ landed'.max = IF oom.primed /\ landed.max > c THEN landed.max ELSE c
      /\ rang' = rang \cup (IF oom.primed /\ c > oom.last THEN {Counter(c)} ELSE {})
      /\ oom' = Observe(oom, c, f.at)
  BY DEF Land
<1>3. /\ oom'.events = Prune(all, f.at) /\ oom'.victims = oom.victims
      /\ oom'.primed = TRUE
  BY <1>2 DEF Observe, OomInv, Counts
<1>4. /\ oom.primed \in BOOLEAN /\ oom.last \in Nat /\ oom.events \in Seq(OomEvent)
      /\ n = IF oom.primed /\ c > oom.last THEN c - oom.last ELSE 0
  BY DEF OomInv, Counts, TellInv, Kept, Rise
<1> HIDE DEF f, c, n
<1>5. n \in Nat /\ new \in OomEvent
  BY <1>1, <1>4 DEF OomEvent, Counter
<1>6. all \in Seq(OomEvent)
  BY <1>4, <1>5
<1>7. n > 0 => all # <<>> /\ all[Len(all)] = new
  <2> SUFFICES ASSUME n > 0 PROVE all # <<>> /\ all[Len(all)] = new
    OBVIOUS
  <2>1. all = oom.events \o <<new>>
    OBVIOUS
  <2> HIDE DEF new, all, more
  <2> QED
    BY <1>4, <1>5, <2>1, ConcatProperties
<1>8. Window > 0 => InWindow(new, f.at)
  BY <1>1, OomAssumption DEF InWindow
<1> HIDE DEF all, more
<1>9. Prune(all, f.at) \in Seq(OomEvent) /\ Len(Prune(all, f.at)) <= Keep
  BY <1>1, <1>6, PruneFacts
<1>10. ASSUME oom.primed, c > oom.last, Window > 0
       PROVE  \E e \in Range(oom'.events) : e.key = Counter(c)
  <2>1. n > 0
    BY <1>1, <1>4, <1>10
  <2>2. new \in Range(Prune(all, f.at))
    BY <1>1, <1>6, <1>7, <1>8, <1>10, <2>1, PruneFacts
  <2>3. new.key = Counter(c)
    OBVIOUS
  <2> QED
    BY <1>3, <2>2, <2>3
<1> QED
  BY <1>1, <1>2, <1>3, <1>9, <1>10, Zenon DEF c, f

LEMMA TellLandKeeps ==
  ASSUME OomInv, TellInv, NEW s \in Slots, Land(s)
  PROVE  TellInv'
<1>1. CASE ~flights[s].ok
  BY <1>1 DEF Land, TellInv, Kept, RangBelowMax
<1>2. CASE flights[s].ok
  <2> DEFINE c == flights[s].count
  <2>1. /\ c \in Nat
        /\ oom'.events \in Seq(OomEvent) /\ oom'.victims = oom.victims
        /\ Len(oom'.events) <= Keep /\ oom'.primed = TRUE
        /\ landed'.max = IF oom.primed /\ landed.max > c THEN landed.max ELSE c
        /\ rang' = rang \cup (IF oom.primed /\ c > oom.last THEN {Counter(c)} ELSE {})
    BY <1>2, LandsAt
  <2> HIDE DEF c
  <2>2. landed.max \in Nat /\ oom.primed \in BOOLEAN
    BY DEF OomInv, Counts
  <2>3. ASSUME NEW n \in Nat, Counter(n) \in rang' PROVE n <= landed'.max
    <3>1. CASE Counter(n) \in rang
      <4>1. oom.primed /\ n <= landed.max
        BY <2>2, <3>1, Zenon DEF TellInv, RangBelowMax
      <4> QED
        BY <2>1, <2>2, <4>1
    <3>2. CASE Counter(n) = Counter(c)
      BY <2>1, <2>2, <3>2 DEF Counter
    <3> QED
      BY <2>1, <2>3, <3>1, <3>2
  <2>4. Kept'
    BY <2>1 DEF TellInv, Kept
  <2> QED
    BY <2>1, <2>3, <2>4 DEF TellInv, RangBelowMax
<1> QED
  BY <1>1, <1>2

LEMMA TellKeeps == OomInv /\ TellInv /\ [OomNext]_oomVars => TellInv'
<1> SUFFICES ASSUME OomInv, TellInv, [OomNext]_oomVars PROVE TellInv'
  OBVIOUS
<1>1. CASE UNCHANGED <<oom, landed, rang>>
  BY <1>1 DEF TellInv, Kept, RangBelowMax
<1>2. ASSUME NEW s \in Slots,
             \/ SampleMem(s) \/ FetchOOMCountStamps(s)
             \/ \E ok \in BOOLEAN : SampleMemReads(s, ok) \/ FetchOOMCount(s, ok)
      PROVE  UNCHANGED <<oom, landed, rang>>
  BY <1>2 DEF SampleMem, FetchOOMCountStamps, SampleMemReads, FetchOOMCount, Step
<1>3. CASE Kill \/ Tock \/ UNCHANGED oomVars
  BY <1>1, <1>3 DEF Kill, Tock, oomVars
<1>4. CASE HandleKmsg
  BY <1>4, TellLogKeeps
<1>5. ASSUME NEW s \in Slots, Land(s) PROVE TellInv'
  BY <1>5, TellLandKeeps
<1> QED
  BY <1>1, <1>2, <1>3, <1>4, <1>5 DEF OomNext

LEMMA TellInvariance == OomSpec => []TellInv
BY OomInvariance, TellStart, TellKeeps, PTL DEF OomSpec

(* A kill the counter had not told of yet has an event on record under a   *)
(* key that never rang, for any window that is on, any cap and any number  *)
(* of rounds in flight (observe and conds, oom.go:46-59, 113-115).         *)
THEOREM NewKillsDoRing == OomSpec => NewKillsRing
<1> DEFINE Rings == (oom.primed /\ Window > 0 /\ landed'.max > landed.max) =>
                      \E e \in Range(oom'.events) :
                        e.key = Counter(landed'.max) /\ e.key \notin rang
<1>1. OomInv /\ TellInv /\ [OomNext]_oomVars => [Rings]_oomVars
  <2> SUFFICES ASSUME OomInv, TellInv, OomNext, oom.primed, Window > 0,
                      landed'.max > landed.max
               PROVE  \E e \in Range(oom'.events) :
                        e.key = Counter(landed'.max) /\ e.key \notin rang
    OBVIOUS
  <2>1. landed.max \in Nat /\ oom.last \in Nat /\ oom.last <= landed.max
    BY DEF OomInv, Counts, LastBelowMax
  <2>2. ~UNCHANGED landed
    BY <2>1
  <2>3. PICK s \in Slots : Land(s) /\ flights[s].ok
    BY <2>2 DEF OomNext, Kill, Tock, SampleMem, SampleMemReads, FetchOOMCount,
                FetchOOMCountStamps, Step, HandleKmsg, Land
  <2> DEFINE c == flights[s].count
  <2>4. /\ c \in Nat
        /\ landed'.max = IF oom.primed /\ landed.max > c THEN landed.max ELSE c
        /\ oom.primed /\ c > oom.last /\ Window > 0 =>
             \E e \in Range(oom'.events) : e.key = Counter(c)
    BY <2>3, LandsAt
  <2> HIDE DEF c
  <2>5. landed'.max = c /\ c > landed.max /\ c > oom.last
    BY <2>1, <2>4
  <2>6. Counter(c) \notin rang
    BY <2>1, <2>4, <2>5 DEF TellInv, RangBelowMax
  <2> QED
    BY <2>4, <2>5, <2>6
<1>2. NewKillsRing <=> [][Rings]_oomVars
  BY DEF NewKillsRing
<1> QED
  BY <1>1, <1>2, OomInvariance, TellInvariance, PTL DEF OomSpec

(* No victim is named under two kills and no kill has more names than it   *)
(* has victims, whatever the times of lines and kills and whatever window  *)
(* they are matched in (named, oom.go:90-105).                             *)
THEOREM NamesAreApart == OomSpec => []NamedOnce
<1>1. ASSUME TellInv PROVE NamedOnce
  <2>1. oom.victims \in Seq(Victim) /\ oom.events \in Seq(OomEvent)
    BY <1>1 DEF TellInv, Kept
  <2>2. ASSUME NEW v \in Victim, NEW i \in NearestTo(v), NEW j \in NearestTo(v)
        PROVE  i = j
    <3> DEFINE di == Apart(v, oom.events[i])
               dj == Apart(v, oom.events[j])
    <3>1. i \in 1..Len(oom.events) /\ j \in 1..Len(oom.events)
      BY <2>1 DEF NearestTo
    <3>2. oom.events[i].at \in Nat /\ oom.events[j].at \in Nat /\ v.at \in Nat
      <4>1. oom.events[i] \in OomEvent /\ oom.events[j] \in OomEvent
        BY <2>1, <3>1, ElementOfSeq
      <4> QED
        BY <4>1 DEF OomEvent, Victim
    <3>3. di \in Nat /\ dj \in Nat
      BY <3>2 DEF Apart
    <3>4. /\ di < dj \/ (di = dj /\ i <= j)
          /\ dj < di \/ (dj = di /\ j <= i)
      BY DEF NearestTo
    <3> HIDE DEF di, dj
    <3> QED
      BY <3>1, <3>3, <3>4
  <2>3. ASSUME NEW e \in OnScreen
        PROVE  /\ Len(Named(e)) <= e.n
               /\ \A j \in DOMAIN Named(e) : \E v \in Victim :
                    Named(e)[j] = v /\ \E k \in NearestTo(v) : oom.events[k].key = e.key
    <3> DEFINE K == {i \in DOMAIN oom.victims :
                       \E k \in NearestTo(oom.victims[i]) : oom.events[k].key = e.key}
               its == Picked(oom.victims, K)
               Tied(v) == v \in Victim /\ \E k \in NearestTo(v) : oom.events[k].key = e.key
    <3>1. e \in OomEvent /\ e.n \in Nat
      <4>1. \A i \in DOMAIN oom.events : oom.events[i] \in OomEvent
        BY <2>1
      <4> QED
        BY <4>1 DEF OnScreen, Range, OomEvent
    <3>2. Named(e) = IF Len(its) > e.n THEN SubSeq(its, 1, e.n) ELSE its
      BY DEF Named
    <3>3. \A i \in K : Tied(oom.victims[i])
      BY <2>1
    <3> HIDE DEF K, Tied
    <3>4. its \in Seq(Victim) /\ \A j \in 1..Len(its) : Tied(its[j])
      <4>1. its \in Seq(Victim)
        BY <2>1, PickedFacts
      <4>2. \A j \in 1..Len(its) : \E i \in K \cap 1..Len(oom.victims) : its[j] = oom.victims[i]
        BY <2>1, PickedWanted DEF DrawnFrom
      <4> QED
        BY <3>3, <4>1, <4>2
    <3> HIDE DEF its
    <3>5. CASE Len(its) > e.n
      <4>1. 1 \in Nat \ {0} /\ 1 <= e.n + 1 /\ e.n <= Len(its) /\ e.n - 1 + 1 = e.n
        BY <3>1, <3>4, <3>5
      <4>2. /\ SubSeq(its, 1, e.n) \in Seq(Victim) /\ Len(SubSeq(its, 1, e.n)) = e.n
            /\ \A i \in 1..e.n : 1 - 1 + i \in 1..Len(its) /\ SubSeq(its, 1, e.n)[i] = its[1 - 1 + i]
        BY <3>1, <3>4, <4>1, PieceOf
      <4>3. /\ Named(e) \in Seq(Victim) /\ Len(Named(e)) = e.n
            /\ \A j \in 1..e.n : Tied(Named(e)[j])
        BY <3>2, <3>4, <3>5, <4>2
      <4> QED
        BY <3>1, <4>3 DEF Tied
    <3>6. CASE ~(Len(its) > e.n)
      BY <3>1, <3>2, <3>4, <3>6 DEF Tied
    <3> QED
      BY <3>5, <3>6
  <2> SUFFICES ASSUME NEW e \in OnScreen, NEW f \in OnScreen, e.key # f.key,
                      NEW x \in Range(Named(e)) \cap Range(Named(f))
               PROVE  FALSE
    BY <2>3 DEF NamedOnce
  <2>4. PICK v \in Victim : x = v /\ \E k \in NearestTo(v) : oom.events[k].key = e.key
    BY <2>3 DEF Range
  <2>5. PICK w \in Victim : x = w /\ \E l \in NearestTo(w) : oom.events[l].key = f.key
    BY <2>3 DEF Range
  <2> QED
    BY <2>2, <2>4, <2>5
<1> QED
  BY <1>1, TellInvariance, PTL

(* The tracker keeps its types and no more events and victims than it may, *)
(* and a round in flight has stamped no time and read no count that is yet *)
(* to come (oom.go:44, 68-70, 79-81).                                      *)
THEOREM OomTypeCorrect == OomSpec => []OomTypeOK
<1> DEFINE Past == \A s \in Slots : flights[s].at <= clock /\ flights[s].count <= kills
           World == clock \in 0..MaxTime /\ counted \in BOOLEAN /\ Past
<1>1. OomInit => World
  <2> SUFFICES ASSUME OomInit PROVE World
    OBVIOUS
  <2>1. /\ clock = 0 /\ kills = Before /\ counted = FALSE
        /\ flights = [s \in Slots |-> Grounded]
    BY DEF OomInit
  <2>2. Grounded.at = 0 /\ Grounded.count = 0
    BY DEF Grounded
  <2>3. clock \in 0..MaxTime /\ 0 <= clock /\ 0 <= kills
    BY <2>1, OomAssumption
  <2>4. \A s \in Slots : flights[s] = Grounded
    BY <2>1
  <2>5. Past
    BY <2>2, <2>3, <2>4
  <2>6. counted \in BOOLEAN
    BY Zenon, <2>1
  <2> QED
    BY <2>3, <2>5, <2>6
<1>2. OomInv /\ World /\ [OomNext]_oomVars => World'
  <2> SUFFICES ASSUME OomInv, World, [OomNext]_oomVars PROVE World'
    OBVIOUS
  <2>1. kills \in Nat /\ clock \in Nat /\ flights \in [Slots -> Flight]
    BY DEF OomInv, Counts
  <2>2. ASSUME UNCHANGED <<clock, kills, counted>>, NEW s \in Slots, NEW f,
               flights' = [flights EXCEPT ![s] = f], f.at <= clock, f.count <= kills
        PROVE  World'
    BY <2>1, <2>2
  <2>3. ASSUME NEW s \in Slots PROVE flights[s] \in Flight /\ Grounded \in Flight
    BY <2>1, GroundedFacts
  <2>4. ASSUME NEW s \in Slots, NEW f \in Flight, NEW ok \in BOOLEAN,
               f.at <= clock, f.count <= kills
        PROVE  /\ Stamp(f).at <= clock /\ Stamp(f).count <= kills
               /\ Read(f, ok).at <= clock /\ Read(f, ok).count <= kills
    BY <2>1, <2>4 DEF Stamp, Read, Flight
  <2>5. /\ Grounded.at <= clock /\ Grounded.count <= kills
        /\ [Grounded EXCEPT !.full = TRUE].at <= clock
        /\ [Grounded EXCEPT !.full = TRUE].count <= kills
        /\ [Grounded EXCEPT !.full = TRUE] \in Flight
    BY <2>1, GroundedFacts DEF Grounded
  <2>6. ASSUME NEW s \in Slots,
               \/ SampleMem(s) \/ FetchOOMCountStamps(s)
               \/ \E ok \in BOOLEAN : SampleMemReads(s, ok) \/ FetchOOMCount(s, ok)
        PROVE  World'
    <3>1. CASE SampleMem(s)
      <4>1. Step(s, Stamp([Grounded EXCEPT !.full = TRUE]))
        BY <3>1 DEF SampleMem
      <4> QED
        BY <2>2, <2>4, <2>5, <4>1 DEF Step
    <3>2. CASE FetchOOMCountStamps(s)
      <4>1. Step(s, Stamp(flights[s]))
        BY <3>2 DEF FetchOOMCountStamps
      <4> QED
        BY <2>2, <2>3, <2>4, <4>1 DEF Step
    <3>3. ASSUME NEW ok \in BOOLEAN, SampleMemReads(s, ok) PROVE World'
      <4>1. Step(s, Read(flights[s], ok))
        BY <3>3 DEF SampleMemReads
      <4> QED
        BY <2>2, <2>3, <2>4, <4>1 DEF Step
    <3>4. ASSUME NEW ok \in BOOLEAN, FetchOOMCount(s, ok) PROVE World'
      <4>1. Step(s, Read(Grounded, ok))
        BY <3>4 DEF FetchOOMCount
      <4> QED
        BY <2>2, <2>3, <2>4, <2>5, <4>1 DEF Step
    <3> QED
      BY <2>6, <3>1, <3>2, <3>3, <3>4
  <2>7. ASSUME NEW s \in Slots, Land(s) PROVE World'
    <3>1. /\ UNCHANGED <<clock, kills>> /\ flights' = [flights EXCEPT ![s] = Grounded]
          /\ counted' \in {counted, flights[s].ok}
      BY <2>7 DEF Land
    <3>2. counted' \in BOOLEAN
      BY <2>3, <3>1 DEF Flight
    <3>3. Past'
      BY <2>1, <2>5, <3>1
    <3> QED
      BY <3>1, <3>2, <3>3
  <2>8. CASE Kill \/ Tock
    <3>1. /\ UNCHANGED <<flights, counted>> /\ clock' \in 0..MaxTime
          /\ kills <= kills' /\ clock <= clock' /\ kills' \in Nat
      BY <2>1, <2>8, OomAssumption DEF Kill, Tock
    <3>2. \A s \in Slots : flights[s].at \in Nat /\ flights[s].count \in Nat
      BY <2>3 DEF Flight
    <3> QED
      BY <2>1, <3>1, <3>2
  <2>9. CASE HandleKmsg \/ UNCHANGED oomVars
    BY <2>9 DEF HandleKmsg, oomVars
  <2> QED
    BY <2>6, <2>7, <2>8, <2>9 DEF OomNext
<1>3. OomInv /\ TellInv /\ World => OomTypeOK
  BY DEF OomInv, Counts, TellInv, Kept, OomTypeOK
<1> QED
  BY <1>1, <1>2, <1>3, OomInvariance, TellInvariance, PTL DEF OomSpec

------------------------------------------------------------------------------
(* KernelLog.  The group of a key tells its events because events come in  *)
(* the order they happened: nothing the ring holds, or a read brought, is  *)
(* older than what was handled before it.                                  *)
LogRecord == [line : Lines, at : Nat]
LogEvents == [at : Nat, key : AlertKeys]
Group == [first : Nat, last : Nat, count : Nat]

InOrder(s) == \A i, j \in 1..Len(s) : i < j => s[i].at <= s[j].at
NoneAfter(s, t) == \A i \in 1..Len(s) : s[i].at <= t
NoneBefore(s, t) == \A i \in 1..Len(s) : t <= s[i].at

(* At most one group, from an event of T to the newest of them.            *)
Tells(G, T) ==
  \A x \in G :
    /\ \A y \in G : x = y
    /\ x.first \in T /\ x.last \in T
    /\ \A t \in T : t <= x.last

RingInOrder ==
  /\ now \in Nat
  /\ ring \in Seq(LogRecord) /\ InOrder(ring) /\ NoneAfter(ring, now)

DrainInOrder ==
  drain # NoDrain =>
    /\ drain.events \in Seq(LogEvents) /\ InOrder(drain.events)
    /\ NoneAfter(drain.events, now)
    /\ \A i \in 1..Len(drain.events) : NoneBefore(ring, drain.events[i].at)

ToldInOrder ==
  /\ told \in [AlertKeys -> SUBSET Nat]
  /\ \A k \in AlertKeys : \A t \in told[k] :
       /\ t <= now
       /\ NoneBefore(ring, t)
       /\ drain # NoDrain => NoneBefore(drain.events, t)

GroupsTell ==
  /\ groups \in [AlertKeys -> SUBSET Group]
  /\ \A k \in AlertKeys :
       /\ Tells(groups[k], told[k])
       /\ groups[k] = {} => \A t \in told[k] : t + EventWindow <= now

LogInv == RingInOrder /\ DrainInOrder /\ ToldInOrder /\ GroupsTell

LEMMA SortedPick ==
  ASSUME NEW E, NEW s \in Seq(E), InOrder(s), NEW K
  PROVE  InOrder(Picked(s, K))
<1> DEFINE q == Picked(s, K)
           P == K \cap 1..Len(s)
<1>1. q \in Seq(E) /\ \E at : Tracks(at, q, s, P)
  BY PickedFacts
<1>2. \A i \in P : i \in 1..Len(s)
  OBVIOUS
<1> HIDE DEF q, P
<1>3. PICK at \in [1..Len(q) -> P] :
        /\ \A j \in 1..Len(q) : q[j] = s[at[j]]
        /\ \A i, j \in 1..Len(q) : i < j => at[i] < at[j]
  BY <1>1 DEF Tracks
<1> QED
  BY <1>2, <1>3 DEF InOrder, q

LEMMA KeysFacts == \A line : KeysOfLine(line) \subseteq AlertKeys
<1> TAKE line
<1>1. \A h \in DOMAIN OnHost : OnHost[h] \subseteq Disks
  BY DEF Disks
<1>2. \A n \in DOMAIN DiskOf : DiskOf[n] \in Disks
  BY DEF Disks
<1>3. Disks \subseteq AlertKeys /\ UnderVoltage \in AlertKeys
  BY DEF AlertKeys
<1> HIDE DEF Disks, AlertKeys, UnderVoltage
<1> QED
  BY <1>1, <1>2, <1>3 DEF KeysOfLine

(* What a drain brings of the records it read: events, in their order.     *)
LEMMA ClassifiedFacts ==
  ASSUME NEW s \in Seq(LogRecord), InOrder(s)
  PROVE  /\ Classified(s) \in Seq(LogEvents) /\ InOrder(Classified(s))
         /\ Len(Classified(s)) <= Len(s)
         /\ \A j \in 1..Len(Classified(s)) :
              \E i \in 1..Len(s) : Classified(s)[j].at = s[i].at
<1> DEFINE K == {i \in DOMAIN s : KeysOfLine(s[i].line) # {}}
           q == Picked(s, K)
           evs == [i \in DOMAIN q |-> EventOf(q[i])]
<1>3. Classified(s) = evs
  BY Zenon DEF Classified
<1>4. \A i \in K : KeysOfLine(s[i].line) # {}
  OBVIOUS
<1> HIDE DEF K
<1>1. q \in Seq(LogRecord) /\ InOrder(q) /\ Len(q) <= Len(s)
  BY PickedFacts, PickedNoLonger, SortedPick
<1>2. \A j \in 1..Len(q) : \E i \in K \cap 1..Len(s) : q[j] = s[i]
  BY PickedWanted DEF DrawnFrom
<1> HIDE DEF q
<1>5. ASSUME NEW j \in 1..Len(q)
      PROVE  EventOf(q[j]) \in LogEvents /\ EventOf(q[j]).at = q[j].at
  <2>1. q[j] \in LogRecord
    BY <1>1, ElementOfSeq
  <2>2. PICK key \in KeysOfLine(q[j].line) : TRUE
    BY <1>2, <1>4
  <2>3. (CHOOSE k \in KeysOfLine(q[j].line) : TRUE) \in AlertKeys
    BY <2>2, KeysFacts
  <2> QED
    BY <2>1, <2>3 DEF EventOf, LogEvents, LogRecord
<1>6. DOMAIN q = 1..Len(q) /\ Len(q) \in Nat
  BY <1>1
<1>7. /\ evs \in Seq(LogEvents) /\ Len(evs) = Len(q)
      /\ \A j \in 1..Len(q) : evs[j].at = q[j].at
  <2>1. evs \in [1..Len(q) -> LogEvents]
    BY <1>5, <1>6
  <2> QED
    BY <1>5, <1>6, <2>1
<1> HIDE DEF evs
<1>8. InOrder(evs) /\ Len(evs) <= Len(s)
  BY <1>1, <1>7 DEF InOrder
<1> QED
  BY <1>2, <1>3, <1>7, <1>8

LEMMA HeededFacts ==
  ASSUME NEW evs \in Seq(LogEvents), InOrder(evs)
  PROVE  /\ Heeded(evs) \in Seq(LogEvents) /\ InOrder(Heeded(evs))
         /\ Len(Heeded(evs)) <= Len(evs)
         /\ \A j \in 1..Len(Heeded(evs)) : \E i \in 1..Len(evs) : Heeded(evs)[j] = evs[i]
<1> DEFINE K == {i \in DOMAIN evs : evs[i].key \notin hiddenDisks}
<1>1. Heeded(evs) = Picked(evs, K)
  BY DEF Heeded
<1> HIDE DEF K
<1>2. /\ Picked(evs, K) \in Seq(LogEvents) /\ InOrder(Picked(evs, K))
      /\ Len(Picked(evs, K)) <= Len(evs)
  BY PickedFacts, PickedNoLonger, SortedPick
<1>3. \A j \in 1..Len(Picked(evs, K)) :
        \E i \in K \cap 1..Len(evs) : Picked(evs, K)[j] = evs[i]
  BY PickedWanted DEF DrawnFrom
<1> QED
  BY <1>1, <1>2, <1>3

(* An event of a key, no older than any before it.                         *)
LEMMA ExtendedTyped ==
  ASSUME NEW x \in Group, NEW ev \in LogEvents
  PROVE  LET z == [x EXCEPT !.last = ev.at, !.count = @ + 1]
         IN  z \in Group /\ z.first = x.first /\ z.last = ev.at
<1> DEFINE z == [x EXCEPT !.last = ev.at, !.count = @ + 1]
<1>1. /\ x \in [first : Nat, last : Nat, count : Nat]
      /\ x.first \in Nat /\ x.count + 1 \in Nat /\ ev.at \in Nat
  BY DEF Group, LogEvents
<1>2. z.first = x.first /\ z.last = ev.at /\ z.count = x.count + 1
  BY <1>1
<1>4. z \in Group
  <2>1. \A a, b \in Nat : [x EXCEPT !.last = a, !.count = b] \in [first : Nat, last : Nat, count : Nat]
    BY <1>1
  <2> QED
    BY <1>1, <2>1 DEF Group
<1> QED
  BY <1>2, <1>4

LEMMA ExtendedTells ==
  ASSUME NEW G \in SUBSET Group, NEW T \in SUBSET Nat, Tells(G, T),
         NEW ev \in LogEvents, \A t \in T : t <= ev.at
  PROVE  /\ Extended(G, ev) \in SUBSET Group /\ Extended(G, ev) # {}
         /\ Tells(Extended(G, ev), T \cup {ev.at})
<1>1. ev.at \in Nat
  BY DEF LogEvents
<1>2. CASE G = {}
  <2>1. Extended(G, ev) = {[first |-> ev.at, last |-> ev.at, count |-> 1]}
    BY <1>2 DEF Extended
  <2> QED
    BY <1>1, <2>1 DEF Group, Tells
<1>3. CASE G # {}
  <2>1. PICK x \in G : TRUE
    BY <1>3
  <2>2. G = {x} /\ x \in Group /\ x.first \in T
    BY <2>1 DEF Tells
  <2> DEFINE z == [x EXCEPT !.last = ev.at, !.count = @ + 1]
  <2>3. Extended(G, ev) = {z}
    BY <1>3, <2>2 DEF Extended
  <2>4. z \in Group /\ z.first = x.first /\ z.last = ev.at
    BY <2>2, ExtendedTyped
  <2> HIDE DEF z
  <2> QED
    BY <1>1, <2>2, <2>3, <2>4 DEF Tells
<1> QED
  BY <1>2, <1>3

(* No count above C, and each group one of an event at least.              *)
Sized(G, C) == \A x \in G : x.count \in 1..C

LEMMA ExtendedSized ==
  ASSUME NEW G \in SUBSET Group, NEW ev, NEW C \in Nat, Sized(G, C)
  PROVE  Sized(Extended(G, ev), C + 1)
<1>1. CASE G = {}
  <2>1. Extended(G, ev) = {[first |-> ev.at, last |-> ev.at, count |-> 1]}
    BY <1>1 DEF Extended
  <2> QED
    BY <2>1 DEF Sized
<1>2. CASE G # {}
  <2>1. Extended(G, ev) = {[x EXCEPT !.last = ev.at, !.count = @ + 1] : x \in G}
    BY <1>2 DEF Extended
  <2>2. ASSUME NEW x \in G
        PROVE  [x EXCEPT !.last = ev.at, !.count = @ + 1].count \in 1..C + 1
    <3>1. x \in [first : Nat, last : Nat, count : Nat] /\ x.count \in 1..C
      BY DEF Group, Sized
    <3>2. [x EXCEPT !.last = ev.at, !.count = @ + 1].count = x.count + 1
      BY <3>1
    <3> QED
      BY <3>1, <3>2
  <2> QED
    BY <2>1, <2>2 DEF Sized
<1> QED
  BY <1>1, <1>2

(* The times of a key's events among the first i.                          *)
TimesOf(evs, k, i) == {evs[j].at : j \in {l \in 1..i : evs[l].key = k}}

(* observe's loop over the events of a drain, event by event.              *)
Grows(h, gs, evs) ==
  /\ h[0] = gs
  /\ \A i \in 1..Len(evs) :
       /\ h[i - 1] \in [AlertKeys -> SUBSET Group] /\ h[i] \in [AlertKeys -> SUBSET Group]
       /\ h[i] = [h[i - 1] EXCEPT ![evs[i].key] = Extended(@, evs[i])]

LEMMA WithEventsGrow ==
  ASSUME NEW evs \in Seq(LogEvents), NEW gs \in [AlertKeys -> SUBSET Group]
  PROVE  \E h : Grows(h, gs, evs) /\ WithEvents(gs, evs) = h[Len(evs)]
<1> DEFINE N == Len(evs)
           A == [AlertKeys -> SUBSET Group]
           Next1(g, i) == [g EXCEPT ![evs[i].key] = Extended(@, evs[i])]
           After(h) == h = [i \in 0..N |-> IF i = 0 THEN gs ELSE Next1(h[i - 1], i)]
           step == [p \in (1..N) \X A |-> Next1(p[2], p[1])]
<1>1. N \in Nat /\ \A i \in 1..N : evs[i] \in LogEvents /\ evs[i].key \in AlertKeys
  <2>1. \A i \in 1..N : evs[i] \in LogEvents
    BY ElementOfSeq
  <2> QED
    BY <2>1 DEF LogEvents
<1>2. ASSUME NEW i \in 1..N, NEW g \in A PROVE Next1(g, i) \in A
  <2>1. Extended(g[evs[i].key], evs[i]) \in SUBSET Group
    <3> DEFINE G == g[evs[i].key]
               ev == evs[i]
    <3>1. G \in SUBSET Group /\ ev \in LogEvents /\ ev.at \in Nat
      BY <1>1 DEF LogEvents
    <3> HIDE DEF G, ev
    <3>2. [first |-> ev.at, last |-> ev.at, count |-> 1] \in Group
      BY <3>1 DEF Group
    <3>3. \A x \in G : [x EXCEPT !.last = ev.at, !.count = @ + 1] \in Group
      BY <3>1, ExtendedTyped
    <3>4. Extended(G, ev) \in SUBSET Group
      BY <3>2, <3>3 DEF Extended
    <3> QED
      BY <3>4 DEF G, ev
  <2> QED
    BY <2>1
<1>3. step \in [(1..N) \X A -> A] /\ \A i \in 1..N, g \in A : step[<<i, g>>] = Next1(g, i)
  BY <1>2
<1>4. gs \in A
  OBVIOUS
<1> HIDE DEF N, A, step, Next1
<1>5. PICK g \in [0..N -> A] : Recurs(g, N, gs, step)
  BY <1>1, <1>3, <1>4, RecursionUpTo
<1>6. ASSUME NEW i \in 0..N PROVE g[i] = IF i = 0 THEN gs ELSE Next1(g[i - 1], i)
  <2>1. CASE i = 0
    BY <1>5, <2>1 DEF Recurs
  <2>2. CASE i # 0
    <3>1. i \in 1..N /\ i - 1 \in 0..N
      BY <1>1, <2>2, SMT
    <3>2. g[i] = step[<<i, g[i - 1]>>] /\ g[i - 1] \in A
      BY <1>5, <3>1 DEF Recurs
    <3> QED
      BY <1>3, <2>2, <3>1, <3>2
  <2> QED
    BY <2>1, <2>2
<1>7. After(g)
  BY <1>5, <1>6
<1> DEFINE h == CHOOSE x : After(x)
<1>8. After(h)
  BY <1>7
<1>9. WithEvents(gs, evs) = h[N]
  BY Zenon DEF WithEvents, N, Next1
<1>10. \A i \in 0..N : h[i] = IF i = 0 THEN gs ELSE Next1(h[i - 1], i)
  BY <1>8, Zenon
<1> HIDE DEF h, After
<1> DEFINE S == {i \in Nat : i <= N => h[i] \in A}
<1>11. 0 \in S /\ h[0] = gs
  BY <1>1, <1>4, <1>10
<1>12. ASSUME NEW i \in S PROVE i + 1 \in S
  <2> SUFFICES ASSUME i + 1 <= N PROVE h[i + 1] \in A
    OBVIOUS
  <2>1. i \in Nat /\ i + 1 \in 1..N /\ i + 1 \in 0..N /\ (i + 1) - 1 = i /\ i + 1 # 0 /\ i <= N
    BY <1>1, SMT
  <2>2. h[i + 1] = Next1(h[i], i + 1) /\ h[i] \in A
    BY <1>10, <2>1
  <2> QED
    BY <1>2, <2>1, <2>2
<1>13. S = Nat
  BY <1>11, <1>12, InductionOver
<1>14. ASSUME NEW i \in 1..N
       PROVE  h[i - 1] \in A /\ h[i] \in A /\ h[i] = Next1(h[i - 1], i)
  <2>1. i \in 0..N /\ i # 0 /\ i \in S /\ i - 1 \in S /\ i <= N /\ i - 1 <= N
    BY <1>1, <1>13, SMT
  <2> QED
    BY <1>10, <2>1
<1>15. Grows(h, gs, evs)
  BY Zenon, <1>11, <1>14 DEF Grows, N, A, Next1
<1> QED
  BY <1>9, <1>15 DEF N

LEMMA WithEventsTell ==
  ASSUME NEW evs \in Seq(LogEvents), InOrder(evs),
         NEW gs \in [AlertKeys -> SUBSET Group], NEW T \in [AlertKeys -> SUBSET Nat],
         \A k \in AlertKeys : Tells(gs[k], T[k]) /\ \A t \in T[k] : NoneBefore(evs, t)
  PROVE  LET all == WithEvents(gs, evs)
         IN  /\ all \in [AlertKeys -> SUBSET Group]
             /\ \A k \in AlertKeys :
                  /\ Tells(all[k], T[k] \cup TimesOf(evs, k, Len(evs)))
                  /\ all[k] = {} => gs[k] = {} /\ TimesOf(evs, k, Len(evs)) = {}
                  /\ \A C \in Nat : Sized(gs[k], C) => Sized(all[k], C + Len(evs))
<1> DEFINE N == Len(evs)
           A == [AlertKeys -> SUBSET Group]
           Next1(g, i) == [g EXCEPT ![evs[i].key] = Extended(@, evs[i])]
<1>1. N \in Nat /\ \A i \in 1..N : evs[i] \in LogEvents /\ evs[i].key \in AlertKeys
  <2>1. \A i \in 1..N : evs[i] \in LogEvents
    BY ElementOfSeq
  <2> QED
    BY <2>1 DEF LogEvents
<1>2. PICK h : Grows(h, gs, evs) /\ WithEvents(gs, evs) = h[Len(evs)]
  BY WithEventsGrow
<1>3. \A i \in 1..N : h[i - 1] \in A /\ h[i] \in A /\ h[i] = Next1(h[i - 1], i)
  BY Zenon, <1>2 DEF Grows
<1>4. gs \in A
  OBVIOUS
<1>9. WithEvents(gs, evs) = h[N]
  BY <1>2
<1>10. h[0] = gs
  BY <1>2 DEF Grows
<1> HIDE DEF N, A, Next1
<1> DEFINE Fits(i) ==
      /\ h[i] \in A
      /\ \A k \in AlertKeys :
           /\ Tells(h[i][k], T[k] \cup TimesOf(evs, k, i))
           /\ h[i][k] = {} => gs[k] = {} /\ TimesOf(evs, k, i) = {}
           /\ \A C \in Nat : Sized(gs[k], C) => Sized(h[i][k], C + i)
           S == {i \in Nat : i <= N => Fits(i)}
<1>11. 0 \in S
  <2>1. h[0] = gs
    BY <1>10
  <2>2. \A k \in AlertKeys : TimesOf(evs, k, 0) = {}
    BY DEF TimesOf
  <2>3. \A k \in AlertKeys : T[k] \cup TimesOf(evs, k, 0) = T[k]
    BY <2>2
  <2>4. \A k \in AlertKeys : \A C \in Nat : Sized(gs[k], C) => Sized(h[0][k], C + 0)
    BY <2>1
  <2> QED
    BY <1>4, <2>1, <2>2, <2>3, <2>4
<1> HIDE DEF Fits
<1>12. ASSUME NEW i \in S PROVE i + 1 \in S
  <2> SUFFICES ASSUME i + 1 <= N PROVE Fits(i + 1)
    OBVIOUS
  <2> DEFINE ev == evs[i + 1]
  <2>1. /\ i \in Nat /\ i + 1 \in 1..N /\ i + 1 \in 0..N /\ (i + 1) - 1 = i /\ i + 1 # 0
        /\ Fits(i)
    BY <1>1, SMT
  <2>2. ev \in LogEvents /\ ev.key \in AlertKeys /\ ev.at \in Nat
    BY <1>1, <2>1 DEF LogEvents
  <2>3. h[i + 1] = Next1(h[i], i + 1) /\ h[i + 1] \in A
    BY <1>3, <2>1
  <2>4. ASSUME NEW k \in AlertKeys
        PROVE  /\ h[i] \in [AlertKeys -> SUBSET Group]
               /\ Tells(h[i][k], T[k] \cup TimesOf(evs, k, i))
               /\ h[i][k] = {} => gs[k] = {} /\ TimesOf(evs, k, i) = {}
               /\ \A C \in Nat : Sized(gs[k], C) => Sized(h[i][k], C + i)
    BY <2>1 DEF A, Fits
  <2>5. ASSUME NEW k \in AlertKeys, k # ev.key
        PROVE  h[i + 1][k] = h[i][k] /\ TimesOf(evs, k, i + 1) = TimesOf(evs, k, i)
    <3>1. h[i + 1][k] = h[i][k]
      BY <2>3, <2>4, <2>5 DEF Next1
    <3>2. {l \in 1..i + 1 : evs[l].key = k} = {l \in 1..i : evs[l].key = k}
      BY <2>1, <2>5
    <3> QED
      BY <3>1, <3>2 DEF TimesOf
  <2>6. /\ h[i + 1][ev.key] = Extended(h[i][ev.key], ev)
        /\ TimesOf(evs, ev.key, i + 1) = TimesOf(evs, ev.key, i) \cup {ev.at}
    <3>1. h[i + 1][ev.key] = Extended(h[i][ev.key], ev)
      BY <2>2, <2>3, <2>4 DEF Next1
    <3>2. {l \in 1..i + 1 : evs[l].key = ev.key} = {l \in 1..i : evs[l].key = ev.key} \cup {i + 1}
      BY <2>1
    <3> QED
      BY <3>1, <3>2 DEF TimesOf
  <2>7. \A t \in T[ev.key] \cup TimesOf(evs, ev.key, i) : t \in Nat /\ t <= ev.at
    <3>1. \A t \in T[ev.key] : t \in Nat /\ t <= ev.at
      BY <2>1, <2>2 DEF NoneBefore, N
    <3>2. \A l \in 1..i : evs[l].at \in Nat /\ evs[l].at <= ev.at
      <4> TAKE l \in 1..i
      <4>1. l \in 1..N /\ l < i + 1
        BY <1>1, <2>1
      <4>2. evs[l] \in LogEvents /\ evs[l].at <= ev.at
        BY <1>1, <2>1, <4>1 DEF InOrder, N
      <4> QED
        BY <4>2 DEF LogEvents
    <3> QED
      BY <3>1, <3>2 DEF TimesOf
  <2> HIDE DEF ev
  <2>8. /\ Extended(h[i][ev.key], ev) # {}
        /\ Tells(Extended(h[i][ev.key], ev), (T[ev.key] \cup TimesOf(evs, ev.key, i)) \cup {ev.at})
    <3>1. /\ h[i][ev.key] \in SUBSET Group
          /\ Tells(h[i][ev.key], T[ev.key] \cup TimesOf(evs, ev.key, i))
          /\ T[ev.key] \cup TimesOf(evs, ev.key, i) \in SUBSET Nat
      BY <2>2, <2>4, <2>7
    <3> QED
      BY <2>2, <2>7, <3>1, ExtendedTells, Zenon
  <2>9. \A k \in AlertKeys :
          /\ Tells(h[i + 1][k], T[k] \cup TimesOf(evs, k, i + 1))
          /\ h[i + 1][k] = {} => gs[k] = {} /\ TimesOf(evs, k, i + 1) = {}
    <3> TAKE k \in AlertKeys
    <3>1. CASE k = ev.key
      <4>1. (T[k] \cup TimesOf(evs, k, i)) \cup {ev.at} = T[k] \cup TimesOf(evs, k, i + 1)
        BY <2>6, <3>1
      <4> QED
        BY <2>6, <2>8, <3>1, <4>1
    <3>2. CASE k # ev.key
      BY <2>4, <2>5, <3>2
    <3> QED
      BY <3>1, <3>2
  <2>10. ASSUME NEW k \in AlertKeys, NEW C \in Nat, Sized(gs[k], C)
         PROVE  Sized(h[i + 1][k], C + (i + 1))
    <3>1. C + i \in Nat /\ (C + i) + 1 = C + (i + 1)
      BY <2>1, SMT
    <3>4. Sized(h[i][k], C + i) /\ h[i][k] \in SUBSET Group
      BY <2>4, <2>10
    <3>2. CASE k = ev.key
      <4>1. Sized(Extended(h[i][k], ev), (C + i) + 1)
        BY <3>1, <3>4, ExtendedSized
      <4> QED
        BY <2>6, <3>1, <3>2, <4>1
    <3>3. CASE k # ev.key
      <4>1. Sized(h[i][k], C + (i + 1))
        BY <2>1, <3>1, <3>4 DEF Sized
      <4> QED
        BY <2>5, <3>3, <4>1
    <3> QED
      BY <3>2, <3>3
  <2> QED
    BY <2>3, <2>9, <2>10 DEF Fits
<1>13. S = Nat
  BY <1>11, <1>12, InductionOver
<1>14. N \in S
  BY <1>1, <1>13
<1>15. Fits(N)
  BY <1>1, <1>14
<1> QED
  BY <1>9, <1>15 DEF A, N, Fits

LEMMA LogStart == KernelLogInit => LogInv
BY DEF KernelLogInit, LogInv, RingInOrder, DrainInOrder, ToldInOrder, GroupsTell,
       InOrder, NoneAfter, NoneBefore, Tells

(* The end of the ring moves on.                                           *)
LEMMA RingKeeps ==
  ASSUME LogInv, NEW line \in Lines, WriteRecord(line)
  PROVE  LogInv'
<1> DEFINE r == [line |-> line, at |-> now]
<1>1. /\ UNCHANGED <<now, drain, groups, told>>
      /\ \/ ring' = Append(ring, r)
         \/ Len(ring) >= RingSize /\ ring' = Append(Tail(ring), r)
  BY KernelLogAssumption DEF WriteRecord, LogInv, RingInOrder
<1>2. /\ now \in Nat /\ ring \in Seq(LogRecord) /\ InOrder(ring) /\ NoneAfter(ring, now)
      /\ r \in LogRecord /\ r.at = now
  BY DEF LogInv, RingInOrder, LogRecord
<1> HIDE DEF r
<1>3. PICK base \in Seq(LogRecord) :
        /\ ring' = Append(base, r)
        /\ InOrder(base)
        /\ \A i \in 1..Len(base) : \E j \in 1..Len(ring) : base[i] = ring[j]
  <2>1. CASE ring' = Append(ring, r)
    BY <1>2, <2>1
  <2>2. CASE Len(ring) >= RingSize /\ ring' = Append(Tail(ring), r)
    <3>1. ring # <<>>
      BY <1>2, <2>2, KernelLogAssumption
    <3>2. /\ Tail(ring) \in Seq(LogRecord) /\ Len(Tail(ring)) = Len(ring) - 1
          /\ \A i \in 1..Len(Tail(ring)) : Tail(ring)[i] = ring[i + 1]
      BY <1>2, <3>1, HeadTailProperties
    <3>3. \A i \in 1..Len(Tail(ring)) : i + 1 \in 1..Len(ring)
      BY <1>2, <3>2
    <3>4. InOrder(Tail(ring))
      BY <1>2, <3>2, <3>3 DEF InOrder
    <3> QED
      BY Zenon, <2>2, <3>2, <3>3, <3>4
  <2> QED
    BY Zenon, <1>1, <2>1, <2>2
<1>4. /\ ring' \in Seq(LogRecord) /\ Len(ring') = Len(base) + 1 /\ Len(base) \in Nat
      /\ ring'[Len(base) + 1] = r /\ \A i \in 1..Len(base) : ring'[i] = base[i]
  BY <1>2, <1>3, AppendProperties
<1>5. \A i \in 1..Len(ring') : ring'[i].at = now \/ \E j \in 1..Len(ring) : ring'[i] = ring[j]
  BY <1>2, <1>3, <1>4
<1>6. \A i \in 1..Len(base) : base[i].at <= now
  BY <1>2, <1>3 DEF NoneAfter
<1>7. InOrder(ring') /\ NoneAfter(ring', now)
  BY <1>2, <1>3, <1>4, <1>6 DEF InOrder, NoneAfter
<1>8. \A t \in Nat : t <= now /\ NoneBefore(ring, t) => NoneBefore(ring', t)
  BY <1>5 DEF NoneBefore
<1>9. RingInOrder'
  BY <1>1, <1>2, <1>4, <1>7 DEF RingInOrder
<1>10. DrainInOrder'
  <2> SUFFICES ASSUME drain # NoDrain PROVE DrainInOrder'
    BY <1>1 DEF DrainInOrder
  <2>1. /\ drain.events \in Seq(LogEvents) /\ InOrder(drain.events)
        /\ NoneAfter(drain.events, now)
        /\ \A i \in 1..Len(drain.events) : NoneBefore(ring, drain.events[i].at)
    BY DEF LogInv, DrainInOrder
  <2>2. \A i \in 1..Len(drain.events) : drain.events[i].at \in Nat /\ drain.events[i].at <= now
    <3>1. \A i \in 1..Len(drain.events) : drain.events[i] \in LogEvents
      BY <2>1, ElementOfSeq
    <3> QED
      BY <2>1, <3>1 DEF NoneAfter, LogEvents
  <2> QED
    BY <1>1, <1>8, <2>1, <2>2 DEF DrainInOrder
<1>11. ToldInOrder'
  BY <1>1, <1>8 DEF LogInv, ToldInOrder
<1>12. GroupsTell'
  BY <1>1 DEF LogInv, GroupsTell
<1> QED
  BY <1>9, <1>10, <1>11, <1>12 DEF LogInv

LEMMA ClockKeeps ==
  ASSUME LogInv, KernelLogTick
  PROVE  LogInv'
<1>1. now \in Nat /\ now' = now + 1 /\ UNCHANGED <<ring, drain, groups, told>>
  BY DEF LogInv, RingInOrder, KernelLogTick
<1>2. RingInOrder'
  <2>1. \A i \in 1..Len(ring) : ring[i].at \in Nat /\ ring[i].at <= now
    <3>1. \A i \in 1..Len(ring) : ring[i] \in LogRecord
      BY ElementOfSeq DEF LogInv, RingInOrder
    <3> QED
      BY <3>1 DEF LogInv, RingInOrder, NoneAfter, LogRecord
  <2> QED
    BY <1>1, <2>1 DEF LogInv, RingInOrder, NoneAfter
<1>3. DrainInOrder'
  <2> SUFFICES ASSUME drain # NoDrain PROVE DrainInOrder'
    BY <1>1 DEF DrainInOrder
  <2>1. /\ drain.events \in Seq(LogEvents) /\ InOrder(drain.events)
        /\ NoneAfter(drain.events, now)
        /\ \A i \in 1..Len(drain.events) : NoneBefore(ring, drain.events[i].at)
    BY DEF LogInv, DrainInOrder
  <2>2. \A i \in 1..Len(drain.events) : drain.events[i].at \in Nat /\ drain.events[i].at <= now
    <3>1. \A i \in 1..Len(drain.events) : drain.events[i] \in LogEvents
      BY <2>1, ElementOfSeq
    <3> QED
      BY <2>1, <3>1 DEF NoneAfter, LogEvents
  <2> QED
    BY <1>1, <2>1, <2>2 DEF DrainInOrder, NoneAfter
<1>4. ToldInOrder'
  <2>1. \A k \in AlertKeys : \A t \in told[k] : t \in Nat /\ t <= now'
    BY <1>1 DEF LogInv, ToldInOrder
  <2> QED
    BY <1>1, <2>1 DEF LogInv, ToldInOrder
<1>5. GroupsTell'
  <2>1. ASSUME NEW k \in AlertKeys, groups[k] = {}, NEW t \in told[k]
        PROVE  t + EventWindow <= now'
    <3>1. t \in Nat /\ t + EventWindow <= now /\ EventWindow \in Nat
      BY <2>1, KernelLogAssumption DEF LogInv, ToldInOrder, GroupsTell
    <3> QED
      BY <1>1, <3>1
  <2> QED
    BY <1>1, <2>1 DEF LogInv, GroupsTell
<1> QED
  BY <1>2, <1>3, <1>4, <1>5 DEF LogInv

LEMMA DrainKeeps ==
  ASSUME LogInv, NEW n \in 0..RingSize, NEW failed \in BOOLEAN, Drain(n, failed)
  PROVE  LogInv'
<1> DEFINE s == SubSeq(ring, 1, n)
           u == SubSeq(ring, n + 1, Len(ring))
           evs == Classified(s)
<1>1. /\ UNCHANGED <<now, groups, told>> /\ ring' = u
      /\ drain'.events = evs
      /\ n \in Nat /\ n <= Len(ring)
  <2>1. n \in Nat /\ n <= Drainable /\ Len(ring) \in Nat /\ Reads \in Int
    BY KernelLogAssumption DEF Drain, LogInv, RingInOrder, Reads
  <2>2. Drainable <= Len(ring)
    BY <2>1 DEF Drainable
  <2>3. n <= Len(ring)
    BY <2>1, <2>2 DEF Drainable
  <2> QED
    BY <2>1, <2>3 DEF Drain
<1>2. now \in Nat /\ ring \in Seq(LogRecord) /\ InOrder(ring) /\ NoneAfter(ring, now)
  BY DEF LogInv, RingInOrder
<1>3. /\ s \in Seq(LogRecord) /\ Len(s) = n
      /\ \A i \in 1..n : i \in 1..Len(ring) /\ s[i] = ring[i]
  <2>1. /\ s \in Seq(LogRecord) /\ Len(s) = n - 1 + 1
        /\ \A i \in 1..n - 1 + 1 : 1 - 1 + i \in 1..Len(ring) /\ s[i] = ring[1 - 1 + i]
    BY <1>1, <1>2, PieceOf
  <2> QED
    BY <1>1, <2>1
<1>4. /\ u \in Seq(LogRecord) /\ Len(u) = Len(ring) - n
      /\ \A i \in 1..Len(ring) - n : n + i \in 1..Len(ring) /\ u[i] = ring[n + i]
  <2>1. n + 1 \in Nat \ {0} /\ Len(ring) \in Nat /\ n + 1 <= Len(ring) + 1
    BY <1>1, <1>2
  <2>2. /\ u \in Seq(LogRecord) /\ Len(u) = Len(ring) - (n + 1) + 1
        /\ \A i \in 1..Len(ring) - (n + 1) + 1 :
             (n + 1) - 1 + i \in 1..Len(ring) /\ u[i] = ring[(n + 1) - 1 + i]
    BY <1>2, <2>1, PieceOf
  <2> QED
    BY <1>1, <2>1, <2>2
<1> HIDE DEF s, u
<1>5. InOrder(s) /\ InOrder(u) /\ NoneAfter(u, now)
  <2>1. InOrder(s)
    BY <1>2, <1>3 DEF InOrder
  <2>2. \A i, j \in 1..Len(ring) - n : i < j => n + i < n + j
    BY <1>1
  <2>3. InOrder(u)
    BY <1>2, <1>4, <2>2 DEF InOrder
  <2>4. NoneAfter(u, now)
    BY <1>2, <1>4 DEF NoneAfter
  <2> QED
    BY <2>1, <2>3, <2>4
<1>6. /\ evs \in Seq(LogEvents) /\ InOrder(evs)
      /\ \A j \in 1..Len(evs) : \E i \in 1..n : evs[j].at = s[i].at
  BY <1>3, <1>5, ClassifiedFacts
<1> HIDE DEF evs
<1>7. \A j \in 1..Len(evs) : \E i \in 1..n : evs[j].at = ring[i].at
  BY <1>3, <1>6
<1>8. \A t \in Nat : NoneBefore(ring, t) => NoneBefore(evs, t) /\ NoneBefore(u, t)
  BY <1>1, <1>3, <1>4, <1>7 DEF NoneBefore
<1>9. RingInOrder'
  BY <1>1, <1>2, <1>4, <1>5 DEF RingInOrder
<1>10. DrainInOrder'
  <2>1. NoneAfter(evs, now)
    BY <1>2, <1>3, <1>7 DEF NoneAfter
  <2>2. \A j \in 1..Len(evs) : NoneBefore(u, evs[j].at)
    <3> TAKE j \in 1..Len(evs)
    <3>1. PICK i \in 1..n : evs[j].at = ring[i].at
      BY <1>7
    <3>2. \A l \in 1..Len(u) : n + l \in 1..Len(ring) /\ i < n + l /\ u[l] = ring[n + l]
      BY <1>1, <1>4
    <3> QED
      BY <1>2, <1>3, <3>1, <3>2 DEF InOrder, NoneBefore
  <2> QED
    BY <1>1, <1>6, <2>1, <2>2 DEF DrainInOrder
<1>11. ToldInOrder'
  BY <1>1, <1>8 DEF LogInv, ToldInOrder
<1>12. GroupsTell'
  BY <1>1 DEF LogInv, GroupsTell
<1> QED
  BY <1>9, <1>10, <1>11, <1>12 DEF LogInv

LEMMA HandleKeeps ==
  ASSUME LogInv, HandleDrain
  PROVE  LogInv'
<1> DEFINE evs == Heeded(drain.events)
           all == WithEvents(groups, evs)
           N == Len(evs)
<1>1. /\ UNCHANGED <<now, ring>> /\ drain # NoDrain /\ drain' = NoDrain
      /\ groups' = [k \in AlertKeys |-> RecentOnly(all[k])]
      /\ told' = [k \in AlertKeys |-> told[k] \cup
           {evs[i].at : i \in {j \in DOMAIN evs : evs[j].key = k}}]
  BY DEF HandleDrain
<1>2. /\ drain.events \in Seq(LogEvents) /\ InOrder(drain.events)
      /\ NoneAfter(drain.events, now)
      /\ \A i \in 1..Len(drain.events) : NoneBefore(ring, drain.events[i].at)
      /\ told \in [AlertKeys -> SUBSET Nat]
      /\ \A k \in AlertKeys : \A t \in told[k] :
           t <= now /\ NoneBefore(ring, t) /\ NoneBefore(drain.events, t)
      /\ now \in Nat
  BY <1>1 DEF LogInv, DrainInOrder, ToldInOrder, RingInOrder
<1>3. /\ evs \in Seq(LogEvents) /\ InOrder(evs)
      /\ \A j \in 1..N : \E i \in 1..Len(drain.events) : evs[j] = drain.events[i]
  BY <1>2, HeededFacts
<1> HIDE DEF evs
<1>4. /\ \A k \in AlertKeys : \A t \in told[k] : NoneBefore(evs, t)
      /\ \A j \in 1..N : evs[j].at \in Nat /\ evs[j].at <= now /\ NoneBefore(ring, evs[j].at)
  <2>1. \A j \in 1..N : evs[j] \in LogEvents
    BY <1>3, ElementOfSeq
  <2> QED
    BY <1>2, <1>3, <2>1 DEF NoneBefore, NoneAfter, LogEvents
<1>5. /\ all \in [AlertKeys -> SUBSET Group]
      /\ \A k \in AlertKeys :
           /\ Tells(all[k], told[k] \cup TimesOf(evs, k, N))
           /\ all[k] = {} => groups[k] = {} /\ TimesOf(evs, k, N) = {}
  <2>1. groups \in [AlertKeys -> SUBSET Group] /\ \A k \in AlertKeys : Tells(groups[k], told[k])
    BY DEF LogInv, GroupsTell
  <2> QED
    BY <1>2, <1>3, <1>4, <2>1, WithEventsTell
<1> HIDE DEF all
<1>6. \A k \in AlertKeys : told'[k] = told[k] \cup TimesOf(evs, k, N)
  <2>1. DOMAIN evs = 1..N
    BY <1>3
  <2> QED
    BY <1>1, <2>1 DEF TimesOf
<1>7. \A k \in AlertKeys : \A t \in told'[k] : t \in Nat /\ t <= now /\ NoneBefore(ring, t)
  BY <1>2, <1>4, <1>6 DEF TimesOf
<1> HIDE DEF N
<1>8. RingInOrder'
  BY <1>1 DEF LogInv, RingInOrder
<1>9. DrainInOrder'
  BY <1>1 DEF DrainInOrder
<1>10. ToldInOrder'
  <2>1. told' \in [AlertKeys -> SUBSET Nat]
    BY <1>1, <1>7
  <2> QED
    BY <1>1, <1>7, <2>1 DEF ToldInOrder
<1>11. ASSUME NEW k \in AlertKeys
       PROVE  /\ groups'[k] \in SUBSET Group
              /\ Tells(groups'[k], told'[k])
              /\ groups'[k] = {} => \A t \in told'[k] : t + EventWindow <= now
  <2>1. /\ groups'[k] = {x \in all[k] : now < x.last + EventWindow}
        /\ all[k] \in SUBSET Group /\ Tells(all[k], told'[k])
    BY <1>1, <1>5, <1>6 DEF RecentOnly
  <2>2. groups'[k] \in SUBSET Group /\ Tells(groups'[k], told'[k])
    BY <2>1 DEF Tells
  <2>3. ASSUME groups'[k] = {}, NEW t \in told'[k] PROVE t + EventWindow <= now
    <3>1. CASE all[k] = {}
      <4>1. groups[k] = {} /\ t \in told[k]
        BY <1>5, <1>6, <2>3, <3>1
      <4> QED
        BY <4>1 DEF LogInv, GroupsTell
    <3>2. CASE all[k] # {}
      <4>1. PICK x \in all[k] : TRUE
        BY <3>2
      <4>2. x.last \in Nat /\ ~(now < x.last + EventWindow) /\ t <= x.last /\ t \in Nat
        BY <1>7, <2>1, <2>3, <4>1 DEF Tells, Group
      <4> QED
        BY <1>2, <4>2, KernelLogAssumption
    <3> QED
      BY <3>1, <3>2
  <2> QED
    BY <2>2, <2>3
<1>12. GroupsTell'
  <2>1. groups' \in [AlertKeys -> SUBSET Group]
    BY <1>1, <1>11
  <2>2. UNCHANGED now
    BY <1>1
  <2> QED
    BY <1>11, <2>1, <2>2 DEF GroupsTell
<1> QED
  BY <1>8, <1>9, <1>10, <1>12 DEF LogInv

LEMMA LogKeepsOrder == LogInv /\ [KernelLogNext]_kernelLogVars => LogInv'
<1> SUFFICES ASSUME LogInv, [KernelLogNext]_kernelLogVars PROVE LogInv'
  OBVIOUS
<1>1. CASE UNCHANGED <<now, ring, drain, groups, told>>
  BY <1>1 DEF LogInv, RingInOrder, DrainInOrder, ToldInOrder, GroupsTell
<1>2. CASE UNCHANGED kernelLogVars \/ \E hidden \in SUBSET Disks : DiskSampleLands(hidden)
  BY <1>1, <1>2 DEF kernelLogVars, DiskSampleLands
<1> QED
  BY <1>2, RingKeeps, ClockKeeps, DrainKeeps, HandleKeeps DEF KernelLogNext

LEMMA LogInvariance == KernelLogSpec => []LogInv
BY LogStart, LogKeepsOrder, PTL DEF KernelLogSpec

(* The alert of a key is up exactly while an event of it that was handled  *)
(* is inside the window, and the group it is drawn from begins with one    *)
(* and ends with the newest, for any ring, cap, window and lines, however  *)
(* reads fail and disks are hidden (kernlog.go:93-113).                    *)
THEOREM GroupsDoTell == KernelLogSpec => []GroupsTellEvents
<1>1. ASSUME LogInv PROVE GroupsTellEvents
  <2> SUFFICES ASSUME NEW k \in AlertKeys
               PROVE  /\ Alerting(k) <=> \E t \in told[k] : now < t + EventWindow
                      /\ \A g \in groups[k] : /\ {g.first, g.last} \subseteq told[k]
                                              /\ \A t \in told[k] : t <= g.last
    BY DEF GroupsTellEvents
  <2>1. /\ Tells(groups[k], told[k]) /\ groups[k] \in SUBSET Group
        /\ groups[k] = {} => \A t \in told[k] : t + EventWindow <= now
        /\ told[k] \in SUBSET Nat /\ now \in Nat /\ EventWindow \in Nat
    BY <1>1, KernelLogAssumption DEF LogInv, RingInOrder, ToldInOrder, GroupsTell
  <2>2. Alerting(k) <=> \E x \in groups[k] : now < x.last + EventWindow
    BY DEF Alerting, RecentOnly
  <2>3. ASSUME NEW x \in groups[k], now < x.last + EventWindow
        PROVE  \E t \in told[k] : now < t + EventWindow
    BY <2>1, <2>3 DEF Tells
  <2>4. ASSUME NEW t \in told[k], now < t + EventWindow
        PROVE  \E x \in groups[k] : now < x.last + EventWindow
    <3>1. groups[k] # {}
      BY <2>1, <2>4
    <3>2. PICK x \in groups[k] : TRUE
      BY <3>1
    <3>3. t <= x.last /\ x.last \in Nat /\ t \in Nat
      BY <2>1, <2>4, <3>2 DEF Tells, Group
    <3> QED
      BY <2>1, <2>4, <3>2, <3>3
  <2> QED
    BY <2>1, <2>2, <2>3, <2>4 DEF Tells
<1>2. LogInv => GroupsTellEvents
  BY <1>1
<1> QED
  BY <1>2, LogInvariance, PTL

(* Every record written is in the ring, in the read under way, counted by  *)
(* one group at most, or gone.                                             *)
Brought == IF drain = NoDrain THEN 0 ELSE Len(drain.events)

Records ==
  /\ now \in 0..MaxNow
  /\ written \in 0..MaxLinesWritten
  /\ Len(ring) <= RingSize
  /\ Brought + Len(ring) <= written
  /\ \A k \in AlertKeys : \A x \in groups[k] :
       1 <= x.count /\ x.count + Brought + Len(ring) <= written

Reader ==
  /\ hiddenDisks \subseteq Disks
  /\ errs \in 0..MaxErrors
  /\ drain # NoDrain => Following

LEMMA ReaderKeeps == Reader /\ [KernelLogNext]_kernelLogVars => Reader'
<1> SUFFICES ASSUME Reader, [KernelLogNext]_kernelLogVars PROVE Reader'
  OBVIOUS
<1>1. CASE UNCHANGED <<hiddenDisks, errs, drain>>
  BY <1>1 DEF Reader, Following
<1>2. ASSUME NEW n \in 0..RingSize, NEW failed \in BOOLEAN, Drain(n, failed) PROVE Reader'
  BY <1>2 DEF Reader, Following, Drain
<1>3. CASE HandleDrain
  <2>1. /\ UNCHANGED hiddenDisks /\ drain' = NoDrain /\ errs' \in {errs + 1, 0}
        /\ errs < MaxErrors /\ errs \in 0..MaxErrors /\ hiddenDisks \subseteq Disks
    BY <1>3 DEF HandleDrain, Reader, Following
  <2>2. errs' \in 0..MaxErrors
    BY <2>1, KernelLogAssumption
  <2> QED
    BY <2>1, <2>2 DEF Reader
<1>4. ASSUME NEW hidden \in SUBSET Disks, DiskSampleLands(hidden) PROVE Reader'
  BY <1>4 DEF Reader, Following, DiskSampleLands
<1> QED
  BY <1>1, <1>2, <1>3, <1>4 DEF KernelLogNext, kernelLogVars, WriteRecord, KernelLogTick

LEMMA RecordsKeep == LogInv /\ Records /\ [KernelLogNext]_kernelLogVars => Records'
<1> SUFFICES ASSUME LogInv, Records, [KernelLogNext]_kernelLogVars PROVE Records'
  OBVIOUS
<1>1. /\ now \in 0..MaxNow /\ written \in 0..MaxLinesWritten /\ Len(ring) <= RingSize
      /\ Brought + Len(ring) <= written
      /\ MaxNow \in Nat /\ MaxLinesWritten \in Nat /\ RingSize \in Nat \ {0}
      /\ ring \in Seq(LogRecord) /\ Len(ring) \in Nat
      /\ groups \in [AlertKeys -> SUBSET Group]
  BY KernelLogAssumption DEF LogInv, RingInOrder, GroupsTell, Records
<1>2. Brought \in Nat
  <2>1. drain # NoDrain => Len(drain.events) \in Nat
    BY DEF LogInv, DrainInOrder
  <2> QED
    BY <2>1 DEF Brought
<1>3. \A k \in AlertKeys : \A x \in groups[k] :
        x.count \in Nat \ {0} /\ x.count + Brought + Len(ring) <= written
  <2>1. \A k \in AlertKeys : \A x \in groups[k] : x.count \in Nat
    BY <1>1 DEF Group
  <2> QED
    BY <2>1 DEF Records
(* The ring and the read hold no more than before, or one record more.     *)
<1>4. ASSUME UNCHANGED groups, now' \in 0..MaxNow, written' \in 0..MaxLinesWritten,
             Len(ring)' \in 0..RingSize, Brought' \in Nat,
             written' - written >= (Brought' + Len(ring)') - (Brought + Len(ring))
      PROVE  Records'
  <2> DEFINE b == Brought + Len(ring)
             c1 == Brought' + Len(ring)'
             w == written
             w1 == written'
  <2>4. b \in Int /\ c1 \in Int /\ w \in Int /\ w1 \in Int /\ w1 - w >= c1 - b /\ b <= w
    BY <1>1, <1>2, <1>4
  <2>5. \A c \in Nat : (c + Brought + Len(ring) = c + b) /\ (c + Brought' + Len(ring)' = c + c1)
    BY <1>1, <1>2, <1>4
  <2> HIDE DEF b, c1, w, w1
  <2>6. c1 <= w1
    BY <2>4
  <2>7. \A c \in Nat : c + b <= w => c + c1 <= w1
    BY <2>4
  <2>1. Brought' + Len(ring)' <= written'
    BY <2>6 DEF c1, w1
  <2>2. ASSUME NEW c \in Nat, c + Brought + Len(ring) <= written
        PROVE  c + Brought' + Len(ring)' <= written'
    <3>1. c + b <= w
      BY <2>2, <2>5 DEF w
    <3>2. c + c1 <= w1
      BY <2>7, <3>1
    <3> QED
      BY <2>5, <3>2 DEF w1
  <2>3. \A k \in AlertKeys : \A x \in groups'[k] :
          1 <= x.count /\ x.count + Brought' + Len(ring)' <= written'
    BY <1>3, <1>4, <2>2
  <2> QED
    BY <1>4, <2>1, <2>3 DEF Records
<1>5. CASE UNCHANGED <<drain, ring, written, groups>> /\ now' \in 0..MaxNow
  BY <1>1, <1>2, <1>4, <1>5 DEF Brought
<1>6. ASSUME NEW line \in Lines, WriteRecord(line) PROVE Records'
  <2>1. /\ UNCHANGED <<now, drain, groups>> /\ written' = written + 1
        /\ written' \in 0..MaxLinesWritten
    BY <1>1, <1>6 DEF WriteRecord
  <2>2. Len(ring)' <= Len(ring) + 1 /\ Len(ring)' \in 0..RingSize
    <3> DEFINE r == [line |-> line, at |-> now]
    <3>1. r \in LogRecord
      BY <1>1 DEF LogRecord
    <3> HIDE DEF r
    <3>2. CASE Len(ring) < RingSize
      <4>1. ring' = Append(ring, r)
        BY <1>6, <3>2 DEF WriteRecord, r
      <4>2. Len(ring') = Len(ring) + 1
        BY <1>1, <3>1, <4>1, AppendProperties
      <4> QED
        BY <1>1, <3>2, <4>2
    <3>3. CASE ~(Len(ring) < RingSize)
      <4>1. ring' = Append(Tail(ring), r) /\ ring # <<>>
        BY <1>1, <1>6, <3>3 DEF WriteRecord, r
      <4>2. Tail(ring) \in Seq(LogRecord) /\ Len(Tail(ring)) = Len(ring) - 1
        BY <1>1, <4>1, HeadTailProperties
      <4>3. Len(ring') = Len(Tail(ring)) + 1
        BY <3>1, <4>1, <4>2, AppendProperties
      <4> QED
        BY <1>1, <4>2, <4>3
    <3> QED
      BY <3>2, <3>3
  <2>3. Brought' = Brought
    BY <2>1 DEF Brought
  <2> QED
    BY <1>1, <1>2, <1>4, <2>1, <2>2, <2>3
<1>7. ASSUME NEW n \in 0..RingSize, NEW failed \in BOOLEAN, Drain(n, failed) PROVE Records'
  <2> DEFINE s == SubSeq(ring, 1, n)
             u == SubSeq(ring, n + 1, Len(ring))
  <2>1. /\ UNCHANGED <<now, groups, written>> /\ ring' = u
        /\ drain = NoDrain /\ drain'.events = Classified(s) /\ drain' # NoDrain
        /\ n \in Nat /\ n <= Drainable
    BY <1>1, <1>7 DEF Drain, NoDrain
  <2>2. n <= Len(ring)
    <3>1. Reads \in Int
      BY KernelLogAssumption DEF Reads
    <3>2. Drainable <= Len(ring) /\ Drainable \in Int
      BY <1>1, <3>1 DEF Drainable
    <3> QED
      BY <1>1, <2>1, <3>2
  <2>3. s \in Seq(LogRecord) /\ Len(s) = n /\ InOrder(s)
    <3>1. /\ s \in Seq(LogRecord) /\ Len(s) = n - 1 + 1
          /\ \A i \in 1..n - 1 + 1 : 1 - 1 + i \in 1..Len(ring) /\ s[i] = ring[1 - 1 + i]
      BY <1>1, <2>1, <2>2, PieceOf
    <3>2. Len(s) = n /\ \A i \in 1..n : i \in 1..Len(ring) /\ s[i] = ring[i]
      BY <2>1, <3>1
    <3> QED
      BY <3>1, <3>2 DEF InOrder, LogInv, RingInOrder
  <2>4. Len(u) = Len(ring) - n
    <3>1. n + 1 \in Nat \ {0} /\ Len(ring) \in Nat /\ n + 1 <= Len(ring) + 1
      BY <1>1, <2>1, <2>2
    <3>2. Len(u) = Len(ring) - (n + 1) + 1
      BY <1>1, <3>1, PieceOf
    <3> QED
      BY <1>1, <2>1, <3>2
  <2> HIDE DEF s, u
  <2>5. Classified(s) \in Seq(LogEvents) /\ Len(Classified(s)) <= n
    BY <2>3, ClassifiedFacts
  <2>6. Brought = 0 /\ Brought' = Len(Classified(s)) /\ Len(Classified(s)) \in Nat
    BY <2>1, <2>5 DEF Brought
  <2>7. Len(ring)' = Len(ring) - n
    BY <2>1, <2>4
  <2> QED
    BY <1>1, <1>4, <2>1, <2>2, <2>5, <2>6, <2>7
<1>8. CASE HandleDrain
  <2> DEFINE evs == Heeded(drain.events)
             all == WithEvents(groups, evs)
             C == written - Brought - Len(ring)
  <2>1. /\ UNCHANGED <<now, ring, written>> /\ drain # NoDrain /\ drain' = NoDrain
        /\ groups' = [k \in AlertKeys |-> RecentOnly(all[k])]
    BY <1>8 DEF HandleDrain
  <2>2. drain.events \in Seq(LogEvents) /\ InOrder(drain.events)
    BY <2>1 DEF LogInv, DrainInOrder
  <2>3. Brought = Len(drain.events) /\ Brought' = 0
    BY <2>1 DEF Brought
  <2>4. evs \in Seq(LogEvents) /\ InOrder(evs) /\ Len(evs) <= Brought /\ Len(evs) \in Nat
    <3>1. /\ evs \in Seq(LogEvents) /\ InOrder(evs) /\ Len(evs) <= Len(drain.events)
      BY <2>2, HeededFacts
    <3> QED
      BY <2>3, <3>1
  <2>5. ASSUME NEW k \in AlertKeys PROVE Sized(all[k], C + Len(evs)) /\ all[k] \in SUBSET Group
    <3>1. \A i \in AlertKeys : Tells(groups[i], told[i]) /\ \A t \in told[i] : NoneBefore(evs, t)
      <4>1. \A j \in 1..Len(evs) : \E i \in 1..Len(drain.events) : evs[j] = drain.events[i]
        BY <2>2, HeededFacts
      <4>2. \A i \in AlertKeys : \A t \in told[i] : NoneBefore(drain.events, t)
        BY <2>1 DEF LogInv, ToldInOrder
      <4> QED
        BY <4>1, <4>2 DEF NoneBefore, LogInv, GroupsTell
    <3>2. told \in [AlertKeys -> SUBSET Nat]
      BY DEF LogInv, ToldInOrder
    <3>3. C \in Nat
      BY <1>1, <1>2
    <3>4. Sized(groups[k], C)
      BY <1>1, <1>2, <1>3 DEF Sized
    <3> HIDE DEF evs, C
    <3>5. /\ all \in [AlertKeys -> SUBSET Group]
          /\ \A c \in Nat : Sized(groups[k], c) => Sized(all[k], c + Len(evs))
      BY <1>1, <2>4, <3>1, <3>2, WithEventsTell
    <3> QED
      BY <3>3, <3>4, <3>5
  <2> HIDE DEF evs, all
  <2>6. ASSUME NEW k \in AlertKeys, NEW x \in groups'[k]
        PROVE  1 <= x.count /\ x.count + Brought' + Len(ring)' <= written'
    <3>1. x \in all[k]
      BY <2>1, <2>6 DEF RecentOnly
    <3>2. x.count \in 1..C + Len(evs) /\ x.count \in Nat
      BY <2>5, <3>1 DEF Sized, Group
    <3>3. Len(ring)' = Len(ring) /\ written' = written
      BY <2>1
    <3> QED
      BY <1>1, <1>2, <2>3, <2>4, <3>2, <3>3
  <2>7. Brought' + Len(ring)' <= written'
    BY <1>1, <1>2, <2>1, <2>3
  <2> QED
    BY <1>1, <2>1, <2>6, <2>7 DEF Records
<1>9. CASE KernelLogTick \/ (\E hidden \in SUBSET Disks : DiskSampleLands(hidden))
           \/ UNCHANGED kernelLogVars
  <2>1. UNCHANGED <<drain, ring, written, groups>> /\ now' \in 0..MaxNow
    BY <1>1, <1>9 DEF KernelLogTick, DiskSampleLands, kernelLogVars
  <2> QED
    BY <1>5, <2>1
<1> QED
  BY <1>6, <1>7, <1>8, <1>9 DEF KernelLogNext

(* The follower keeps its types: the ring no longer than the kernel's, one *)
(* group at most of a key, of one event at least and of no more than were  *)
(* written, and no more failed reads in a row than it gives up after       *)
(* (kernlog.go:54-66, 186-199).                                            *)
THEOREM KernelLogTypeCorrect == KernelLogSpec => []KernelLogTypeOK
<1>1. KernelLogInit => Records /\ Reader
  <2> SUFFICES ASSUME KernelLogInit PROVE Records /\ Reader
    OBVIOUS
  <2>1. /\ now = 0 /\ written = 0 /\ ring = <<>> /\ drain = NoDrain /\ errs = 0
        /\ hiddenDisks = {} /\ groups = [k \in AlertKeys |-> {}]
    BY DEF KernelLogInit
  <2>2. Len(ring) = 0 /\ Brought = 0
    BY <2>1 DEF Brought
  <2> QED
    BY <2>1, <2>2, KernelLogAssumption DEF Records, Reader
<1>2. ASSUME LogInv, Records, Reader PROVE KernelLogTypeOK
  <2>1. ASSUME NEW k \in AlertKeys
        PROVE  /\ told[k] \subseteq 0..now
               /\ groups[k] \in SUBSET [first : 0..now, last : 0..now, count : 1..MaxLinesWritten]
               /\ \A x \in groups[k], y \in groups[k] : x = y
    <3>1. now \in Nat /\ told[k] \in SUBSET Nat /\ \A t \in told[k] : t <= now
      BY <1>2 DEF LogInv, RingInOrder, ToldInOrder
    <3>2. told[k] \subseteq 0..now
      BY <3>1
    <3>3. groups[k] \in SUBSET Group /\ Tells(groups[k], told[k])
      BY <1>2 DEF LogInv, GroupsTell
    <3>4. ASSUME NEW x \in groups[k]
          PROVE  x \in [first : 0..now, last : 0..now, count : 1..MaxLinesWritten]
      <4>1. x \in [first : Nat, last : Nat, count : Nat]
        BY <3>3 DEF Group
      <4>2. x.first \in 0..now /\ x.last \in 0..now
        BY <3>2, <3>3 DEF Tells
      <4>3. Brought \in Nat /\ Len(ring) \in Nat
        BY <1>2 DEF LogInv, RingInOrder, DrainInOrder, Brought
      <4>4. 1 <= x.count /\ x.count + Brought + Len(ring) <= written
            /\ written \in 0..MaxLinesWritten
        BY <1>2 DEF Records
      <4>5. x.count \in 1..MaxLinesWritten
        BY <4>1, <4>3, <4>4, KernelLogAssumption
      <4> QED
        BY <4>1, <4>2, <4>5
    <3> QED
      BY <3>2, <3>3, <3>4 DEF Tells
  <2> QED
    BY <1>2, <2>1 DEF KernelLogTypeOK, Records, Reader
<1>3. LogInv /\ Records /\ Reader => KernelLogTypeOK
  BY <1>2
<1> QED
  BY <1>1, <1>3, LogInvariance, RecordsKeep, ReaderKeeps, PTL DEF KernelLogSpec
==============================================================================
