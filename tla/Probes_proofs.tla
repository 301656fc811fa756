---------------------------- MODULE Probes_proofs ----------------------------
(***************************************************************************)
(* Proofs about the samplers and what is read out of them: that nothing is *)
(* counted twice (Samplers), that a mount said to have gone read-only has  *)
(* (Mounts), that the policies move together (Governor), that the          *)
(* brightness keys get somewhere (Backlight), and what the trends say      *)
(* (Trends).  None is inductive as it stands but the third.                *)
(***************************************************************************)
EXTENDS Samplers, Mounts, Governor, Backlight, Trends, SequenceLemmas

(* Samplers: what an item still owes must also cover the distance of its   *)
(* counter from the previous reading, and from the reading under way once  *)
(* that one is reported.                                                   *)

(* Readings are made and installed under the lock, by one caller.          *)
Locked ==
  /\ \A c \in holder, d \in holder : c = d
  /\ \A c \in Callers : reading[c] # Unread => c \in holder

(* The next reading of a counter that has not gone back can be reported.   *)
LastIsCovered ==
  \A i \in DOMAIN last :
    counter[i] >= last[i] => owed[i] >= counter[i] - last[i]

(* So can the reading under way, and the one after it.                     *)
ReadingIsCovered ==
  \A c \in Callers : reading[c] # Unread =>
    \A i \in DOMAIN reading[c] :
      /\ owed[i] >= Reported(reading[c], i)
      /\ counter[i] >= reading[c][i] =>
           owed[i] - Reported(reading[c], i) >= counter[i] - reading[c][i]

SamplersInv ==
  /\ SamplersTypeOK
  /\ Locked
  /\ NothingCountedTwice
  /\ LastIsCovered
  /\ ReadingIsCovered

LEMMA PartialFacts ==
  ASSUME NEW f \in Partial
  PROVE  /\ DOMAIN f \subseteq Items
         /\ \A i \in DOMAIN f : f[i] \in 0..(Wrap - 1)
  BY DEF Partial

(* A difference of two counts is a natural number, the larger's distance.  *)
LEMMA DeltaFacts ==
  ASSUME NEW a \in 0..(Wrap - 1), NEW b \in 0..(Wrap - 1)
  PROVE  /\ Delta(a, b) \in Nat
         /\ a >= b => Delta(a, b) = a - b
         /\ a < b => Delta(a, b) = 0
  BY SamplersAssumption, SMT DEF Delta

LEMMA ReportedFacts ==
  ASSUME SamplersTypeOK, NEW f \in Partial, NEW i \in Items
  PROVE  /\ Reported(f, i) \in Nat
         /\ i \notin DOMAIN f => Reported(f, i) = 0
         /\ (i \in DOMAIN f /\ i \in DOMAIN last) => Reported(f, i) = Delta(f[i], last[i])
         /\ i \notin DOMAIN last => Reported(f, i) = 0
<1>1. CASE i \in DOMAIN f /\ i \in DOMAIN last
  <2>1. f[i] \in 0..(Wrap - 1) /\ last[i] \in 0..(Wrap - 1)
    BY <1>1, PartialFacts DEF SamplersTypeOK
  <2> QED
    BY <1>1, <2>1, DeltaFacts DEF Reported
<1>2. CASE ~(i \in DOMAIN f /\ i \in DOMAIN last)
  BY <1>2 DEF Reported
<1> QED
  BY <1>1, <1>2

(* A count either goes up by one or starts again from zero.                *)
LEMMA CarryFacts ==
  ASSUME NEW n \in 0..(Wrap - 1)
  PROVE  /\ (n + 1) % Wrap \in 0..(Wrap - 1)
         /\ (n + 1) % Wrap \in {n + 1, 0}
<1>1. Wrap \in Nat /\ Wrap > 0 /\ n \in Nat /\ n < Wrap
  BY SamplersAssumption, SMT
<1>2. CASE n + 1 < Wrap
  BY <1>1, <1>2, SMT
<1>3. CASE n + 1 = Wrap
  BY <1>1, <1>3, SMT
<1> QED
  BY <1>1, <1>2, <1>3, SMT

LEMMA ZeroIsCount == 0 \in 0..(Wrap - 1) /\ 1 % Wrap \in 0..(Wrap - 1)
  BY SamplersAssumption, SMT

LEMMA SamplersStart == SamplersInit => SamplersInv
<1> SUFFICES ASSUME SamplersInit PROVE SamplersInv
  OBVIOUS
<1> USE DEF SamplersInit
<1>1. last \in Partial /\ DOMAIN last = {}
  <2>1. last \in [{} -> 0..(Wrap - 1)] /\ {} \in SUBSET Items
    OBVIOUS
  <2> QED
    BY <2>1 DEF Partial
<1>2. SamplersTypeOK
  BY <1>1, ZeroIsCount, SamplersAssumption, SMT DEF SamplersTypeOK
<1>3. Locked /\ ReadingIsCovered
  BY DEF Locked, ReadingIsCovered
<1>4. NothingCountedTwice
  BY SMT DEF NothingCountedTwice
<1>5. LastIsCovered
  BY <1>1 DEF LastIsCovered
<1> QED
  BY <1>2, <1>3, <1>4, <1>5 DEF SamplersInv

(* Counting, whatever it makes of the one counter, keeps what the item     *)
(* owes ahead of it.                                                       *)
LEMMA CountingKeeps ==
  ASSUME SamplersInv, NEW i \in Items,
         counter' = [counter EXCEPT ![i] = counter'[i]],
         counter'[i] \in 0..(Wrap - 1),
         owed' = [owed EXCEPT ![i] = owed'[i]],
         owed'[i] \in Int,
         \/ counter'[i] = counter[i] + 1 /\ owed'[i] = owed[i] + 1
         \/ counter'[i] = 0 /\ owed'[i] >= owed[i],
         carried' \in 0..MaxCarried,
         UNCHANGED <<holder, reading, last>>
  PROVE  SamplersInv'
<1> USE DEF SamplersInv
<1>1. SamplersTypeOK'
  BY DEF SamplersTypeOK
<1>2. Locked'
  BY DEF Locked
<1>3. \A j \in Items : /\ counter[j] \in 0..(Wrap - 1) /\ owed[j] \in Int /\ owed[j] >= 0
                       /\ j # i => counter'[j] = counter[j] /\ owed'[j] = owed[j]
  BY DEF SamplersTypeOK, NothingCountedTwice
<1>4. NothingCountedTwice'
  BY <1>3, SMT DEF NothingCountedTwice
<1>5. LastIsCovered'
  <2> SUFFICES ASSUME NEW j \in DOMAIN last, counter'[j] >= last[j]
               PROVE  owed'[j] >= counter'[j] - last[j]
    BY DEF LastIsCovered
  <2>1. j \in Items /\ last[j] \in 0..(Wrap - 1)
    BY PartialFacts DEF SamplersTypeOK
  <2>2. counter[j] >= last[j] => owed[j] >= counter[j] - last[j]
    BY DEF LastIsCovered
  <2>3. CASE j # i
    BY <1>3, <2>1, <2>2, <2>3
  <2>4. CASE j = i /\ counter'[i] = 0
    BY <1>3, <2>1, <2>4, SMT
  <2>5. CASE j = i /\ counter'[i] = counter[i] + 1 /\ owed'[i] = owed[i] + 1
    BY <1>3, <2>1, <2>2, <2>5, SMT
  <2> QED
    BY <2>3, <2>4, <2>5
<1>6. ReadingIsCovered'
  <2> SUFFICES ASSUME NEW c \in Callers, reading[c] # Unread, NEW j \in DOMAIN reading[c]
               PROVE  /\ owed'[j] >= Reported(reading[c], j)
                      /\ counter'[j] >= reading[c][j] =>
                           owed'[j] - Reported(reading[c], j) >= counter'[j] - reading[c][j]
    BY DEF ReadingIsCovered, Reported
  <2> DEFINE r == Reported(reading[c], j)
             x == reading[c][j]
  <2>1. reading[c] \in Partial
    BY DEF SamplersTypeOK
  <2>2. j \in Items /\ x \in 0..(Wrap - 1)
    BY <2>1, PartialFacts
  <2>3. r \in Nat
    BY <2>1, <2>2, ReportedFacts
  <2>4. owed[j] >= r /\ (counter[j] >= x => owed[j] - r >= counter[j] - x)
    BY DEF ReadingIsCovered
  <2> HIDE DEF r, x
  <2>5. CASE j # i
    BY <1>3, <2>2, <2>4, <2>5 DEF r, x
  <2>6. CASE j = i /\ counter'[i] = 0 /\ owed'[i] >= owed[i]
    <3>1. owed'[j] >= r /\ (counter'[j] >= x => owed'[j] - r >= counter'[j] - x)
      BY <1>3, <2>2, <2>3, <2>4, <2>6, SMT
    <3> QED
      BY <3>1 DEF r, x
  <2>7. CASE j = i /\ counter'[i] = counter[i] + 1 /\ owed'[i] = owed[i] + 1
    <3>1. owed'[j] >= r /\ (counter'[j] >= x => owed'[j] - r >= counter'[j] - x)
      BY <1>3, <2>2, <2>3, <2>4, <2>7, SMT
    <3> QED
      BY <3>1 DEF r, x
  <2> QED
    BY <2>5, <2>6, <2>7
<1> QED
  BY <1>1, <1>2, <1>4, <1>5, <1>6

LEMMA CarryKeeps ==
  ASSUME SamplersInv, NEW i \in Items, Carry(i)
  PROVE  SamplersInv'
<1>1. counter[i] \in 0..(Wrap - 1) /\ owed[i] \in Int
  BY DEF SamplersInv, SamplersTypeOK
<1>2. /\ counter' = [counter EXCEPT ![i] = counter'[i]]
      /\ counter'[i] = (counter[i] + 1) % Wrap
      /\ owed' = [owed EXCEPT ![i] = owed'[i]]
      /\ owed'[i] = owed[i] + 1
  BY DEF Carry, SamplersInv, SamplersTypeOK
<1>3. carried' \in 0..MaxCarried
  BY SamplersAssumption, SMT DEF Carry, SamplersInv, SamplersTypeOK
<1>4. owed'[i] \in Int /\ owed'[i] >= owed[i]
  BY <1>1, <1>2, SMT
<1>5. /\ counter'[i] \in 0..(Wrap - 1)
      /\ counter'[i] \in {counter[i] + 1, 0}
  BY <1>1, <1>2, CarryFacts
<1>6. UNCHANGED <<holder, reading, last>>
  BY DEF Carry
<1> QED
  BY <1>2, <1>3, <1>4, <1>5, <1>6, CountingKeeps

LEMMA RestartKeeps ==
  ASSUME SamplersInv, NEW i \in Items, Restart(i)
  PROVE  SamplersInv'
<1>1. /\ counter' = [counter EXCEPT ![i] = counter'[i]]
      /\ counter'[i] = 0
      /\ owed' = [owed EXCEPT ![i] = owed'[i]]
      /\ owed'[i] = owed[i] /\ owed[i] \in Int
  BY DEF Restart, SamplersInv, SamplersTypeOK
<1>2. carried' \in 0..MaxCarried /\ owed'[i] >= owed[i]
  BY <1>1, SMT DEF Restart, SamplersInv, SamplersTypeOK
<1>3. UNCHANGED <<holder, reading, last>>
  BY DEF Restart
<1> QED
  BY <1>1, <1>2, <1>3, ZeroIsCount, CountingKeeps

(* The lock changes hands only between two Samples.                        *)
LEMMA LockKeeps ==
  ASSUME SamplersInv, NEW c \in Callers, LockSampler(c) \/ Abandon(c)
  PROVE  SamplersInv'
<1> USE DEF SamplersInv
<1>1. /\ UNCHANGED <<counter, reading, last, carried, owed>>
      /\ \/ holder = {} /\ holder' = {c}
         \/ c \in holder /\ reading[c] = Unread /\ holder' = {}
  BY DEF LockSampler, Abandon
<1>2. SamplersTypeOK'
  BY <1>1 DEF SamplersTypeOK
<1>3. Locked'
  BY <1>1 DEF Locked
<1>4. NothingCountedTwice' /\ LastIsCovered' /\ ReadingIsCovered'
  BY <1>1 DEF NothingCountedTwice, LastIsCovered, ReadingIsCovered, Reported
<1> QED
  BY <1>2, <1>3, <1>4

(* What is read now is covered because the previous reading is.            *)
LEMMA ReadKeeps ==
  ASSUME SamplersInv, NEW c \in Callers, NEW present \in SUBSET Items,
         ReadCounters(c, present)
  PROVE  SamplersInv'
<1> USE DEF SamplersInv
<1> DEFINE new == [i \in present |-> counter[i]]
<1>1. /\ c \in holder
      /\ reading' = [reading EXCEPT ![c] = new]
      /\ UNCHANGED <<counter, holder, last, carried, owed>>
  BY DEF ReadCounters, MayRead
<1>2. new \in Partial
  BY DEF Partial, SamplersTypeOK
<1>3. reading'[c] \in {new, Unread} /\ \A d \in Callers : d # c => reading'[d] = reading[d]
  BY <1>1 DEF SamplersTypeOK
<1>4. SamplersTypeOK'
  BY <1>1, <1>2, <1>3 DEF SamplersTypeOK
<1>5. Locked'
  BY <1>1, <1>3 DEF Locked
<1>6. NothingCountedTwice' /\ LastIsCovered'
  BY <1>1 DEF NothingCountedTwice, LastIsCovered
<1>7. ReadingIsCovered'
  <2> SUFFICES ASSUME NEW d \in Callers, reading'[d] # Unread, NEW i \in DOMAIN reading'[d]
               PROVE  /\ owed[i] >= Reported(reading'[d], i)
                      /\ counter[i] >= reading'[d][i] =>
                           owed[i] - Reported(reading'[d], i) >= counter[i] - reading'[d][i]
    BY <1>1 DEF ReadingIsCovered, Reported
  <2>1. CASE d # c
    BY <1>3, <2>1 DEF ReadingIsCovered
  <2>2. CASE d = c
    <3>1. reading'[d] = new /\ i \in Items /\ new[i] = counter[i]
      BY <1>3, <2>2
    <3>2. /\ counter[i] \in 0..(Wrap - 1) /\ owed[i] \in Int /\ owed[i] >= 0
      BY <3>1 DEF SamplersTypeOK, NothingCountedTwice
    <3>3. owed[i] >= Reported(new, i) /\ Reported(new, i) \in Nat
      <4>1. CASE i \notin DOMAIN last
        BY <1>2, <3>1, <3>2, <4>1, ReportedFacts, SMT
      <4>2. CASE i \in DOMAIN last
        <5>1. last[i] \in 0..(Wrap - 1)
          BY <4>2, PartialFacts DEF SamplersTypeOK
        <5>2. Reported(new, i) = Delta(counter[i], last[i])
          BY <1>2, <2>2, <3>1, <4>2, ReportedFacts
        <5>3. counter[i] >= last[i] => owed[i] >= counter[i] - last[i]
          BY <4>2 DEF LastIsCovered
        <5> QED
          BY <3>2, <5>1, <5>2, <5>3, DeltaFacts, SMT
      <4> QED
        BY <4>1, <4>2
    <3> HIDE DEF new
    <3> QED
      BY <3>1, <3>2, <3>3, SMT
  <2> QED
    BY <2>1, <2>2
<1> QED
  BY <1>4, <1>5, <1>6, <1>7

LEMMA InstallKeeps ==
  ASSUME SamplersInv, NEW c \in Callers, Install(c)
  PROVE  SamplersInv'
<1> USE DEF SamplersInv
<1> DEFINE r == reading[c]
<1>1. /\ c \in holder /\ r # Unread
      /\ owed' = [i \in Items |-> owed[i] - Reported(r, i)]
      /\ last' = r
      /\ reading' = [reading EXCEPT ![c] = Unread]
      /\ holder' = {}
      /\ UNCHANGED <<counter, carried>>
  BY DEF Install
<1>2. r \in Partial
  BY <1>1 DEF SamplersTypeOK
<1>3. \A d \in Callers : reading'[d] = Unread
  BY <1>1 DEF Locked, SamplersTypeOK
<1>4. \A i \in Items : /\ owed'[i] = owed[i] - Reported(r, i)
                       /\ owed[i] \in Int /\ owed[i] >= 0 /\ Reported(r, i) \in Nat
  BY <1>1, <1>2, ReportedFacts DEF SamplersTypeOK, NothingCountedTwice
<1>5. \A i \in DOMAIN r : /\ owed[i] >= Reported(r, i)
                          /\ counter[i] >= r[i] => owed[i] - Reported(r, i) >= counter[i] - r[i]
  BY <1>1 DEF ReadingIsCovered
<1>6. DOMAIN r \subseteq Items
  BY <1>2, PartialFacts
<1>7. SamplersTypeOK'
  <2>1. owed' \in [Items -> Int]
    BY <1>1, <1>4, SMT
  <2> QED
    BY <1>1, <1>2, <1>3, <2>1 DEF SamplersTypeOK
<1>8. Locked' /\ ReadingIsCovered'
  BY <1>1, <1>3 DEF Locked, ReadingIsCovered
<1>9. NothingCountedTwice'
  <2> SUFFICES ASSUME NEW i \in Items PROVE owed'[i] >= 0
    BY DEF NothingCountedTwice
  <2>1. CASE i \in DOMAIN r
    BY <1>4, <1>5, <2>1, SMT
  <2>2. CASE i \notin DOMAIN r
    <3>1. Reported(r, i) = 0
      BY <1>2, <2>2, ReportedFacts
    <3> QED
      BY <1>4, <3>1, SMT
  <2> QED
    BY <2>1, <2>2
<1>10. LastIsCovered'
  BY <1>1, <1>4, <1>5, <1>6 DEF LastIsCovered
<1> QED
  BY <1>7, <1>8, <1>9, <1>10

LEMMA SamplersStutter == SamplersInv /\ UNCHANGED samplerVars => SamplersInv'
  BY DEF SamplersInv, samplerVars, SamplersTypeOK, Locked, NothingCountedTwice, LastIsCovered,
         ReadingIsCovered, Reported

LEMMA SamplersKeep == SamplersInv /\ [SamplersNext]_samplerVars => SamplersInv'
<1> SUFFICES ASSUME SamplersInv, [SamplersNext]_samplerVars PROVE SamplersInv'
  OBVIOUS
<1>1. ASSUME NEW i \in Items, Carry(i) PROVE SamplersInv'
  BY <1>1, CarryKeeps
<1>2. ASSUME NEW i \in Items, Restart(i) PROVE SamplersInv'
  BY <1>2, RestartKeeps
<1>3. ASSUME NEW c \in Callers, LockSampler(c) \/ Abandon(c) PROVE SamplersInv'
  BY <1>3, LockKeeps
<1>4. ASSUME NEW c \in Callers, NEW present \in SUBSET Items, ReadCounters(c, present)
      PROVE  SamplersInv'
  BY <1>4, ReadKeeps
<1>5. ASSUME NEW c \in Callers, Install(c) PROVE SamplersInv'
  BY <1>5, InstallKeeps
<1>6. CASE UNCHANGED samplerVars
  BY <1>6, SamplersStutter
<1> QED
  BY <1>1, <1>2, <1>3, <1>4, <1>5, <1>6 DEF SamplersNext

(* No reading, however Samples overlap and counters wrap, restart or       *)
(* disappear, reports more than was counted since the previous one         *)
(* (cpu.go, net.go, disk.go, procs.go with util.go:50-60).                 *)
THEOREM NothingTwice == SamplersSpec => []NothingCountedTwice
<1>1. SamplersInv => NothingCountedTwice
  BY DEF SamplersInv
<1> QED
  BY <1>1, SamplersStart, SamplersKeep, PTL DEF SamplersSpec

(* The samplers keep their types, whatever wraps, restarts or disappears;  *)
(* one caller at most is between its locking and its unlocking.            *)
THEOREM SamplersTypeCorrect == SamplersSpec => []SamplersTypeOK
<1>1. SamplersInv => SamplersTypeOK
  BY DEF SamplersInv
<1> QED
  BY <1>1, SamplersStart, SamplersKeep, PTL DEF SamplersSpec

------------------------------------------------------------------------------
(* Mounts.  A mount that is not read-only, wherever it is in the stack of  *)
(* its path or in the listing a sample works from, is on record as having  *)
(* been read-write; on a path that was never mounted over, the listing and *)
(* the live state speak of the same filesystem.                            *)
MountRecord == [dev : Devices, ro : BOOLEAN]
DiskRecord == [dev : Devices, ro : BOOLEAN, flagged : BOOLEAN]
Evident(p, m) == m.ro \/ <<p, m.dev>> \in wasRW

MountsTyped ==
  /\ stack \in [Points -> Seq(MountRecord)]
  /\ DOMAIN listing \subseteq Points
  /\ \A p \in DOMAIN listing : listing[p] \in MountRecord
  /\ sawRW \in [Points -> SUBSET Devices]
  /\ disks \in [Points -> SUBSET DiskRecord]

StacksEvident == \A p \in Points : \A i \in 1..Len(stack[p]) : Evident(p, stack[p][i])
ListingEvident == \A p \in DOMAIN listing : Evident(p, listing[p])

ListingIsTop ==
  \A p \in Points \ blurred :
    /\ Len(stack[p]) <= 1
    /\ p \in DOMAIN listing => Len(stack[p]) = 1 /\ stack[p][1].dev = listing[p].dev

MemoryEvident ==
  \A p \in Points \ blurred : \A dev \in sawRW[p] : <<p, dev>> \in wasRW

(* What a sample found writable, or flagged, the next one remembers.       *)
Remembers(p, d) == d.dev \in sawRW[p] \/ (d.ro /\ p \in FstabRW)
DisksRemembered ==
  \A p \in Points : \A d \in disks[p] :
    /\ \A e \in disks[p] : d = e
    /\ ~d.ro \/ d.flagged => Remembers(p, d)

MountsInv ==
  /\ MountsTyped
  /\ StacksEvident
  /\ ListingEvident
  /\ ListingIsTop
  /\ MemoryEvident
  /\ DisksRemembered
  /\ FlagHasEvidence

LEMMA MountsStart == MountsInit => MountsInv
<1> SUFFICES ASSUME MountsInit PROVE MountsInv
  OBVIOUS
<1>1. DOMAIN listing = {}
  BY DEF MountsInit, NoList
<1>2. MountsTyped
  BY <1>1 DEF MountsInit, MountsTyped
<1>3. /\ \A p \in Points : stack[p] = <<>> /\ sawRW[p] = {} /\ disks[p] = {}
      /\ Len(<<>>) = 0
  BY DEF MountsInit
<1> QED
  BY <1>1, <1>2, <1>3
     DEF MountsInv, StacksEvident, ListingEvident, ListingIsTop, MemoryEvident,
         DisksRemembered, FlagHasEvidence

(* The steps of the world: what the samplers hold stays, and the record of *)
(* what was read-write only grows.                                         *)
LEMMA WorldKeeps ==
  ASSUME MountsInv, listing' = listing, sawRW' = sawRW, disks' = disks,
         wasRW \subseteq wasRW', blurred \subseteq blurred',
         stack' \in [Points -> Seq(MountRecord)], StacksEvident', ListingIsTop'
  PROVE  MountsInv'
<1>1. MountsTyped'
  BY DEF MountsInv, MountsTyped
<1>2. ListingEvident'
  BY DEF MountsInv, ListingEvident, Evident
<1>3. MemoryEvident' /\ FlagHasEvidence'
  BY DEF MountsInv, MemoryEvident, FlagHasEvidence
<1>4. DisksRemembered'
  BY DEF MountsInv, DisksRemembered, Remembers
<1> QED
  BY <1>1, <1>2, <1>3, <1>4 DEF MountsInv

LEMMA MountKeeps ==
  ASSUME MountsInv, NEW p \in Points, NEW dev \in Devices, NEW ro \in BOOLEAN, Mount(p, dev, ro)
  PROVE  MountsInv'
<1> DEFINE m == [dev |-> dev, ro |-> ro]
<1>1. /\ listing' = listing /\ sawRW' = sawRW /\ disks' = disks
      /\ stack' = [stack EXCEPT ![p] = Append(@, m)]
      /\ wasRW' = IF ro THEN wasRW ELSE wasRW \cup {<<p, dev>>}
      /\ blurred' = IF Sampling \/ stack[p] # <<>> THEN blurred \cup {p} ELSE blurred
  BY DEF Mount
<1>2. m \in MountRecord /\ Evident(p, m)' /\ stack[p] \in Seq(MountRecord)
      /\ stack \in [Points -> Seq(MountRecord)]
  BY <1>1 DEF MountRecord, Evident, MountsInv, MountsTyped
<1> HIDE DEF m
<1>3. /\ Append(stack[p], m) \in Seq(MountRecord)
      /\ Len(Append(stack[p], m)) = Len(stack[p]) + 1
      /\ \A i \in 1..Len(stack[p]) : Append(stack[p], m)[i] = stack[p][i]
      /\ Append(stack[p], m)[Len(stack[p]) + 1] = m
      /\ Len(stack[p]) \in Nat
      /\ Len(stack[p]) = 0 <=> stack[p] = <<>>
  BY <1>2, AppendProperties, EmptySeq
<1>4. stack'[p] = Append(stack[p], m) /\ \A q \in Points : q # p => stack'[q] = stack[q]
  BY <1>1, <1>2
<1>5. stack' \in [Points -> Seq(MountRecord)]
  BY <1>1, <1>2, <1>3
<1>6. StacksEvident'
  <2>1. ASSUME NEW q \in Points, NEW i \in 1..Len(stack'[q]) PROVE Evident(q, stack[q][i])'
    <3>1. CASE q = p /\ i = Len(stack[p]) + 1
      BY <1>2, <1>3, <1>4, <3>1
    <3>2. CASE q = p /\ i # Len(stack[p]) + 1
      <4>1. i \in 1..Len(stack[p])
        BY <1>3, <1>4, <3>2
      <4> QED
        BY <1>1, <1>3, <1>4, <3>2, <4>1 DEF MountsInv, StacksEvident, Evident
    <3>3. CASE q # p
      BY <1>1, <1>4, <3>3 DEF MountsInv, StacksEvident, Evident
    <3> QED
      BY <3>1, <3>2, <3>3
  <2> QED
    BY <2>1 DEF StacksEvident
<1>7. ListingIsTop'
  <2>1. ASSUME NEW q \in Points \ blurred'
        PROVE  /\ Len(stack'[q]) <= 1
               /\ q \in DOMAIN listing => Len(stack'[q]) = 1 /\ stack'[q][1].dev = listing[q].dev
    <3>1. CASE q = p
      <4>1. ~Sampling /\ stack[p] = <<>>
        BY <1>1, <3>1
      <4>2. Len(stack'[q]) = 1 /\ DOMAIN listing = {}
        BY <1>3, <1>4, <3>1, <4>1 DEF Sampling, NoList
      <4> QED
        BY <4>2
    <3>2. CASE q # p
      BY <1>1, <1>4, <3>2 DEF MountsInv, ListingIsTop
    <3> QED
      BY <3>1, <3>2
  <2> QED
    BY <1>1, <2>1 DEF ListingIsTop
<1> QED
  BY <1>1, <1>5, <1>6, <1>7, WorldKeeps

LEMMA UnmountKeeps ==
  ASSUME MountsInv, NEW p \in Points, Unmount(p)
  PROVE  MountsInv'
<1>1. /\ listing' = listing /\ sawRW' = sawRW /\ disks' = disks /\ wasRW' = wasRW
      /\ stack[p] # <<>>
      /\ stack' = [stack EXCEPT ![p] = Front(@)]
      /\ blurred' = IF Sampling THEN blurred \cup {p} ELSE blurred
  BY DEF Unmount
<1>2. stack \in [Points -> Seq(MountRecord)] /\ stack[p] \in Seq(MountRecord)
  BY DEF MountsInv, MountsTyped
<1>3. /\ Front(stack[p]) \in Seq(MountRecord)
      /\ Len(Front(stack[p])) = Len(stack[p]) - 1
      /\ \A i \in 1..Len(stack[p]) - 1 : Front(stack[p])[i] = stack[p][i]
      /\ Len(stack[p]) \in Nat
  BY <1>1, <1>2, FrontSeq
<1>4. stack'[p] = Front(stack[p]) /\ \A q \in Points : q # p => stack'[q] = stack[q]
  BY <1>1, <1>2
<1>5. stack' \in [Points -> Seq(MountRecord)]
  BY <1>1, <1>2, <1>3
<1>6. StacksEvident'
  BY <1>1, <1>3, <1>4 DEF MountsInv, StacksEvident, Evident
<1>7. ListingIsTop'
  <2>1. ASSUME NEW q \in Points \ blurred'
        PROVE  /\ Len(stack'[q]) <= 1
               /\ q \in DOMAIN listing => Len(stack'[q]) = 1 /\ stack'[q][1].dev = listing[q].dev
    <3>1. q \in Points \ blurred /\ Len(stack[q]) <= 1
      BY <1>1 DEF MountsInv, ListingIsTop
    <3>2. CASE q = p
      <4>1. DOMAIN listing = {}
        BY <1>1, <3>2 DEF Sampling, NoList
      <4> QED
        BY <1>3, <1>4, <3>1, <3>2, <4>1
    <3>3. CASE q # p
      BY <1>1, <1>4, <3>1, <3>3 DEF MountsInv, ListingIsTop
    <3> QED
      BY <3>2, <3>3
  <2> QED
    BY <1>1, <2>1 DEF ListingIsTop
<1> QED
  BY <1>1, <1>5, <1>6, <1>7, WorldKeeps

LEMMA UnlockKeeps ==
  ASSUME MountsInv, NEW p \in Points, Unlock(p)
  PROVE  MountsInv'
<1> DEFINE n == Len(stack[p])
<1>1. /\ listing' = listing /\ sawRW' = sawRW /\ disks' = disks /\ blurred' = blurred
      /\ stack[p] # <<>>
      /\ stack' = [stack EXCEPT ![p][n].ro = FALSE]
      /\ wasRW' = wasRW \cup {<<p, Last(stack[p]).dev>>}
  BY DEF Unlock
<1>2. stack \in [Points -> Seq(MountRecord)] /\ stack[p] \in Seq(MountRecord)
  BY DEF MountsInv, MountsTyped
<1>3. n \in 1..Len(stack[p]) /\ stack[p][n] \in MountRecord /\ Last(stack[p]) = stack[p][n]
  BY <1>1, <1>2, EmptySeq, LenProperties DEF Last
<1>4. \A q \in Points : q # p => stack'[q] = stack[q]
  BY <1>1, <1>2
<1>5. /\ stack'[p] = [stack[p] EXCEPT ![n].ro = FALSE]
      /\ Len(stack'[p]) = Len(stack[p]) /\ stack'[p] \in Seq(MountRecord)
      /\ \A i \in 1..Len(stack[p]) : i # n => stack'[p][i] = stack[p][i]
      /\ stack'[p][n] = [stack[p][n] EXCEPT !.ro = FALSE]
  <2>1. stack'[p] = [stack[p] EXCEPT ![n] = [stack[p][n] EXCEPT !.ro = FALSE]]
    BY <1>1, <1>2
  <2>2. [stack[p][n] EXCEPT !.ro = FALSE] \in MountRecord
    BY <1>3 DEF MountRecord
  <2>3. n \in 1..Len(stack[p])
    BY <1>3
  <2> DEFINE s == stack[p]
             e == [stack[p][n] EXCEPT !.ro = FALSE]
  <2>4. s \in Seq(MountRecord) /\ e \in MountRecord /\ n \in 1..Len(s)
    BY <1>2, <2>2, <2>3
  <2> HIDE DEF n, s, e
  <2>5. /\ [s EXCEPT ![n] = e] \in Seq(MountRecord) /\ Len([s EXCEPT ![n] = e]) = Len(s)
        /\ \A i \in 1..Len(s) : [s EXCEPT ![n] = e][i] = IF i = n THEN e ELSE s[i]
    BY <2>4, ExceptSeq
  <2> QED
    BY <2>1, <2>4, <2>5 DEF s, e
<1> HIDE DEF n
<1>6. stack'[p][n].dev = stack[p][n].dev
  BY <1>3, <1>5 DEF MountRecord
<1>7. stack' \in [Points -> Seq(MountRecord)]
  BY <1>1, <1>2, <1>4, <1>5
<1>8. StacksEvident'
  <2>1. ASSUME NEW q \in Points, NEW i \in 1..Len(stack'[q]) PROVE Evident(q, stack[q][i])'
    <3>1. CASE q = p /\ i = n
      BY <1>1, <1>3, <1>6, <3>1 DEF Evident
    <3>2. CASE q = p /\ i # n
      BY <1>1, <1>5, <3>2 DEF MountsInv, StacksEvident, Evident
    <3>3. CASE q # p
      BY <1>1, <1>4, <3>3 DEF MountsInv, StacksEvident, Evident
    <3> QED
      BY <3>1, <3>2, <3>3
  <2> QED
    BY <2>1 DEF StacksEvident
<1>9. ListingIsTop'
  <2>1. ASSUME NEW q \in Points
        PROVE  Len(stack'[q]) = Len(stack[q])
               /\ (Len(stack[q]) = 1 => stack'[q][1].dev = stack[q][1].dev)
    <3>1. CASE q = p
      <4>1. Len(stack'[p]) = Len(stack[p])
        BY <1>5
      <4>2. Len(stack[p]) = 1 => n = 1
        BY <1>3
      <4> QED
        BY <1>6, <3>1, <4>1, <4>2
    <3>2. CASE q # p
      BY <1>4, <3>2
    <3> QED
      BY <3>1, <3>2
  <2> QED
    BY <1>1, <2>1 DEF MountsInv, ListingIsTop
<1> QED
  BY <1>1, <1>7, <1>8, <1>9, WorldKeeps

LEMMA LockKeepsMounts ==
  ASSUME MountsInv, stack' = stack, UNCHANGED <<listing, sawRW, disks, wasRW, blurred>>
  PROVE  MountsInv'
<1>1. StacksEvident' /\ ListingIsTop' /\ stack' \in [Points -> Seq(MountRecord)]
  BY DEF MountsInv, StacksEvident, Evident, ListingIsTop, MountsTyped
<1> QED
  BY <1>1, WorldKeeps

LEMMA ListKeeps == MountsInv /\ ListPartitions => MountsInv'
<1> SUFFICES ASSUME MountsInv, ListPartitions PROVE MountsInv'
  OBVIOUS
<1>1. /\ listing' = [p \in {q \in Points : stack[q] # <<>>} |-> Head(stack[p])]
      /\ stack' = stack /\ sawRW' = sawRW /\ disks' = disks /\ wasRW' = wasRW
      /\ blurred' = blurred
  BY DEF ListPartitions
<1>2. DOMAIN listing' = {q \in Points : stack[q] # <<>>}
  BY <1>1
<1>3. ASSUME NEW p \in DOMAIN listing'
      PROVE  /\ listing'[p] = stack[p][1] /\ 1 \in 1..Len(stack[p])
             /\ listing'[p] \in MountRecord /\ Len(stack[p]) \in Nat
  <2>1. p \in Points /\ stack[p] # <<>> /\ stack[p] \in Seq(MountRecord)
    BY <1>2 DEF MountsInv, MountsTyped
  <2> QED
    BY <1>1, <2>1, EmptySeq
<1>4. MountsTyped'
  BY <1>1, <1>2, <1>3 DEF MountsInv, MountsTyped
<1>5. ListingEvident'
  BY <1>1, <1>2, <1>3 DEF MountsInv, ListingEvident, StacksEvident, Evident
<1>6. ListingIsTop'
  <2>1. ASSUME NEW p \in Points \ blurred, p \in DOMAIN listing'
        PROVE  Len(stack[p]) = 1 /\ stack[p][1].dev = listing'[p].dev
    <3>1. Len(stack[p]) <= 1
      BY DEF MountsInv, ListingIsTop
    <3>2. Len(stack[p]) \in Nat /\ 1 \in 1..Len(stack[p]) /\ listing'[p] = stack[p][1]
      BY <1>3, <2>1
    <3>3. \A n \in Nat : n <= 1 /\ 1 \in 1..n => n = 1
      OBVIOUS
    <3>4. Len(stack[p]) = 1
      BY <3>1, <3>2, <3>3, Zenon
    <3> QED
      BY <3>2, <3>4
  <2> QED
    BY <1>1, <2>1 DEF MountsInv, ListingIsTop
<1>7. StacksEvident' /\ MemoryEvident' /\ FlagHasEvidence' /\ DisksRemembered'
  BY <1>1 DEF MountsInv, StacksEvident, Evident, MemoryEvident, FlagHasEvidence,
              DisksRemembered, Remembers
<1> QED
  BY <1>4, <1>5, <1>6, <1>7 DEF MountsInv

(* What Sample makes of one readable mount.                                *)
IsReport(d, p, ro) ==
  /\ d \in DiskRecord
  /\ d.dev = listing[p].dev
  /\ d.ro = ro
  /\ d.flagged <=> Remounted(p, listing[p].dev, ro)

LEMMA SampleOf ==
  ASSUME MountsInv, NEW liveOK \in BOOLEAN, NEW readable \in SUBSET DOMAIN listing,
         SampleDisks(liveOK, readable), NEW p \in Points
  PROVE  \/ p \notin readable /\ disks'[p] = {} /\ sawRW'[p] = sawRW[p]
         \/ \E ro \in BOOLEAN, d \in DiskRecord :
              /\ p \in DOMAIN listing /\ listing[p].dev \in Devices
              /\ ro <=> ReadOnly(p, liveOK)
              /\ IsReport(d, p, ro)
              /\ disks'[p] = {d}
              /\ sawRW'[p] = IF ro THEN sawRW[p] ELSE {d.dev}
<1>1. CASE p \notin readable
  BY <1>1 DEF SampleDisks
<1>2. CASE p \in readable
  <2>1. p \in DOMAIN listing /\ listing[p] \in MountRecord /\ listing[p].ro \in BOOLEAN
    BY <1>2 DEF MountsInv, MountsTyped, MountRecord
  <2>2. ReadOnly(p, liveOK) \in BOOLEAN
    <3>1. CASE liveOK /\ stack[p] # <<>>
      BY <3>1 DEF ReadOnly, LiveReadOnly
    <3>2. CASE ~(liveOK /\ stack[p] # <<>>)
      BY <2>1, <3>2, Zenon DEF ReadOnly
    <3> QED
      BY <3>1, <3>2
  <2> DEFINE ro == ReadOnly(p, liveOK)
             fl == Remounted(p, listing[p].dev, ro)
             d == [dev |-> listing[p].dev, ro |-> ro, flagged |-> fl]
  <2>3. fl \in BOOLEAN
    BY DEF Remounted
  <2>4. /\ d.dev = listing[p].dev /\ d.ro = ro /\ d.flagged = fl
        /\ disks'[p] = {d} /\ sawRW'[p] = Saw(p, listing[p].dev, ro)
    BY <1>2, Zenon DEF SampleDisks
  <2>5. listing[p].dev \in Devices
    BY <2>1 DEF MountRecord
  <2> HIDE DEF ro, fl
  <2>6. d \in DiskRecord
    BY <2>2, <2>3, <2>5 DEF DiskRecord, ro
  <2> HIDE DEF d
  <2>7. IsReport(d, p, ro)
    BY <2>4, <2>6, Zenon DEF IsReport, fl
  <2>8. sawRW'[p] = IF ro THEN sawRW[p] ELSE {d.dev}
    BY <2>4 DEF Saw
  <2>9. ro \in BOOLEAN
    BY <2>2 DEF ro
  <2> QED
    BY <2>1, <2>4, <2>5, <2>6, <2>7, <2>8, <2>9 DEF ro
<1> QED
  BY <1>1, <1>2

LEMMA ReadOnlyEvident ==
  ASSUME MountsInv, NEW p \in Points \ blurred, p \in DOMAIN listing,
         NEW liveOK \in BOOLEAN, ~ReadOnly(p, liveOK)
  PROVE  <<p, listing[p].dev>> \in wasRW
<1>1. CASE liveOK /\ stack[p] # <<>>
  <2>1. Len(stack[p]) = 1 /\ stack[p][1].dev = listing[p].dev
    BY DEF MountsInv, ListingIsTop
  <2>2. ~stack[p][1].ro
    BY <1>1, <2>1 DEF ReadOnly, LiveReadOnly, Last
  <2> QED
    BY <2>1, <2>2 DEF MountsInv, StacksEvident, Evident
<1>2. CASE ~(liveOK /\ stack[p] # <<>>)
  BY <1>2 DEF ReadOnly, MountsInv, ListingEvident, Evident
<1> QED
  BY <1>1, <1>2

LEMMA SampleKeeps ==
  ASSUME MountsInv, NEW liveOK \in BOOLEAN, NEW readable \in SUBSET DOMAIN listing,
         SampleDisks(liveOK, readable)
  PROVE  MountsInv'
<1>1. /\ stack' = stack /\ wasRW' = wasRW /\ blurred' = blurred /\ DOMAIN listing' = {}
      /\ DOMAIN disks' = Points /\ DOMAIN sawRW' = Points
      /\ disks' = [p \in Points |-> disks'[p]] /\ sawRW' = [p \in Points |-> sawRW'[p]]
  BY DEF SampleDisks, NoList
<1>2. ASSUME NEW p \in Points
      PROVE  /\ disks'[p] \in SUBSET DiskRecord /\ sawRW'[p] \in SUBSET Devices
             /\ \A d \in disks'[p] :
                  /\ \A e \in disks'[p] : d = e
                  /\ ~d.ro \/ d.flagged => Remembers(p, d)'
  <2>1. sawRW[p] \in SUBSET Devices
    BY DEF MountsInv, MountsTyped
  <2>2. CASE p \notin readable /\ disks'[p] = {} /\ sawRW'[p] = sawRW[p]
    BY <2>1, <2>2
  <2>3. ASSUME NEW ro \in BOOLEAN, NEW d \in DiskRecord, listing[p].dev \in Devices,
               IsReport(d, p, ro), disks'[p] = {d},
               sawRW'[p] = IF ro THEN sawRW[p] ELSE {d.dev}
        PROVE  /\ disks'[p] \in SUBSET DiskRecord /\ sawRW'[p] \in SUBSET Devices
               /\ \A x \in disks'[p] :
                    /\ \A e \in disks'[p] : x = e
                    /\ ~x.ro \/ x.flagged => Remembers(p, x)'
    <3>1. d.flagged => ro /\ (d.dev \in sawRW[p] \/ p \in FstabRW)
      BY <2>3 DEF IsReport, Remounted, SeenHere
    <3>2. d.dev \in Devices /\ (d.ro <=> ro)
      BY <2>3 DEF IsReport
    <3>3. sawRW'[p] \in SUBSET Devices
      BY <2>1, <2>3, <3>2
    <3>4. ~d.ro \/ d.flagged => Remembers(p, d)'
      BY <2>3, <3>1, <3>2 DEF Remembers
    <3> QED
      BY <2>3, <3>3, <3>4
  <2> QED
    BY <2>2, <2>3, SampleOf
<1>3. MountsTyped'
  BY <1>1, <1>2 DEF MountsInv, MountsTyped
<1>4. DisksRemembered'
  BY <1>2 DEF DisksRemembered
<1>5. ASSUME NEW p \in Points \ blurred
      PROVE  /\ \A dev \in sawRW'[p] : <<p, dev>> \in wasRW
             /\ \A d \in disks'[p] : d.flagged => <<p, d.dev>> \in wasRW \/ p \in FstabRW
  <2>1. \A dev \in sawRW[p] : <<p, dev>> \in wasRW
    BY DEF MountsInv, MemoryEvident
  <2>2. CASE p \notin readable /\ disks'[p] = {} /\ sawRW'[p] = sawRW[p]
    BY <2>1, <2>2
  <2>3. ASSUME NEW ro \in BOOLEAN, NEW d \in DiskRecord, p \in DOMAIN listing,
               ro <=> ReadOnly(p, liveOK), IsReport(d, p, ro), disks'[p] = {d},
               sawRW'[p] = IF ro THEN sawRW[p] ELSE {d.dev}
        PROVE  /\ \A dev \in sawRW'[p] : <<p, dev>> \in wasRW
               /\ \A x \in disks'[p] : x.flagged => <<p, x.dev>> \in wasRW \/ p \in FstabRW
    <3>1. ~ro => <<p, d.dev>> \in wasRW
      BY <2>3, ReadOnlyEvident DEF IsReport
    <3>2. d.flagged => d.dev \in sawRW[p] \/ p \in FstabRW
      BY <2>3 DEF IsReport, Remounted, SeenHere
    <3> QED
      BY <2>1, <2>3, <3>1, <3>2
  <2> QED
    BY <2>2, <2>3, SampleOf
<1>6. MemoryEvident' /\ FlagHasEvidence'
  BY <1>1, <1>5 DEF MemoryEvident, FlagHasEvidence
<1>7. StacksEvident' /\ ListingEvident' /\ ListingIsTop'
  BY <1>1 DEF MountsInv, StacksEvident, Evident, ListingEvident, ListingIsTop
<1> QED
  BY <1>3, <1>4, <1>6, <1>7 DEF MountsInv

LEMMA MountsKeep == MountsInv /\ [MountsNext]_mountsVars => MountsInv'
<1> SUFFICES ASSUME MountsInv, [MountsNext]_mountsVars PROVE MountsInv'
  OBVIOUS
<1>1. ASSUME NEW dev \in Devices, Lock(dev) PROVE MountsInv'
  BY <1>1, LockKeepsMounts DEF Lock
<1>2. CASE UNCHANGED mountsVars
  BY <1>2, LockKeepsMounts DEF mountsVars
<1> QED
  BY <1>1, <1>2, MountKeeps, UnmountKeeps, UnlockKeeps, ListKeeps, SampleKeeps DEF MountsNext

LEMMA MountsInvariance == MountsSpec => []MountsInv
BY MountsStart, MountsKeep, PTL DEF MountsSpec

(* No false alarm: what is reported as remounted read-only was read-write  *)
(* on that path or is listed so in fstab, wherever between the two reads   *)
(* of a sample the kernel and the user act, except on a path mounted over  *)
(* or changed between them (disk.go:44-46, 142-156).                       *)
THEOREM FlagsHaveEvidence == MountsSpec => []FlagHasEvidence
<1>1. MountsInv => FlagHasEvidence
  BY DEF MountsInv
<1> QED
  BY <1>1, MountsInvariance, PTL

(* The alarm is not lost from one sample to the next that finds the same   *)
(* filesystem read-only (markRemounts, disk.go:149-153).                   *)
THEOREM LocksAreFlagged == MountsSpec => LockIsFlagged
<1> DEFINE Stays == \A p \in Points : \A d \in disks[p], e \in disks'[p] :
                      (d.dev = e.dev /\ (~d.ro \/ d.flagged) /\ e.ro /\ e.dev \notin ByDesign)
                        => e.flagged
<1>1. ASSUME MountsInv, disks' = disks PROVE Stays
  BY <1>1 DEF MountsInv, DisksRemembered
<1>2. ASSUME MountsInv, NEW liveOK \in BOOLEAN, NEW readable \in SUBSET DOMAIN listing,
             SampleDisks(liveOK, readable)
      PROVE  Stays
  <2> SUFFICES ASSUME NEW p \in Points, NEW d \in disks[p], NEW e \in disks'[p],
                      d.dev = e.dev, ~d.ro \/ d.flagged, e.ro, e.dev \notin ByDesign
               PROVE  e.flagged
    OBVIOUS
  <2>1. e.flagged <=> Remounted(p, e.dev, e.ro)
    <3>1. PICK ro \in BOOLEAN, x \in DiskRecord : IsReport(x, p, ro) /\ disks'[p] = {x}
      BY <1>2, SampleOf
    <3>2. e = x /\ e.ro = ro
      BY <3>1 DEF IsReport
    <3> QED
      BY <3>1, <3>2 DEF IsReport
  <2>2. e.dev \in sawRW[p] \/ p \in FstabRW
    BY <1>2 DEF MountsInv, DisksRemembered, Remembers
  <2> QED
    BY <2>1, <2>2 DEF Remounted, SeenHere
<1>3. MountsInv /\ [MountsNext]_mountsVars => Stays
  BY <1>1, <1>2
     DEF MountsNext, Mount, Unmount, Unlock, Lock, ListPartitions, mountsVars
<1>4. MountsInv /\ [MountsNext]_mountsVars => [Stays]_mountsVars
  BY <1>3
<1> QED
  BY <1>4, MountsInvariance, PTL DEF MountsSpec, LockIsFlagged

(* The mounts, the listing a sample works from and what it remembers and   *)
(* returns keep their types.                                               *)
THEOREM MountsTypeCorrect == MountsSpec => []MountsTypeOK
<1> DEFINE Surroundings ==
             /\ locked \subseteq Devices
             /\ mounted \in 0..MaxMounts
             /\ wasRW \subseteq Points \X Devices
             /\ blurred \subseteq Points
<1>1. MountsInit => Surroundings
  BY MountsAssumption DEF MountsInit
<1>2. MountsInv /\ Surroundings /\ [MountsNext]_mountsVars => Surroundings'
  <2> SUFFICES ASSUME MountsInv, Surroundings, [MountsNext]_mountsVars PROVE Surroundings'
    OBVIOUS
  <2>1. ASSUME NEW p \in Points, NEW dev \in Devices, NEW ro \in BOOLEAN, Mount(p, dev, ro)
        PROVE  Surroundings'
    BY <2>1, MountsAssumption DEF Mount
  <2>2. ASSUME NEW p \in Points, Unmount(p) PROVE Surroundings'
    BY <2>2 DEF Unmount
  <2>3. ASSUME NEW p \in Points, Unlock(p) PROVE Surroundings'
    <3>1. stack[p] \in Seq(MountRecord) /\ stack[p] # <<>>
      BY <2>3 DEF Unlock, MountsInv, MountsTyped
    <3>2. Last(stack[p]) \in MountRecord
      BY <3>1, FrontSeq
    <3>3. Last(stack[p]).dev \in Devices
      BY <3>2 DEF MountRecord
    <3> QED
      BY <2>3, <3>3 DEF Unlock
  <2>4. ASSUME NEW dev \in Devices, Lock(dev) PROVE Surroundings'
    BY <2>4 DEF Lock
  <2>5. CASE UNCHANGED <<locked, mounted, wasRW, blurred>>
    BY <2>5
  <2> QED
    BY <2>1, <2>2, <2>3, <2>4, <2>5 DEF MountsNext, ListPartitions, SampleDisks, mountsVars
<1>3. MountsInv /\ Surroundings => MountsTypeOK
  BY DEF MountsInv, MountsTyped, MountsTypeOK, MountRecord, DiskRecord
<1> QED
  BY <1>1, <1>2, <1>3, MountsInvariance, PTL DEF MountsSpec

------------------------------------------------------------------------------
(* Governor.  The invariant is inductive as it stands: a cycle that stops  *)
(* half way is on record as one.                                           *)

(* The policies move together unless a write was refused since the last    *)
(* whole cycle, for any number of policies and governors, however samples  *)
(* and keys interleave (cycleGovernor, model.go:2894-2918).                *)
THEOREM PoliciesMoveTogether == GovernorSpec => []PoliciesTogether
<1>1. GovernorInit => PoliciesTogether
  BY DEF GovernorInit, PoliciesTogether
<1>2. PoliciesTogether /\ [GovernorNext]_governorVars => PoliciesTogether'
  <2> SUFFICES ASSUME PoliciesTogether, [GovernorNext]_governorVars PROVE PoliciesTogether'
    OBVIOUS
  <2>1. CASE UNCHANGED <<governor, mixed>>
    BY <2>1 DEF PoliciesTogether
  <2>2. ASSUME NEW refused \in SUBSET (1..Policies), CycleGovernor(refused)
        PROVE  PoliciesTogether'
    <3>1. CASE refused = {}
      <4>1. governor' = [p \in 1..Policies |-> NextGovernor(freqs[1])]
        BY <2>2, <3>1, Zenon DEF CycleGovernor, Target
      <4> QED
        BY <4>1 DEF PoliciesTogether
    <3>2. CASE refused # {}
      BY <2>2, <3>2 DEF CycleGovernor, PoliciesTogether
    <3> QED
      BY <3>1, <3>2
  <2> QED
    BY <2>1, <2>2 DEF GovernorNext, ReadPolicy, CPUMsg, governorVars
<1> QED
  BY <1>1, <1>2, PTL DEF GovernorSpec

(* Each policy runs a governor the kernel offers, whatever a cycle stopped *)
(* half way and whatever sample it went by (NextGovernor, cpufreq.go).     *)
THEOREM GovernorTypeCorrect == GovernorSpec => []GovernorTypeOK
<1> DEFINE Offered == {Available[i] : i \in DOMAIN Available}
           Typed == /\ governor \in [1..Policies -> Offered]
                    /\ freqs \in Seq(Offered) /\ Len(freqs) \in {0, Policies}
                    /\ cpuRound \in Seq(Offered) /\ Len(cpuRound) <= Policies
                    /\ mixed \in BOOLEAN
<1>1. GovernorInit => Typed
  <2>1. Available[1] \in Offered
    <3>1. 1 \in DOMAIN Available
      BY GovernorAssumption, EmptySeq
    <3> QED
      BY <3>1
  <2>2. Policies \in Nat /\ <<>> \in Seq(Offered) /\ Len(<<>>) = 0
    BY GovernorAssumption
  <2> HIDE DEF Offered
  <2> SUFFICES ASSUME GovernorInit PROVE Typed
    OBVIOUS
  <2>3. /\ governor = [p \in 1..Policies |-> Available[1]]
        /\ freqs = <<>> /\ cpuRound = <<>> /\ mixed = FALSE
    BY DEF GovernorInit
  <2>4. governor \in [1..Policies -> Offered]
    BY <2>1, <2>3
  <2>5. freqs \in Seq(Offered) /\ Len(freqs) \in {0, Policies}
    BY <2>2, <2>3, Zenon
  <2>6. cpuRound \in Seq(Offered) /\ Len(cpuRound) = 0 /\ 0 <= Policies
    BY <2>2, <2>3
  <2> QED
    BY <2>3, <2>4, <2>5, <2>6, Zenon
<1>2. ASSUME NEW g PROVE Len(Available) > 1 /\ g \in Offered => NextGovernor(g) \in Offered
  <2> SUFFICES ASSUME Len(Available) > 1, g \in Offered PROVE NextGovernor(g) \in Offered
    OBVIOUS
  <2> DEFINE i == CHOOSE j \in DOMAIN Available : Available[j] = g
             n == Len(Available)
  <2>1. n \in Nat \ {0} /\ DOMAIN Available = 1..n
    BY GovernorAssumption
  <2>2. i \in DOMAIN Available
    OBVIOUS
  <2>3. NextGovernor(g) = Available[(i % n) + 1]
    BY DEF NextGovernor
  <2> HIDE DEF i, n
  <2>4. i \in Nat /\ i % n \in 0..n - 1
    BY <2>1, <2>2
  <2>5. (i % n) + 1 \in 1..n
    BY <2>1, <2>4
  <2> QED
    BY <2>1, <2>3, <2>5
<1>3. Typed /\ [GovernorNext]_governorVars => Typed'
  <2> SUFFICES ASSUME Typed, [GovernorNext]_governorVars PROVE Typed'
    OBVIOUS
  <2>0. Policies \in Nat \ {0}
    BY GovernorAssumption
  <2> HIDE DEF Offered
  <2>1. CASE ReadPolicy
    <3>1. governor[Len(cpuRound) + 1] \in Offered
      BY <2>0, <2>1 DEF ReadPolicy
    <3>2. /\ cpuRound' = Append(cpuRound, governor[Len(cpuRound) + 1])
          /\ Len(cpuRound) < Policies /\ UNCHANGED <<governor, freqs, mixed>>
      BY <2>1 DEF ReadPolicy
    <3> QED
      BY <2>0, <3>1, <3>2
  <2>2. CASE CPUMsg
    BY <2>0, <2>2 DEF CPUMsg
  <2>3. ASSUME NEW refused \in SUBSET (1..Policies), CycleGovernor(refused)
        PROVE  Typed'
    <3> DEFINE g == NextGovernor(freqs[1])
    <3>1. g \in Offered
      <4>1. 1 \in 1..Len(freqs)
        BY <2>3 DEF CycleGovernor
      <4>2. freqs[1] \in Offered
        BY <4>1
      <4> QED
        BY <1>2, <2>3, <4>2 DEF CycleGovernor
    <3>2. /\ governor' = [p \in 1..Policies |->
                IF \E q \in 1..p : q \in refused THEN governor[p] ELSE g]
          /\ \/ freqs' = [p \in 1..Policies |-> g] /\ mixed' = FALSE
             \/ freqs' = freqs /\ mixed' = TRUE
          /\ cpuRound' = cpuRound
      BY <2>3, Zenon DEF CycleGovernor, Target
    <3> HIDE DEF g
    <3>3. [p \in 1..Policies |-> g] \in Seq(Offered) /\ Len([p \in 1..Policies |-> g]) = Policies
      BY <2>0, <3>1
    <3> QED
      BY <3>1, <3>2, <3>3
  <2>4. CASE UNCHANGED governorVars
    BY <2>4 DEF governorVars
  <2> QED
    BY <2>1, <2>2, <2>3, <2>4 DEF GovernorNext
<1>4. Typed => GovernorTypeOK
  BY DEF GovernorTypeOK
<1> QED
  BY <1>1, <1>3, <1>4, PTL DEF GovernorSpec

------------------------------------------------------------------------------
(* Backlight.  Percent and raw steps round to each other: what either says *)
(* of the other is half a step of its own off at most.                     *)
LEMMA QuotientFacts ==
  ASSUME NEW a \in Int, NEW d \in Nat \ {0}
  PROVE  /\ a \div d \in Int
         /\ d * (a \div d) <= a
         /\ a < d * (a \div d) + d
  OBVIOUS

LEMMA RoundFacts ==
  ASSUME NEW n \in Int, NEW d \in Nat \ {0}
  PROVE  /\ RoundOf(n, d) \in Int
         /\ 2 * (d * RoundOf(n, d)) <= 2 * n + d
         /\ 2 * n + d < 2 * (d * RoundOf(n, d)) + 2 * d
<1> DEFINE q == RoundOf(n, d)
<1>1. q = (2 * n + d) \div (2 * d)
  BY DEF RoundOf
<1>2. 2 * n + d \in Int /\ 2 * d \in Nat \ {0}
  OBVIOUS
<1>3. q \in Int /\ (2 * d) * q <= 2 * n + d /\ 2 * n + d < (2 * d) * q + 2 * d
  BY <1>1, <1>2, QuotientFacts
<1> HIDE DEF q
<1>4. (2 * d) * q = 2 * (d * q)
  BY <1>3
<1> QED
  BY <1>3, <1>4 DEF q

LEMMA BacklightConstants ==
  /\ MaxRaw \in Nat \ {0} /\ MaxRaw \in Int /\ MaxRaw > 0
  /\ StepPct \in Int /\ 1 <= StepPct /\ StepPct <= 100
  BY BacklightAssumption

(* What the screen shows of a brightness: half a raw step off at most.     *)
LEMMA PercentFacts ==
  ASSUME NEW b \in 0..MaxRaw
  PROVE  /\ PercentOf(b) \in 0..100
         /\ 2 * (MaxRaw * PercentOf(b)) <= 200 * b + MaxRaw
         /\ 200 * b + MaxRaw < 2 * (MaxRaw * PercentOf(b)) + 2 * MaxRaw
<1> DEFINE P == RoundOf(100 * b, MaxRaw)
<1>1. b \in Int /\ 0 <= b /\ b <= MaxRaw /\ 100 * b \in Int
  BY BacklightConstants
<1>2. /\ P \in Int
      /\ 2 * (MaxRaw * P) <= 2 * (100 * b) + MaxRaw
      /\ 2 * (100 * b) + MaxRaw < 2 * (MaxRaw * P) + 2 * MaxRaw
  BY <1>1, BacklightConstants, RoundFacts
<1>3. PercentOf(b) = Bound(0, P, 100)
  BY DEF PercentOf
<1> HIDE DEF P
<1>4. \A x, m \in Int : m > 0 /\ x >= 101 => m * x >= 101 * m
  OBVIOUS
<1>5. \A x, m \in Int : m > 0 /\ x <= -1 => m * x <= -m
  OBVIOUS
<1>6. P <= 100
  BY <1>1, <1>2, <1>4, BacklightConstants
<1>7. P >= 0
  BY <1>1, <1>2, <1>5, BacklightConstants
<1>8. PercentOf(b) = P
  BY <1>2, <1>3, <1>6, <1>7 DEF Bound
<1> QED
  BY <1>1, <1>2, <1>6, <1>7, <1>8

LEMMA RawFacts ==
  ASSUME NEW pct \in 0..100
  PROVE  /\ RawOf(pct) \in 0..MaxRaw
         /\ pct = 0 => RawOf(pct) = 0
         /\ pct = 100 => RawOf(pct) = MaxRaw
         /\ 2 * (pct * MaxRaw) + 100 < 200 * RawOf(pct) + 200
         /\ RawOf(pct) <= 1 \/ 200 * RawOf(pct) <= 2 * (pct * MaxRaw) + 100
<1> DEFINE R == RoundOf(pct * MaxRaw, 100)
           m == pct * MaxRaw
<1>1. pct \in Int /\ m \in Int
  BY BacklightConstants
<1>2. 0 <= m /\ m <= 100 * MaxRaw /\ (pct = 0 => m = 0) /\ (pct = 100 => m = 100 * MaxRaw)
  BY BacklightConstants
<1>3. /\ R \in Int
      /\ 2 * (100 * R) <= 2 * m + 100
      /\ 2 * m + 100 < 2 * (100 * R) + 2 * 100
  BY <1>1, RoundFacts
<1>4. RawOf(pct) = IF R < 1 /\ pct > 0 THEN 1 ELSE R
  BY DEF RawOf
<1> HIDE DEF R, m
<1> QED
  BY <1>1, <1>2, <1>3, <1>4, BacklightConstants DEF m

BacklightInv ==
  /\ raw \in 0..MaxRaw
  /\ shownPct \in -1..100
  /\ sysRound \in -2..100
  /\ pctIsRead \in BOOLEAN
  /\ pctIsRead => shownPct = PercentOf(raw)

LEMMA BacklightStart == BacklightInit => BacklightInv
<1> SUFFICES ASSUME BacklightInit PROVE BacklightInv
  OBVIOUS
<1>1. raw \in 0..MaxRaw /\ shownPct = -1 /\ sysRound = -1
  BY DEF BacklightInit, NotReadYet
<1>2. pctIsRead = FALSE
  BY DEF BacklightInit
<1>3. shownPct \in -1..100 /\ sysRound \in -2..100
  BY <1>1
<1> QED
  BY <1>1, <1>2, <1>3 DEF BacklightInv

LEMMA TargetFacts ==
  ASSUME BacklightInv, shownPct >= 0, NEW delta \in {StepPct, -StepPct}
  PROVE  Bound(0, shownPct + delta, 100) \in 0..100
  BY BacklightConstants DEF BacklightInv, Bound

LEMMA BacklightKeeps == BacklightInv /\ [BacklightNext]_backlightVars => BacklightInv'
<1> SUFFICES ASSUME BacklightInv, [BacklightNext]_backlightVars PROVE BacklightInv'
  OBVIOUS
<1>1. CASE QueueSys
  BY <1>1 DEF QueueSys, BacklightInv, NoRound, NotReadYet
<1>2. CASE ReadPanel
  BY <1>2, PercentFacts DEF ReadPanel, BacklightInv, NotReadYet
<1>3. CASE SysMsg
  <2>1. /\ raw' = raw /\ shownPct' = sysRound /\ sysRound' = -2 /\ sysRound >= 0
        /\ pctIsRead' = (sysRound = PercentOf(raw))
    BY <1>3 DEF SysMsg, NoRound
  <2>2. pctIsRead' \in BOOLEAN /\ (pctIsRead' => shownPct' = PercentOf(raw'))
    BY <2>1, Zenon
  <2>3. raw' \in 0..MaxRaw /\ shownPct' \in -1..100 /\ sysRound' \in -2..100
    BY <2>1 DEF BacklightInv
  <2> QED
    BY <2>2, <2>3 DEF BacklightInv
<1>4. ASSUME NEW delta \in {StepPct, -StepPct}, NEW allowed \in BOOLEAN,
             AdjustBacklight(delta, allowed)
      PROVE  BacklightInv'
  <2> DEFINE target == Bound(0, shownPct + delta, 100)
  <2>1. CASE allowed
    <3>1. target \in 0..100
      BY <1>4, TargetFacts DEF AdjustBacklight
    <3>2. /\ raw' = RawOf(target) /\ shownPct' = target
          /\ pctIsRead' = (target = PercentOf(raw'))
          /\ sysRound' = QueueUser(sysRound)
      BY <1>4, <2>1 DEF AdjustBacklight
    <3> HIDE DEF target
    <3>3. raw' \in 0..MaxRaw /\ shownPct' \in -1..100
      <4>1. RawOf(target) \in 0..MaxRaw
        BY <3>1, RawFacts
      <4>2. target \in -1..100
        BY <3>1
      <4> QED
        BY <3>2, <4>1, <4>2, Zenon
    <3>4. sysRound' \in -2..100
      BY <3>2 DEF QueueUser, BacklightInv, NotReadYet, NoRound
    <3>5. pctIsRead' \in BOOLEAN /\ (pctIsRead' => shownPct' = PercentOf(raw'))
      BY <3>2, Zenon
    <3> QED
      BY <3>3, <3>4, <3>5 DEF BacklightInv
  <2>2. CASE ~allowed
    BY <1>4, <2>2 DEF AdjustBacklight, backlightVars, BacklightInv
  <2> QED
    BY <2>1, <2>2
<1>5. ASSUME NEW b \in 0..MaxRaw, OtherSets(b) PROVE BacklightInv'
  BY <1>5 DEF OtherSets, BacklightInv
<1>6. CASE UNCHANGED backlightVars
  BY <1>6 DEF backlightVars, BacklightInv
<1> QED
  BY <1>1, <1>2, <1>3, <1>4, <1>5, <1>6 DEF BacklightNext

(* The brightness keys always get somewhere (backlight.go:114-116) when a  *)
(* step, less the half a percent a reading may be off, is more than half a *)
(* raw step: the default step of 10 on the uConsole's panel of 9 is, a     *)
(* step of 5 is not, and there they stick (MCBacklightStuck).              *)
THEOREM KeysDoAdvance ==
  (2 * StepPct - 1) * MaxRaw > 100 => (BacklightSpec => KeysAdvance)
<1> SUFFICES ASSUME (2 * StepPct - 1) * MaxRaw > 100
             PROVE  BacklightSpec => KeysAdvance
  OBVIOUS
<1> DEFINE m == StepPct * MaxRaw
<1>1. 2 * m - MaxRaw > 100 /\ m \in Int
  BY BacklightConstants
<1>2. ASSUME BacklightInv, AdjustBacklight(StepPct, TRUE), pctIsRead, raw < MaxRaw
      PROVE  raw' > raw
  <2> DEFINE P == PercentOf(raw)
             q == P * MaxRaw
             T == Bound(0, P + StepPct, 100)
  <2>1. raw \in 0..MaxRaw /\ shownPct = P /\ raw \in Int
    BY <1>2, BacklightConstants DEF BacklightInv
  <2>2. P \in 0..100 /\ MaxRaw * P = q /\ 200 * raw + MaxRaw < 2 * (MaxRaw * P) + 2 * MaxRaw
    BY <2>1, PercentFacts, BacklightConstants
  <2>3. raw' = RawOf(T)
    BY <1>2, <2>1 DEF AdjustBacklight
  <2>4. T = IF P + StepPct > 100 THEN 100 ELSE P + StepPct
    BY <2>2, BacklightConstants DEF Bound
  <2>5. T \in 0..100
    BY <2>2, <2>4, BacklightConstants
  <2> HIDE DEF T
  <2>6. /\ RawOf(T) \in 0..MaxRaw /\ (T = 100 => RawOf(T) = MaxRaw)
        /\ 2 * (T * MaxRaw) + 100 < 200 * RawOf(T) + 200
    BY <2>5, RawFacts
  <2>7. CASE T = 100
    BY <1>2, <2>3, <2>6, <2>7
  <2>8. CASE T # 100
    <3>1. T * MaxRaw = q + m
      BY <2>2, <2>4, <2>8, BacklightConstants
    <3>2. q \in Int /\ RawOf(T) \in Int
      BY <2>2, <2>6, BacklightConstants
    <3> HIDE DEF q, m, P
    <3> QED
      BY <1>1, <2>1, <2>2, <2>3, <2>6, <3>1, <3>2, BacklightConstants
  <2> QED
    BY <2>7, <2>8
<1>3. ASSUME BacklightInv, AdjustBacklight(-StepPct, TRUE), pctIsRead, raw > 1
      PROVE  raw' < raw
  <2> DEFINE P == PercentOf(raw)
             q == P * MaxRaw
             T == Bound(0, P + (-StepPct), 100)
  <2>1. raw \in 0..MaxRaw /\ shownPct = P /\ raw \in Int
    BY <1>3, BacklightConstants DEF BacklightInv
  <2>2. P \in 0..100 /\ MaxRaw * P = q /\ 2 * (MaxRaw * P) <= 200 * raw + MaxRaw
    BY <2>1, PercentFacts, BacklightConstants
  <2>3. raw' = RawOf(T)
    BY <1>3, <2>1 DEF AdjustBacklight
  <2>4. T = IF P - StepPct < 0 THEN 0 ELSE P - StepPct
    BY <2>2, BacklightConstants DEF Bound
  <2>5. T \in 0..100
    BY <2>2, <2>4, BacklightConstants
  <2> HIDE DEF T
  <2>6. /\ RawOf(T) \in 0..MaxRaw /\ (T = 0 => RawOf(T) = 0)
        /\ RawOf(T) <= 1 \/ 200 * RawOf(T) <= 2 * (T * MaxRaw) + 100
    BY <2>5, RawFacts
  <2>7. CASE T = 0
    BY <1>3, <2>1, <2>3, <2>6, <2>7
  <2>8. CASE T # 0
    <3>1. T * MaxRaw = q - m
      BY <2>2, <2>4, <2>8, BacklightConstants
    <3>2. q \in Int /\ RawOf(T) \in Int
      BY <2>2, <2>6, BacklightConstants
    <3> HIDE DEF q, m, P
    <3> QED
      BY <1>1, <1>3, <2>1, <2>2, <2>3, <2>6, <3>1, <3>2, BacklightConstants
  <2> QED
    BY <2>7, <2>8
<1>4. BacklightSpec => []BacklightInv
  BY BacklightStart, BacklightKeeps, PTL DEF BacklightSpec
<1>5. ASSUME BacklightInv, [BacklightNext]_backlightVars
      PROVE  [ /\ (AdjustBacklight(StepPct, TRUE) /\ pctIsRead /\ raw < MaxRaw) => raw' > raw
               /\ (AdjustBacklight(-StepPct, TRUE) /\ pctIsRead /\ raw > 1) => raw' < raw
             ]_backlightVars
  BY <1>2, <1>3, <1>5
<1> QED
  BY <1>4, <1>5, PTL DEF BacklightSpec, KeysAdvance

(* The percent shown is a percentage, and the panel is at one of its       *)
(* levels, whoever moves it (adjustBacklight, SetBacklightPercent).        *)
THEOREM BacklightTypeCorrect == BacklightSpec => []BacklightTypeOK
<1>1. BacklightInv => BacklightTypeOK
  BY DEF BacklightInv, BacklightTypeOK
<1> QED
  BY <1>1, BacklightStart, BacklightKeeps, PTL DEF BacklightSpec

------------------------------------------------------------------------------
(* Trends.  Neighbours in a series are at most a window apart, and all but *)
(* the first lie within one window.  A healthy pack, reading by reading,   *)
(* lost one percent more than the time allows at most.                     *)
Point == [age : Nat, v : Int]
Width == TrendWindow

Framed(pts) ==
  /\ pts \in Seq(Point)
  /\ \A i \in 1..Len(pts) - 1 : SpanBetween(pts[i], pts[i + 1]) \in 1..Width
  /\ Len(pts) >= 2 => SpanBetween(pts[2], pts[Len(pts)]) <= Width

Steady(pts) ==
  \A i \in 1..Len(pts) :
    /\ (pts[i].v - actual) * StepEvery <= StepEvery - rested + pts[i].age + 1
    /\ (pts[i].v - pts[Len(pts)].v) * StepEvery
         <= StepEvery + SpanBetween(pts[i], pts[Len(pts)])

Calm == kind = "batt" /\ ~slept /\ ~stopped

TrendInv ==
  /\ kind \in DOMAIN Spans
  /\ actual \in Values /\ shown \in Values /\ rested \in 0..StepEvery
  /\ paused \in BOOLEAN /\ slept \in BOOLEAN /\ stopped \in BOOLEAN
  /\ paused => stopped
  /\ \A i \in 1..Len(series) : series[i].v \in Values
  /\ Framed(series)
  /\ Calm => shown = actual /\ Steady(series)

LEMMA SpanFacts ==
  ASSUME kind \in DOMAIN Spans
  PROVE  /\ Width \in Nat \ {0} /\ MinSpan \in Nat \ {0} /\ StepEvery \in Nat \ {0}
         /\ Spans[kind].max \in Nat /\ Values = 0..Spans[kind].max
BY TrendsAssumption DEF Width, TrendWindow, MinSpan, Values

LEMMA LeftOver ==
  ASSUME NEW x \in Nat, NEW s \in Nat \ {0}, NEW n \in 0..(x \div s)
  PROVE  n \in Nat /\ n * s <= x
<1>1. x \div s \in Nat /\ s * (x \div s) <= x
  BY SMT
<1>2. n \in Nat /\ n <= x \div s
  BY <1>1, SMT
<1> QED
  BY <1>1, <1>2, SMT

LEMMA AgedFacts ==
  ASSUME kind \in DOMAIN Spans, NEW pts, Framed(pts), NEW d \in Nat
  PROVE  /\ Framed(Aged(pts, d))
         /\ Len(Aged(pts, d)) = Len(pts)
         /\ \A i \in 1..Len(pts) : /\ Aged(pts, d)[i].age = pts[i].age + d
                                   /\ Aged(pts, d)[i].v = pts[i].v
<1> DEFINE s == Aged(pts, d)
<1>1. pts \in Seq(Point) /\ Len(pts) \in Nat /\ DOMAIN pts = 1..Len(pts)
  BY DEF Framed
<1>2. s = [i \in 1..Len(pts) |-> [pts[i] EXCEPT !.age = @ + d]]
  BY <1>1 DEF Aged
<1>3. ASSUME NEW i \in 1..Len(pts)
      PROVE  /\ s[i].age = pts[i].age + d /\ s[i].v = pts[i].v /\ s[i] \in Point
             /\ pts[i].age \in Nat
  <2>1. pts[i] \in Point
    BY <1>1, ElementOfSeq
  <2>2. s[i] = [pts[i] EXCEPT !.age = pts[i].age + d]
    BY <1>2
  <2> HIDE DEF s
  <2> QED
    BY <2>1, <2>2 DEF Point
<1>4. s \in Seq(Point) /\ Len(s) = Len(pts)
  <2>1. s \in [1..Len(pts) -> Point]
    BY <1>2, <1>3
  <2> HIDE DEF s
  <2> QED
    BY <1>1, <2>1
<1> HIDE DEF s
<1>5. ASSUME NEW i \in 1..Len(pts), NEW j \in 1..Len(pts)
      PROVE  SpanBetween(s[i], s[j]) = SpanBetween(pts[i], pts[j])
  <2>1. \A a, b \in Nat : (a + d) - (b + d) = a - b
    OBVIOUS
  <2> QED
    BY <1>3, <2>1 DEF SpanBetween
<1>6. Framed(s)
  <2>1. ASSUME NEW i \in 1..Len(s) - 1 PROVE SpanBetween(s[i], s[i + 1]) \in 1..Width
    <3>1. i \in 1..Len(pts) /\ i + 1 \in 1..Len(pts) /\ i \in 1..Len(pts) - 1
      BY <1>1, <1>4
    <3> QED
      BY <1>5, <3>1 DEF Framed
  <2>2. ASSUME Len(s) >= 2 PROVE SpanBetween(s[2], s[Len(s)]) <= Width
    <3>1. 2 \in 1..Len(pts) /\ Len(pts) \in 1..Len(pts) /\ Len(pts) >= 2
      BY <1>1, <1>4, <2>2
    <3> QED
      BY <1>4, <1>5, <3>1 DEF Framed
  <2> QED
    BY <1>4, <2>1, <2>2 DEF Framed
<1> QED
  BY <1>3, <1>4, <1>6 DEF s

LEMMA NothingFramed == Framed(<<>>) /\ Len(<<>>) = 0
BY DEF Framed

(* Trimmed leaves a suffix, whose first point alone may lie before the cut. *)
LEMMA TrimmedFacts ==
  ASSUME kind \in DOMAIN Spans, NEW pts \in Seq(Point), pts # <<>>
  PROVE  \E m \in 1..Len(pts) :
           /\ Trimmed(pts) = SubSeq(pts, m, Len(pts))
           /\ \A i \in m + 1..Len(pts) : pts[i].age <= Width
<1> DEFINE old == {i \in DOMAIN pts : pts[i].age > Width}
<1>1. Len(pts) \in Nat \ {0} /\ DOMAIN pts = 1..Len(pts) /\ Width \in Nat
  BY EmptySeq, SpanFacts
<1>2. ASSUME NEW i \in 1..Len(pts) PROVE pts[i].age \in Nat
  <2>1. pts[i] \in Point
    BY ElementOfSeq
  <2> QED
    BY <2>1 DEF Point
<1>3. CASE old = {}
  <2>1. Trimmed(pts) = SubSeq(pts, 1, Len(pts))
    BY <1>3, SubSeqFull DEF Trimmed, Width
  <2>2. \A i \in 1 + 1..Len(pts) : pts[i].age <= Width
    BY <1>1, <1>2, <1>3
  <2> QED
    BY <1>1, <2>1, <2>2
<1>4. CASE old # {}
  <2>1. old \in SUBSET Int /\ \A i \in old : i <= Len(pts)
    BY <1>1
  <2>2. PICK n \in old : \A j \in old : j <= n
    <3> HIDE DEF old
    <3>0. Len(pts) \in Int /\ \A i \in old : i <= Len(pts)
      BY <1>1, <2>1
    <3>1. Max(old) \in old /\ \A j \in old : j <= Max(old)
      BY <1>4, <2>1, <3>0, GreatestNumber
    <3> QED
      BY <3>1
  <2> DEFINE m == CHOOSE i \in old : \A j \in old : j <= i
  <2>3. m \in old /\ \A j \in old : j <= m
    BY <2>2
  <2>4. Trimmed(pts) = SubSeq(pts, m, Len(pts))
    BY <1>4 DEF Trimmed, Width
  <2> HIDE DEF m
  <2>5. \A i \in m + 1..Len(pts) : i \in 1..Len(pts) /\ ~(i <= m)
    BY <1>1, <2>1, <2>3
  <2>6. \A i \in m + 1..Len(pts) : pts[i].age <= Width
    BY <1>1, <1>2, <2>3, <2>5
  <2> QED
    BY <1>1, <2>3, <2>4, <2>6
<1> QED
  BY <1>3, <1>4

(* A frame with one more reading behind the last of another's.             *)
Grown(obs, pts, v) ==
  /\ Framed(obs)
  /\ Len(obs) \in Nat \ {0} /\ obs[Len(obs)] = [age |-> 0, v |-> v]
  /\ \E m \in Nat : \A j \in 1..Len(obs) - 1 :
       m + j \in 1..Len(pts) /\ obs[j] = pts[m + j]

(* What observe does to a series the last point of which is not too old:   *)
(* a suffix of the series and the new reading.                             *)
LEMMA ObservedFacts ==
  ASSUME kind \in DOMAIN Spans, NEW pts, Framed(pts), NEW v \in Int,
         pts # <<>> => pts[Len(pts)].age \in 1..Width, NEW obs, obs = Observed(pts, v)
  PROVE  Grown(obs, pts, v)
<1> DEFINE new == [age |-> 0, v |-> v]
           all == Append(pts, new)
           n == Len(pts)
<1>1. /\ pts \in Seq(Point) /\ n \in Nat /\ Width \in Nat /\ new \in Point
      /\ new.age = 0 /\ (pts # <<>> => n # 0)
  BY SpanFacts, EmptySeq DEF Framed, Point
<1>2. ~Gap(pts)
  <2>1. pts # <<>> => pts[n].age <= Width /\ pts[n].age \in Nat
    BY <1>1
  <2> QED
    BY <1>1, <2>1 DEF Gap, Last, Width
<1>3. Observed(pts, v) = Trimmed(all)
  BY <1>2 DEF Observed
<1>4. /\ all \in Seq(Point) /\ Len(all) = n + 1 /\ all[n + 1] = new
      /\ \A i \in 1..n : all[i] = pts[i]
  BY <1>1, AppendProperties
<1> HIDE DEF new, all, n
<1>5. all # <<>>
  BY <1>1, <1>4, NothingFramed
<1>6. PICK m \in 1..n + 1 : /\ Trimmed(all) = SubSeq(all, m, n + 1)
                            /\ \A i \in m + 1..n + 1 : all[i].age <= Width
  BY <1>4, <1>5, TrimmedFacts
<1> DEFINE s == Trimmed(all)
           l == n + 1 - m + 1
<1>7. /\ s \in Seq(Point) /\ Len(s) = l /\ l \in Nat \ {0}
      /\ \A j \in 1..l : m - 1 + j \in 1..n + 1 /\ s[j] = all[m - 1 + j]
  <2>1. \A i \in m..n + 1 : all[i] \in Point
    BY <1>1, <1>4
  <2>2. m \in Int /\ n + 1 \in Int /\ m <= n + 1 /\ m >= 1
    BY <1>1
  <2>3. /\ SubSeq(all, m, n + 1) \in Seq(Point) /\ Len(SubSeq(all, m, n + 1)) = l
        /\ \A j \in 1..l : SubSeq(all, m, n + 1)[j] = all[m + j - 1]
    <3> DEFINE e == n + 1
    <3> HIDE DEF e
    <3>1. /\ SubSeq(all, m, e) \in Seq(Point)
          /\ Len(SubSeq(all, m, e)) = IF m <= e THEN e - m + 1 ELSE 0
          /\ \A j \in 1..e - m + 1 : SubSeq(all, m, e)[j] = all[m + j - 1]
      BY <2>1, <2>2, SubSeqProperties DEF e
    <3>2. m <= e /\ l = e - m + 1
      BY <1>1, <2>2 DEF e
    <3> HIDE DEF l
    <3>3. Len(SubSeq(all, m, e)) = l /\ \A j \in 1..l : SubSeq(all, m, e)[j] = all[m + j - 1]
      BY <3>1, <3>2
    <3> QED
      BY <3>1, <3>3, Zenon DEF e
  <2>4. \A j \in 1..l : m + j - 1 = m - 1 + j /\ m - 1 + j \in 1..n + 1
    BY <1>1, <2>2
  <2>5. l \in Nat \ {0}
    BY <1>1, <2>2
  <2> QED
    BY <1>6, <2>3, <2>4, <2>5
<1> HIDE DEF s
<1>8. s[l] = new /\ m - 1 + l = n + 1
  BY <1>1, <1>4, <1>7
<1>9. \A j \in 1..l - 1 : m - 1 + j \in 1..n /\ s[j] = pts[m - 1 + j]
  BY <1>1, <1>4, <1>7
<1>10. ASSUME NEW j \in 1..l - 1 PROVE SpanBetween(s[j], s[j + 1]) \in 1..Width
  <2>1. s[j] = pts[m - 1 + j] /\ m - 1 + j \in 1..n /\ j + 1 \in 1..l
    BY <1>7, <1>9
  <2>2. CASE j + 1 = l
    <3>1. m - 1 + j = n /\ s[j + 1] = new
      BY <1>1, <1>7, <1>8, <2>2
    <3>2. s[j].age \in 1..Width /\ n # 0
      BY <1>1, <2>1, <3>1, NothingFramed DEF n
    <3> QED
      BY SMTT(30), <1>1, <3>1, <3>2 DEF SpanBetween
  <2>3. CASE j + 1 # l
    <3>1. j + 1 \in 1..l - 1 /\ m - 1 + (j + 1) = (m - 1 + j) + 1
      BY <1>7, <2>1, <2>3
    <3>2. s[j + 1] = pts[(m - 1 + j) + 1] /\ m - 1 + j \in 1..n - 1
      BY <1>1, <1>9, <2>1, <3>1
    <3> QED
      BY <2>1, <3>2 DEF Framed, n
  <2> QED
    BY <2>2, <2>3
<1>11. ASSUME l >= 2 PROVE SpanBetween(s[2], s[l]) <= Width
  <2>1. s[2] = all[m + 1] /\ m + 1 \in m + 1..n + 1 /\ s[2] \in Point
    BY <1>1, <1>7, <1>11
  <2>2. s[2].age <= Width /\ s[2].age \in Nat
    BY <1>6, <2>1 DEF Point
  <2> QED
    BY <1>1, <1>8, <2>2 DEF SpanBetween
<1>12. Framed(s)
  BY <1>7, <1>10, <1>11 DEF Framed
<1>13. m - 1 \in Nat /\ obs = s
  BY <1>1, <1>3 DEF s
<1>14. \E k \in Nat : \A j \in 1..Len(s) - 1 : k + j \in 1..Len(pts) /\ s[j] = pts[k + j]
  BY <1>7, <1>9, <1>13 DEF n
<1>15. Len(s) \in Nat \ {0} /\ s[Len(s)] = [age |-> 0, v |-> v]
  BY <1>7, <1>8 DEF new
<1> HIDE DEF l
<1> QED
  BY <1>12, <1>13, <1>14, <1>15 DEF Grown

LEMMA EvictedFacts ==
  ASSUME kind \in DOMAIN Spans, NEW pts, Framed(pts)
  PROVE  /\ Evicted(pts) = pts \/ Evicted(pts) = <<>>
         /\ Framed(Evicted(pts))
         /\ Evicted(pts) # <<>> => Evicted(pts)[Len(Evicted(pts))].age <= Width
<1>1. CASE Gap(pts)
  BY <1>1, NothingFramed DEF Evicted
<1>2. CASE ~Gap(pts) /\ pts = <<>>
  BY <1>2, NothingFramed DEF Evicted
<1>3. CASE ~Gap(pts) /\ pts # <<>>
  <2>1. pts \in Seq(Point) /\ Len(pts) \in 1..Len(pts)
    BY <1>3, EmptySeq DEF Framed
  <2>2. pts[Len(pts)] \in Point
    BY <2>1, ElementOfSeq
  <2>3. pts[Len(pts)].age <= Width
    BY <1>3, <2>2, SpanFacts DEF Gap, Last, Width, Point
  <2> QED
    BY <1>3, <2>3 DEF Evicted
<1> QED
  BY <1>1, <1>2, <1>3

(* The world moves on: a pack loses what the time allows.                  *)
Drains(d) ==
  \E n \in Nat : actual' = actual - n /\ n * StepEvery + rested' <= rested + d

LEMMA WorldFacts ==
  ASSUME TrendInv, NEW d \in Nat \ {0}, World(d)
  PROVE  /\ actual' \in Values /\ rested' \in 0..StepEvery
         /\ kind = "batt" => Drains(d)
<1>1. /\ StepEvery \in Nat \ {0} /\ rested \in 0..StepEvery
      /\ Spans[kind].max \in Nat /\ actual \in 0..Spans[kind].max
      /\ Values = 0..Spans[kind].max
  BY SpanFacts DEF TrendInv
<1>2. CASE kind = "batt"
  <2>1. PICK n \in 0..((rested + d) \div StepEvery) :
          /\ actual - n >= 0
          /\ actual' = actual - n
          /\ rested' = LET left == rested + d - n * StepEvery
                       IN  IF left > StepEvery THEN StepEvery ELSE left
    BY <1>2 DEF World
  <2>2. rested + d \in Nat
    BY <1>1
  <2>3. n \in Nat /\ n * StepEvery <= rested + d /\ n * StepEvery \in Nat
    BY <1>1, <2>2, LeftOver
  <2> DEFINE p == n * StepEvery
  <2>4. p \in Nat /\ p <= rested + d
        /\ rested' = IF rested + d - p > StepEvery THEN StepEvery ELSE rested + d - p
    BY <2>1, <2>3
  <2> HIDE DEF p
  <2>5. rested' \in 0..StepEvery /\ p + rested' <= rested + d
    BY <1>1, <2>4
  <2>6. actual' \in Values
    BY <1>1, <2>1, <2>3
  <2> QED
    BY <2>1, <2>3, <2>5, <2>6 DEF p, Drains
<1>3. CASE kind # "batt"
  BY <1>1, <1>3 DEF World
<1> QED
  BY <1>2, <1>3

LEMMA LessPerStep ==
  \A a, b \in Int : \A n, s \in Nat :
    n * s \in Nat /\ (a - b) * s \in Int /\ (a - (b - n)) * s = (a - b) * s + n * s
BY SMT

LEMMA SteadySums ==
  \A x, q, s, r, t, age \in Int :
    q + t <= r + 1 /\ x <= s - r + age + 1 => x + q <= s - t + (age + 1) + 1
BY SMT

LEMMA RestedSums ==
  \A q, s, r, t \in Int : q + t <= r + 1 /\ r <= s => q <= s - t + 0 + 1
BY SMT

(* One more reading, a tick after the one before.                          *)
LEMMA TickKeepsSteady ==
  ASSUME TrendInv, Calm, ~paused, World(1), kind' = kind, shown' = actual',
         NEW pts, Framed(pts), pts = <<>> \/ pts = Aged(series, 1),
         NEW s, Len(s) \in Nat \ {0}, s[Len(s)] = [age |-> 0, v |-> shown],
         NEW m \in Nat, \A j \in 1..Len(s) - 1 : m + j \in 1..Len(pts) /\ s[j] = pts[m + j]
  PROVE  \A i \in 1..Len(s) :
           /\ (s[i].v - actual') * StepEvery <= StepEvery - rested' + s[i].age + 1
           /\ (s[i].v - s[Len(s)].v) * StepEvery
                <= StepEvery + SpanBetween(s[i], s[Len(s)])
<1> DEFINE S == StepEvery
<1>1. /\ S \in Nat \ {0} /\ rested \in 0..S /\ rested' \in 0..S
      /\ actual \in Int /\ actual' \in Int /\ shown = actual
      /\ kind = "batt" /\ kind \in DOMAIN Spans
  BY SpanFacts, WorldFacts DEF TrendInv, Calm
<1> HIDE DEF S
<1>2. PICK n \in Nat : actual' = actual - n /\ n * S + rested' <= rested + 1
  <2>1. Drains(1)
    BY <1>1, WorldFacts
  <2> QED
    BY <2>1 DEF Drains, S
<1> DEFINE q == n * S
<1>3. q \in Nat /\ q + rested' <= rested + 1 /\ q <= S - rested' + 0 + 1
  <2>1. q \in Nat
    BY <1>1, <1>2, LessPerStep
  <2>2. q + rested' <= rested + 1
    BY <1>2, Zenon
  <2>3. rested <= S
    BY <1>1
  <2>4. S \in Int /\ rested \in Int /\ rested' \in Int
    BY <1>1
  <2> HIDE DEF q
  <2>5. q \in Int
    BY <2>1
  <2>6. q <= S - rested' + 0 + 1
    BY <2>2, <2>3, <2>4, <2>5, RestedSums, Zenon
  <2> QED
    BY <2>1, <2>2, <2>6, Zenon
<1> HIDE DEF q
<1> TAKE i \in 1..Len(s)
<1>4. CASE i = Len(s)
  <2>1. s[i].v = actual /\ s[i].age = 0
    BY <1>1, <1>4
  <2>2. (actual - actual') * S = q /\ (actual - actual) * S = 0
    BY <1>1, <1>2 DEF q
  <2>3. q <= S - rested' + 0 + 1
    BY <1>3, Zenon
  <2> QED
    BY <1>1, <1>4, <2>1, <2>2, <2>3 DEF S, SpanBetween
<1>5. CASE i # Len(s)
  <2>1. m + i \in 1..Len(pts) /\ s[i] = pts[m + i] /\ pts # <<>>
    BY <1>5, NothingFramed
  <2>2. /\ pts = Aged(series, 1) /\ m + i \in 1..Len(series) /\ Framed(series)
        /\ s[i].age = series[m + i].age + 1 /\ s[i].v = series[m + i].v
    BY <1>1, <2>1, AgedFacts DEF TrendInv
  <2> DEFINE p == series[m + i]
             x == (p.v - actual) * S
             y == (p.v - actual') * S
  <2>3. p.age \in Nat /\ p.v \in Int
    <3>1. p \in Point
      BY <2>2, ElementOfSeq DEF Framed
    <3> QED
      BY <3>1 DEF Point
  <2>4. x <= S - rested + p.age + 1
    BY <2>2 DEF TrendInv, Steady, S
  <2>5. x \in Int /\ y = x + q
    <3>1. y = (p.v - (actual - n)) * S
      BY <1>2
    <3>2. S \in Nat /\ actual \in Int /\ p.v \in Int
      BY <1>1, <2>3
    <3> HIDE DEF p
    <3> QED
      BY <3>1, <3>2, LessPerStep DEF q
  <2>6. s[i].age = p.age + 1 /\ s[i].v = p.v
    BY <2>2
  <2>7. s[Len(s)].v = actual /\ s[Len(s)].age = 0
    BY <1>1
  <2> HIDE DEF p, x, y
  <2>8. y <= S - rested' + s[i].age + 1
    <3>1. S \in Int /\ rested \in Int /\ rested' \in Int /\ p.age \in Int /\ q \in Int
      BY <1>1, <1>3, <2>3
    <3>2. x + q <= S - rested' + (p.age + 1) + 1
      BY <1>3, <2>4, <2>5, <3>1, SteadySums
    <3> QED
      BY <2>5, <2>6, <3>2
  <2>9. x <= S + (s[i].age - 0)
    BY SMTT(30), <1>1, <2>3, <2>4, <2>5, <2>6
  <2> QED
    BY <2>6, <2>7, <2>8, <2>9 DEF x, y, S, SpanBetween
<1> QED
  BY <1>4, <1>5

LEMMA TrendsStart == TrendsInit => TrendInv
<1> SUFFICES ASSUME TrendsInit PROVE TrendInv
  OBVIOUS
<1>1. /\ kind \in DOMAIN Spans /\ series = <<>> /\ shown = actual
      /\ paused = FALSE /\ slept = FALSE /\ stopped = FALSE
  BY DEF TrendsInit
<1>2. actual \in Values /\ rested \in 0..StepEvery
  <2>1. Values = 0..Spans[kind].max /\ Spans[kind].max \in Nat /\ StepEvery \in Nat \ {0}
    BY <1>1, SpanFacts
  <2>2. CASE kind = "batt"
    BY <2>1, <2>2 DEF TrendsInit
  <2>3. CASE kind # "batt"
    BY <2>1, <2>3 DEF TrendsInit
  <2> QED
    BY <2>2, <2>3
<1>3. Framed(series) /\ Steady(series)
  BY <1>1, NothingFramed DEF Steady
<1>4. \A i \in 1..Len(series) : series[i].v \in Values
  BY <1>1, NothingFramed
<1> QED
  BY <1>1, <1>2, <1>3, <1>4, Zenon DEF TrendInv

(* The series of the kind it was, seen from the next state.                *)
LEMMA SameKind ==
  ASSUME kind' = kind
  PROVE  Values' = Values /\ \A pts : Framed(pts)' <=> Framed(pts)
BY DEF Values, Framed, Width, TrendWindow

LEMMA TrendTickKeeps ==
  ASSUME TrendInv, NEW d \in Sleeps \cup {1}, TrendTick(d)
  PROVE  TrendInv'
<1> DEFINE aged == Aged(series, d)
           pts == Evicted(aged)
           s == Observed(pts, shown)
<1>1. /\ series' = s /\ shown' = (IF paused THEN shown ELSE actual') /\ kind' = kind
      /\ paused' = paused /\ stopped' = stopped /\ World(d)
      /\ slept' = (slept \/ d > 1)
  BY DEF TrendTick
<1>2. /\ kind \in DOMAIN Spans /\ d \in Nat \ {0} /\ Framed(series)
      /\ paused \in BOOLEAN /\ slept \in BOOLEAN /\ stopped \in BOOLEAN
      /\ paused => stopped
      /\ actual \in Values /\ shown \in Values
      /\ \A i \in 1..Len(series) : series[i].v \in Values
  BY TrendsAssumption DEF TrendInv
<1>3. /\ Framed(aged) /\ Len(aged) = Len(series)
      /\ \A i \in 1..Len(series) : aged[i].age = series[i].age + d /\ aged[i].v = series[i].v
  BY <1>2, AgedFacts
<1> HIDE DEF aged
<1>4. /\ pts = aged \/ pts = <<>>
      /\ Framed(pts)
      /\ pts # <<>> => pts[Len(pts)].age <= Width
  BY <1>2, <1>3, EvictedFacts
<1> HIDE DEF pts
<1>5. pts # <<>> => pts[Len(pts)].age \in 1..Width
  <2> SUFFICES ASSUME pts # <<>> PROVE pts[Len(pts)].age \in 1..Width
    OBVIOUS
  <2>1. pts = aged /\ Len(pts) = Len(series) /\ Len(pts) \in 1..Len(pts)
    BY <1>3, <1>4, EmptySeq DEF Framed
  <2>2. series[Len(series)].age \in Nat
    <3>1. series[Len(series)] \in Point
      BY <1>2, <2>1, ElementOfSeq DEF Framed
    <3> QED
      BY <3>1 DEF Point
  <2>3. pts[Len(pts)].age = series[Len(series)].age + d
    BY <1>3, <2>1
  <2> QED
    BY SMTT(20), <1>2, <1>4, <2>2, <2>3, SpanFacts
<1>6. shown \in Int
  BY <1>2, SpanFacts
<1>7. s = Observed(pts, shown)
  OBVIOUS
<1> HIDE DEF s
<1>8. /\ Framed(s)
      /\ Len(s) \in Nat \ {0} /\ s[Len(s)] = [age |-> 0, v |-> shown]
      /\ \E m \in Nat : \A j \in 1..Len(s) - 1 : m + j \in 1..Len(pts) /\ s[j] = pts[m + j]
  <2>1. kind \in DOMAIN Spans /\ Framed(pts) /\ (pts # <<>> => pts[Len(pts)].age \in 1..Width)
    BY <1>2, <1>4, <1>5, Zenon
  <2>2. Grown(s, pts, shown)
    BY <1>6, <1>7, <2>1, ObservedFacts, Zenon
  <2> QED
    BY <2>2 DEF Grown
<1>9. PICK m \in Nat : \A j \in 1..Len(s) - 1 : m + j \in 1..Len(pts) /\ s[j] = pts[m + j]
  BY <1>8
<1>10. ASSUME NEW i \in 1..Len(s) PROVE s[i].v \in Values
  <2>1. CASE i = Len(s)
    BY <1>2, <1>8, <2>1
  <2>2. CASE i # Len(s)
    <3>1. m + i \in 1..Len(pts) /\ s[i] = pts[m + i]
      BY <1>8, <1>9, <2>2
    <3>2. pts = aged /\ m + i \in 1..Len(series)
      BY <1>3, <1>4, <3>1, NothingFramed
    <3> QED
      BY <1>2, <1>3, <3>1, <3>2
  <2> QED
    BY <2>1, <2>2
<1>11. actual' \in Values /\ rested' \in 0..StepEvery /\ shown' \in Values
  BY <1>1, <1>2, WorldFacts
<1>12. Calm' => shown' = actual' /\ Steady(series)'
  <2> SUFFICES ASSUME Calm' PROVE shown' = actual' /\ Steady(series)'
    OBVIOUS
  <2>1. Calm /\ ~paused /\ d = 1
    <3>1. kind = "batt" /\ ~slept /\ ~stopped /\ ~(d > 1)
      BY <1>1, Zenon DEF Calm
    <3> QED
      BY <1>2, <3>1 DEF Calm
  <2>2. shown' = actual' /\ World(1) /\ (pts = <<>> \/ pts = Aged(series, 1))
    BY <1>1, <1>4, <2>1 DEF aged
  <2>3. \A i \in 1..Len(s) :
          /\ (s[i].v - actual') * StepEvery <= StepEvery - rested' + s[i].age + 1
          /\ (s[i].v - s[Len(s)].v) * StepEvery
               <= StepEvery + SpanBetween(s[i], s[Len(s)])
    BY ZenonT(60), <1>1, <1>4, <1>8, <1>9, <2>1, <2>2, TickKeepsSteady
  <2> QED
    BY <1>1, <2>2, <2>3 DEF Steady
<1>13. Values' = Values /\ Framed(series)'
  BY <1>1, <1>8, SameKind
<1> QED
  BY <1>1, <1>2, <1>10, <1>11, <1>12, <1>13 DEF TrendInv

LEMMA TrendGoneKeeps ==
  ASSUME TrendInv, NEW d \in Sleeps, TrendGone(d)
  PROVE  TrendInv'
<1> DEFINE aged == Aged(series, d)
<1>1. /\ series' = Evicted(aged) /\ shown' = (IF paused THEN shown ELSE actual')
      /\ kind' = kind /\ paused' = paused /\ stopped' = stopped /\ World(d) /\ slept' = TRUE
  BY DEF TrendGone
<1>2. /\ kind \in DOMAIN Spans /\ d \in Nat \ {0} /\ Framed(series) /\ shown \in Values
      /\ paused \in BOOLEAN /\ slept \in BOOLEAN /\ stopped \in BOOLEAN
      /\ paused => stopped
      /\ \A i \in 1..Len(series) : series[i].v \in Values
  BY TrendsAssumption DEF TrendInv
<1>3. /\ Framed(aged) /\ Len(aged) = Len(series)
      /\ \A i \in 1..Len(series) : aged[i].v = series[i].v
  BY <1>2, AgedFacts
<1> HIDE DEF aged
<1>4. Framed(series') /\ (series' = aged \/ series' = <<>>)
  BY <1>1, <1>2, <1>3, EvictedFacts
<1>5. actual' \in Values /\ rested' \in 0..StepEvery /\ shown' \in Values
  BY <1>1, <1>2, WorldFacts
<1>6. \A i \in 1..Len(series') : series'[i].v \in Values
  BY <1>2, <1>3, <1>4, NothingFramed
<1>7. Values' = Values /\ Framed(series)'
  BY <1>1, <1>4, SameKind
<1> QED
  BY <1>1, <1>2, <1>5, <1>6, <1>7 DEF TrendInv, Calm

LEMMA TrendsKeep == TrendInv /\ [TrendsNext]_trendVars => TrendInv'
<1> SUFFICES ASSUME TrendInv, [TrendsNext]_trendVars PROVE TrendInv'
  OBVIOUS
<1>1. ASSUME kind' = kind, series' = series, UNCHANGED <<actual, shown, rested, slept>>,
             paused' \in BOOLEAN, stopped' \in BOOLEAN, stopped => stopped', paused' => stopped'
      PROVE  TrendInv'
  <2>1. Values' = Values /\ Framed(series)'
    BY <1>1, SameKind DEF TrendInv
  <2>2. Calm' => Calm /\ (Steady(series) => Steady(series)')
    BY <1>1 DEF Calm, Steady, TrendInv
  <2> QED
    BY <1>1, <2>1, <2>2 DEF TrendInv
<1>2. CASE PauseTrend
  BY <1>1, <1>2 DEF PauseTrend, TrendInv
<1>3. CASE ResetTrend
  <2>1. /\ series' = <<>> /\ kind' = kind
        /\ UNCHANGED <<actual, shown, rested, paused, slept, stopped>>
    BY <1>3 DEF ResetTrend
  <2>2. Values' = Values /\ Framed(series)'
    BY <2>1, SameKind, NothingFramed
  <2>3. Calm' => Calm /\ Steady(series)'
    BY <2>1, NothingFramed DEF Calm, Steady
  <2> QED
    BY <2>1, <2>2, <2>3, NothingFramed DEF TrendInv
<1>4. CASE UNCHANGED trendVars
  BY <1>1, <1>4 DEF trendVars, TrendInv
<1> QED
  BY <1>2, <1>3, <1>4, TrendTickKeeps, TrendGoneKeeps DEF TrendsNext

LEMMA TrendsInvariance == TrendsSpec => []TrendInv
BY TrendsStart, TrendsKeep, PTL DEF TrendsSpec

LEMMA RateFacts ==
  ASSUME TrendInv, RateOK
  PROVE  /\ Len(series) \in Nat /\ Len(series) >= 2
         /\ series[1] \in Point /\ series[Len(series)] \in Point
         /\ Rate.by = series[Len(series)].v - series[1].v
         /\ Rate.over = series[1].age - series[Len(series)].age
         /\ Rate.over \in MinSpan..(2 * Width)
<1> DEFINE n == Len(series)
<1>1. /\ series \in Seq(Point) /\ n \in Nat /\ n >= 2
      /\ SpanBetween(series[1], series[2]) <= Width /\ SpanBetween(series[2], series[n]) <= Width
      /\ Width \in Nat /\ MinSpan \in Nat
  <2>1. n >= 2 /\ n \in Nat
    BY DEF RateOK, TrendInv, Framed
  <2>2. 1 \in 1..n - 1
    BY <2>1
  <2> QED
    BY <2>1, <2>2, SpanFacts DEF TrendInv, Framed
<1>2. series[1] \in Point /\ series[2] \in Point /\ series[n] \in Point
  <2>1. 1 \in 1..n /\ 2 \in 1..n /\ n \in 1..n
    BY <1>1
  <2> QED
    BY <1>1, <2>1, ElementOfSeq
<1>3. Head(series) = series[1] /\ Last(series) = series[n]
  BY <1>1 DEF Last
<1>4. /\ Rate.by = series[n].v - series[1].v
      /\ Rate.over = series[1].age - series[n].age
      /\ Rate.over >= MinSpan
  BY <1>3 DEF Rate, Change, SpanBetween, RateOK
<1>5. Rate.over \in MinSpan..(2 * Width)
  BY SMTT(40), <1>1, <1>2, <1>4 DEF SpanBetween, Point
<1> QED
  BY <1>1, <1>2, <1>4, <1>5

(* A rate is taken between readings that are neighbours within a window of *)
(* one another, over no less than the shortest baseline and no more than   *)
(* two windows, whatever suspends, pauses, missing readings and resets     *)
(* come between (trend.go:76-110, 132-135).                                *)
THEOREM BaselinesAreRecent == TrendsSpec => []BaselineIsRecent
<1>1. ASSUME TrendInv PROVE BaselineIsRecent
  <2>1. \A i \in 1..(Len(series) - 1) :
          SpanBetween(series[i], series[i + 1]) \in 1..TrendWindow
    BY <1>1 DEF TrendInv, Framed, Width
  <2> QED
    BY <1>1, <2>1, RateFacts DEF BaselineIsRecent, Width
<1>2. TrendInv => BaselineIsRecent
  BY <1>1
<1> QED
  BY <1>2, TrendsInvariance, PTL

(* A series holds values the sensor can read, their ages are not negative, *)
(* and a pack rests StepEvery ticks at most before it may lose the next    *)
(* percent (trend.go:76-110).                                              *)
THEOREM TrendsTypeCorrect == TrendsSpec => []TrendsTypeOK
<1>1. ASSUME TrendInv PROVE TrendsTypeOK
  <2>1. series \in Seq(Point) /\ \A i \in 1..Len(series) : series[i].v \in Values
    BY <1>1 DEF TrendInv, Framed
  <2>2. \A i \in 1..Len(series) : series[i] \in [age : Nat, v : Values]
    <3>1. \A i \in 1..Len(series) : series[i] \in Point
      BY <2>1, ElementOfSeq
    <3> QED
      BY <2>1, <3>1 DEF Point
  <2>3. series \in Seq([age : Nat, v : Values])
    BY <2>1, <2>2, SeqOver
  <2> QED
    BY <1>1, <2>3 DEF TrendInv, TrendsTypeOK
<1>2. TrendInv => TrendsTypeOK
  BY <1>1
<1> QED
  BY <1>2, TrendsInvariance, PTL

(* A pack that loses a percent every StepEvery ticks is never said to be   *)
(* dumping, for any window, shortest baseline and limit that whole         *)
(* percents do not reach by their rounding (trend.go:21-28); a temperature *)
(* that has been level since the middle of its series is never a climb     *)
(* (trend.go:131-134).                                                     *)
THEOREM SteadyStaysQuiet == TrendsSpec => []SteadyIsQuiet
<1>1. ASSUME TrendInv, Calm, Draining PROVE FALSE
  <2> DEFINE n == Len(series)
             lost == series[1].v - series[n].v
             over == Rate.over
  <2>1. /\ RateOK /\ -Rate.by * DrainLimit.per >= DrainLimit.by * over
        /\ n \in Nat /\ n >= 2 /\ Rate.by = series[n].v - series[1].v
        /\ over = series[1].age - series[n].age /\ over \in MinSpan..(2 * Width)
        /\ series[1] \in Point /\ series[n] \in Point
    BY <1>1, RateFacts DEF Draining
  <2>2. 1 \in 1..n /\ n \in 1..n
    BY <2>1
  <2>3. lost * StepEvery <= StepEvery + over
    BY <1>1, <2>1, <2>2 DEF TrendInv, Steady, SpanBetween
  <2>4. /\ series[1].v \in 0..Spans[kind].max /\ series[n].v \in 0..Spans[kind].max
        /\ kind \in DOMAIN Spans /\ kind = "batt" /\ Spans[kind].max \in Nat
    BY <1>1, <2>2, SpanFacts DEF TrendInv, Calm
  <2>5. /\ DrainLimit.by \in Nat \ {0} /\ DrainLimit.per \in Nat \ {0}
        /\ Width \in Nat \ {0} /\ MinSpan \in Nat \ {0} /\ over \in Nat \ {0}
    BY SMTT(30), <2>1, <2>4, SpanFacts, TrendsAssumption
  <2>6. -Rate.by * DrainLimit.per = lost * DrainLimit.per
    <3>1. \A a, b \in Int : \A c \in Nat : -(b - a) * c = (a - b) * c
      BY SMT
    <3> QED
      BY SMTT(20), <2>1, <2>4, <2>5, <3>1
  <2> HIDE DEF over
  <2>7. CASE lost \in Nat
    <3>1. lost \in 0..Spans[kind].max
      BY <2>4, <2>7
    <3> HIDE DEF lost
    <3>2. lost * DrainLimit.per < DrainLimit.by * over
      BY <2>1, <2>3, <2>4, <3>1, HealthyAssumption DEF Width, TrendWindow, MinSpan
    <3>3. lost * DrainLimit.per \in Int /\ DrainLimit.by * over \in Int
      BY <2>5, <3>1, <2>4
    <3> QED
      BY <2>1, <2>6, <3>2, <3>3
  <2>8. CASE lost \notin Nat
    <3>1. lost \in Int /\ lost < 0
      BY <2>4, <2>8
    <3> HIDE DEF lost
    <3>2. lost * DrainLimit.per < 0 /\ 0 < DrainLimit.by * over
          /\ lost * DrainLimit.per \in Int /\ DrainLimit.by * over \in Int
      <4>1. \A a, b, c \in Nat \ {0} : \A l \in Int : l < 0 =>
              l * a < 0 /\ 0 < b * c /\ l * a \in Int /\ b * c \in Int
        BY SMT
      <4> QED
        BY <2>5, <3>1, <4>1, Zenon
    <3> QED
      BY <2>1, <2>6, <3>2
  <2> QED
    BY <2>7, <2>8
<1>2. ASSUME TrendInv, RateOK, Level, Rising PROVE FALSE
  <2> DEFINE n == Len(series)
             base == CHOOSE i \in Middle : \A j \in Middle : j <= i
  <2>1. /\ n \in Nat /\ n >= 2 /\ Rate.by = series[n].v - series[1].v
        /\ Rate.over = series[1].age - series[n].age /\ Rate.over \in MinSpan..(2 * Width)
        /\ series \in Seq(Point) /\ Head(series) = series[1] /\ Last(series) = series[n]
        /\ DOMAIN series = 1..n /\ MinSpan \in Nat \ {0} /\ Width \in Nat
    BY <1>2, RateFacts, SpanFacts DEF TrendInv, Framed, Last
  <2>2. ASSUME NEW i \in 1..n PROVE series[i].age \in Nat /\ series[i].v \in Int
    <3>1. series[i] \in Point
      BY <2>1, <2>2, ElementOfSeq
    <3> QED
      BY <3>1 DEF Point
  <2>3. 1 \in 1..n /\ n \in 1..n /\ series[1].age > series[n].age
    BY <2>1, <2>2
  <2>4. base \in Middle /\ \A j \in Middle : j <= base
    <3>1. 1 \in Middle /\ Middle \in SUBSET Int /\ \A i \in Middle : i <= n
      BY <2>1, <2>2, <2>3 DEF Middle
    <3>2. Middle # {} /\ n \in Int
      BY <2>1, <3>1
    <3> HIDE DEF n
    <3>3. Max(Middle) \in Middle /\ \A j \in Middle : j <= Max(Middle)
      BY <3>1, <3>2, GreatestNumber
    <3> QED
      BY <3>3
  <2> HIDE DEF base
  <2>5. base \in 1..n /\ 2 * series[base].age >= series[1].age + series[n].age
    BY <2>1, <2>4 DEF Middle
  <2>6. series[base].v = series[n].v
    BY <1>2, <2>1, <2>4, <2>5 DEF Level
  <2>7. /\ Recent.by = series[n].v - series[base].v
        /\ Recent.over = series[base].age - series[n].age
    BY <2>1 DEF Recent, Change, SpanBetween, base
  <2>8. Recent.by = 0 /\ Recent.over \in Nat \ {0} /\ Rate.over \in Nat \ {0} /\ Rate.by \in Int
    <3> DEFINE a == series[1].age
               b == series[base].age
               c == series[n].age
               u == series[base].v
    <3>1. /\ a \in Nat /\ b \in Nat /\ c \in Nat /\ a > c /\ 2 * b >= a + c
          /\ u \in Int /\ series[n].v = u /\ series[1].v \in Int
      BY <2>2, <2>3, <2>5, <2>6
    <3>2. Recent.over = b - c /\ Recent.by = u - u /\ Rate.by = u - series[1].v
      BY <2>1, <2>7, <3>1
    <3> HIDE DEF a, b, c, u
    <3>3. Recent.over \in Nat \ {0} /\ Recent.by = 0 /\ Rate.by \in Int
      BY <3>1, <3>2
    <3>4. Rate.over \in Nat \ {0}
      BY <2>1
    <3> QED
      BY <3>3, <3>4
  <2>9. SustainedRate.by = 0 /\ SustainedRate.over \in Nat \ {0}
    <3>1. CASE Slower(Recent, Rate)
      BY <2>8, <3>1 DEF SustainedRate
    <3>2. CASE ~Slower(Recent, Rate)
      <4> DEFINE a == Rate.by
                 x == Recent.over
                 y == Rate.over
      <4>1. ~(Size(0) * y < Size(a) * x)
        BY <2>8, <3>2 DEF Slower
      <4>2. a \in Int /\ x \in Nat \ {0} /\ y \in Nat \ {0}
        BY <2>8
      <4> HIDE DEF a, x, y
      <4>3. a = 0
        BY <4>1, <4>2, SMT DEF Size
      <4> QED
        BY <2>8, <3>2, <4>3 DEF SustainedRate, a
    <3> QED
      BY <3>1, <3>2
  <2>10. SustainedRate.by * RiseLimit.per >= RiseLimit.by * SustainedRate.over
    BY <1>2 DEF Rising
  <2>11. RiseLimit.by \in Nat \ {0} /\ RiseLimit.per \in Nat \ {0}
    BY TrendsAssumption
  <2> QED
    BY <2>9, <2>10, <2>11, SMT
<1>3. TrendInv => SteadyIsQuiet
  BY <1>1, <1>2 DEF SteadyIsQuiet, Calm
<1> QED
  BY <1>3, TrendsInvariance, PTL
==============================================================================
