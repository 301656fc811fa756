-------------------------- MODULE ProcActions_proofs -------------------------
(***************************************************************************)
(* Proofs about acting on processes (ProcActions), for any PIDs, any       *)
(* number of reuses and any number of fetches.  The idea behind all of     *)
(* them: time orders the processes of a PID, everything the UI remembers   *)
(* names a process of the past (Named), and a process that is gone stays   *)
(* gone.                                                                   *)
(***************************************************************************)
EXTENDS ProcActions, TLAPS

Named(pid, start) == pid \in Pids /\ start \in Starts /\ start <= born[pid]
Dead(pid, start) == proc[pid] # start

KernelInv ==
  /\ proc \in [Pids -> Starts \cup {NoProc}]
  /\ born \in [Pids -> Starts]
  /\ pidfdOK \in BOOLEAN
  /\ \A p \in Pids : proc[p] \in {NoProc, born[p]}

ListInv ==
  /\ rows \in [Pids -> Starts \cup {NoProc}]
  /\ walk \in {None} \cup [is : {"read"}, rows : [Pids -> Starts \cup {NoProc}]]
  /\ \A p \in Pids : rows[p] <= born[p]
  /\ walk # None => \A p \in Pids : walk.rows[p] <= born[p]

DetailInv ==
  /\ detail \in {None} \cup Detail
  /\ detail # None => Named(detail.pid, detail.start)
  /\ VouchedDataIsOurs
  /\ OwnGoneIsTrue

PromptInv ==
  /\ prompt \in {None} \cup [is : {"asking"}, pid : Pids, start : Starts]
  /\ prompt # None => Named(prompt.pid, prompt.start)

(* An answer with a start time holds that process's data.  A fetch of the  *)
(* open overlay is of its PID, and tells of its process only what is true. *)
FetchOK(x) ==
  /\ x.is = "answered" => x.data \in Starts /\ x.start \in {NoProc, x.data}
  /\ x.own =>
       /\ detail # None
       /\ x.pid = detail.pid
       /\ x.is = "failed" => Dead(detail.pid, detail.start)
       /\ x.is \in {"read", "answered"} /\ x.start # detail.start =>
            Dead(detail.pid, detail.start)

FetchInv ==
  /\ fetch \in [Fetches -> {None} \cup Fetch]
  /\ \A f \in Fetches : fetch[f] # None => FetchOK(fetch[f])

(* The descriptor pins a process at least as young as the key press, and   *)
(* the check passes only on the process picked.                            *)
ActInv ==
  /\ act \in {None} \cup Act
  /\ act # None =>
       /\ Named(act.pid, act.since)
       /\ act.start <= act.since
       /\ act.fd # NoProc => act.since <= act.fd /\ act.fd <= born[act.pid]
       /\ act.is = "signal" /\ act.stage # "open" /\ pidfdOK => act.fd # NoProc
       /\ act.stage = "send" => act.since = act.start /\ act.fd \in {NoProc, act.start}

StrayInv ==
  /\ strays \subseteq {"signal", "renice"}
  /\ SignalNeverStrays

IInv ==
  KernelInv /\ ListInv /\ DetailInv /\ PromptInv /\ FetchInv /\ ActInv /\ StrayInv

------------------------------------------------------------------------------
LEMMA StartsFacts ==
  /\ \A s \in Starts : s \in Nat /\ 0 < s
  /\ NoProc = 0 /\ NoProc \notin Starts
  /\ 1 \in Starts
  /\ \A s \in Starts : s < MaxStart => s + 1 \in Starts
  BY ProcAssumption, SMT DEF Starts, NoProc

LEMMA NumberFacts ==
  ASSUME KernelInv, NEW q \in Pids
  PROVE  born[q] \in Starts /\ born[q] \in Nat /\ born[q] <= born[q]
<1>1. born[q] \in Starts
  BY DEF KernelInv
<1>2. born[q] \in Nat
  BY <1>1, StartsFacts
<1> QED
  BY <1>1, <1>2, SMT

LEMMA NoneFacts ==
  /\ None \notin Detail /\ None \notin Act /\ None \notin Fetch
  /\ \A x \in [is : {"asking"}, pid : Pids, start : Starts] : x # None
  /\ \A x \in [is : {"read"}, rows : [Pids -> Starts \cup {NoProc}]] : x # None
  BY DEF None, Detail, Act, Fetch

LEMMA InitEstablishes == Init => IInv
<1> SUFFICES ASSUME Init PROVE IInv
  OBVIOUS
<1>1. KernelInv
  BY StartsFacts DEF Init, KernelInv
<1>2. ListInv
  BY StartsFacts, SMT DEF Init, ListInv
<1>3. DetailInv /\ PromptInv
  BY DEF Init, DetailInv, PromptInv, VouchedDataIsOurs, OwnGoneIsTrue
<1>4. FetchInv /\ ActInv /\ StrayInv
  BY DEF Init, FetchInv, ActInv, StrayInv, SignalNeverStrays
<1> QED
  BY <1>1, <1>2, <1>3, <1>4 DEF IInv

------------------------------------------------------------------------------
(* The kernel only ever moves on: what was named stays named, and what is  *)
(* dead stays dead.                                                        *)
LEMMA KernelMovesOn ==
  ASSUME KernelInv, NEW p \in Pids, Exit(p) \/ Spawn(p)
  PROVE  /\ KernelInv'
         /\ \A q \in Pids : born[q] <= born'[q]
         /\ \A q \in Pids, s \in Starts : Named(q, s) /\ Dead(q, s) => Dead(q, s)'
<1>1. PICK now \in Starts \cup {NoProc} :
        /\ pidfdOK' = pidfdOK
        /\ proc' = [proc EXCEPT ![p] = now]
        /\ born' \in [Pids -> Starts]
        /\ \A q \in Pids \ {p} : born'[q] = born[q]
        /\ born[p] <= born'[p]
        /\ now # NoProc => now = born'[p] /\ born[p] < now
  <2>1. CASE Exit(p)
    <3>1. born' = born /\ pidfdOK' = pidfdOK /\ proc' = [proc EXCEPT ![p] = NoProc]
      BY <2>1 DEF Exit
    <3>2. born[p] <= born[p]
      BY NumberFacts
    <3> QED
      BY <3>1, <3>2 DEF KernelInv
  <2>2. CASE Spawn(p)
    <3>1. /\ pidfdOK' = pidfdOK
          /\ born[p] < MaxStart
          /\ proc' = [proc EXCEPT ![p] = born[p] + 1]
          /\ born' = [born EXCEPT ![p] = born[p] + 1]
      BY <2>2 DEF Spawn
    <3>2. /\ born[p] \in Starts /\ born[p] + 1 \in Starts
          /\ born[p] <= born[p] + 1 /\ born[p] < born[p] + 1
      <4>1. born[p] \in Starts /\ born[p] \in Nat
        BY NumberFacts
      <4> QED
        BY <3>1, <4>1, StartsFacts, SMT
    <3>3. /\ born' \in [Pids -> Starts]
          /\ born'[p] = born[p] + 1
          /\ \A q \in Pids \ {p} : born'[q] = born[q]
      BY <3>1, <3>2 DEF KernelInv
    <3> QED
      BY <3>1, <3>2, <3>3
  <2> QED
    BY <2>1, <2>2
<1>2. proc'[p] = now /\ \A q \in Pids \ {p} : proc'[q] = proc[q]
  BY <1>1 DEF KernelInv
<1>3. KernelInv'
  BY <1>1, <1>2 DEF KernelInv
<1>4. ASSUME NEW q \in Pids PROVE born[q] <= born'[q]
  <2>1. CASE q = p
    BY <1>1, <2>1
  <2>2. CASE q # p
    BY <1>1, <2>2, NumberFacts
  <2> QED
    BY <2>1, <2>2
<1>5. ASSUME NEW q \in Pids, NEW s \in Starts, Named(q, s), Dead(q, s)
      PROVE  Dead(q, s)'
  <2>1. CASE q # p
    BY <1>2, <1>5, <2>1 DEF Dead
  <2>2. CASE q = p /\ now = NoProc
    BY <1>2, <2>2, StartsFacts DEF Dead
  <2>3. CASE q = p /\ now # NoProc
    <3>1. s <= born[p] /\ born[p] < now
      BY <1>1, <1>5, <2>3 DEF Named
    <3>2. s \in Nat /\ born[p] \in Nat /\ now \in Nat
      BY <1>1, <2>3, StartsFacts, NumberFacts
    <3>3. s # now
      BY <3>1, <3>2, SMT
    <3> QED
      BY <1>2, <2>3, <3>3 DEF Dead
  <2> QED
    BY <2>1, <2>2, <2>3
<1> QED
  BY <1>3, <1>4, <1>5

LEMMA KernelKeeps ==
  ASSUME IInv, NEW p \in Pids, Exit(p) \/ Spawn(p)
  PROVE  IInv'
<1> USE DEF IInv
<1>1. KernelInv' /\ UNCHANGED <<pidfdOK, ui, act, strays>>
  BY KernelMovesOn DEF Exit, Spawn
<1>2. \A q \in Pids : born[q] <= born'[q] /\ born[q] \in Nat /\ born'[q] \in Nat
  <2>1. \A q \in Pids : born[q] \in Starts /\ born'[q] \in Starts
    BY <1>1 DEF KernelInv
  <2> QED
    BY <2>1, KernelMovesOn, StartsFacts
<1>3. \A q \in Pids, s \in Starts : Named(q, s) => Named(q, s)'
  BY <1>2, StartsFacts, SMT DEF Named
<1>4. \A q \in Pids, s \in Starts : Named(q, s) /\ Dead(q, s) => Dead(q, s)'
  BY KernelMovesOn
<1>5. ListInv'
  <2>1. ASSUME NEW n \in Starts \cup {NoProc}, NEW q \in Pids, n <= born[q]
        PROVE  n <= born'[q]
    BY <1>2, <2>1, StartsFacts, SMT
  <2>2. rows' = rows /\ walk' = walk
    BY <1>1 DEF ui
  <2> QED
    BY <2>1, <2>2, NoneFacts DEF ListInv
<1>6. DetailInv' /\ PromptInv'
  BY <1>1, <1>3, <1>4 DEF DetailInv, PromptInv, VouchedDataIsOurs, OwnGoneIsTrue,
                          Named, Dead, ui
<1>7. FetchInv'
  <2>1. ASSUME NEW x \in Fetch, FetchOK(x) PROVE FetchOK(x)'
    BY <1>1, <1>4, <2>1 DEF FetchOK, DetailInv, Named, Detail, ui
  <2> QED
    BY <1>1, <2>1 DEF FetchInv, ui
<1>8. ActInv'
  <2>1. act' = act /\ pidfdOK' = pidfdOK
    BY <1>1
  <2>2. CASE act = None
    BY <2>1, <2>2 DEF ActInv
  <2>3. CASE act # None
    <3>1. act \in Act /\ act.pid \in Pids /\ act.since \in Starts
            /\ act.fd \in Starts \cup {NoProc}
      BY <2>3 DEF ActInv, Act
    <3>2. ASSUME act.fd # NoProc PROVE act.fd <= born'[act.pid]
      <4>1. act.fd \in Nat /\ act.fd <= born[act.pid]
        BY <2>3, <3>1, <3>2, StartsFacts DEF ActInv
      <4> QED
        BY <1>2, <3>1, <4>1, SMT
    <3> QED
      BY <1>3, <2>1, <2>3, <3>1, <3>2 DEF ActInv
  <2> QED
    BY <2>2, <2>3
<1>9. StrayInv'
  BY <1>1 DEF StrayInv, SignalNeverStrays
<1> QED
  BY <1>1, <1>5, <1>6, <1>7, <1>8, <1>9

------------------------------------------------------------------------------
(* The UI, the walk and the fetches leave the kernel alone.                *)

LEMMA WalkKeeps ==
  ASSUME IInv, WalkReads \/ WalkLands
  PROVE  IInv'
<1> USE DEF IInv
<1>1. UNCHANGED <<kernel, detail, prompt, fetch, act, strays>>
  BY DEF WalkReads, WalkLands
<1>2. KernelInv' /\ DetailInv' /\ PromptInv' /\ FetchInv' /\ ActInv' /\ StrayInv'
  BY <1>1 DEF kernel, KernelInv, DetailInv, VouchedDataIsOurs, OwnGoneIsTrue, PromptInv,
              Named, FetchInv, FetchOK, Dead, ActInv, StrayInv, SignalNeverStrays
<1>3. \A p \in Pids : proc[p] <= born[p]
  BY NumberFacts, StartsFacts, SMT DEF KernelInv
<1>4. ListInv'
  <2>1. CASE WalkReads
    BY <1>1, <1>3, <2>1 DEF WalkReads, ListInv, KernelInv, kernel
  <2>2. CASE WalkLands
    BY <1>1, <2>2 DEF WalkLands, ListInv, KernelInv, kernel
  <2> QED
    BY <2>1, <2>2
<1> QED
  BY <1>2, <1>4

(* A step of a fetch that leaves the overlay alone keeps everything when   *)
(* what becomes of the fetch is still right.                               *)
LEMMA OneFetchChanges ==
  ASSUME IInv, UNCHANGED <<kernel, rows, walk, detail, prompt, act, strays>>,
         NEW f \in Fetches, NEW x \in Fetch, FetchOK(x),
         fetch' = [fetch EXCEPT ![f] = x]
  PROVE  IInv'
<1> USE DEF IInv
<1>1. KernelInv' /\ DetailInv' /\ PromptInv' /\ ListInv' /\ ActInv' /\ StrayInv'
  BY DEF kernel, KernelInv, DetailInv, VouchedDataIsOurs, OwnGoneIsTrue, PromptInv,
         Named, ListInv, ActInv, StrayInv, SignalNeverStrays
<1>2. \A y : FetchOK(y) => FetchOK(y)'
  BY DEF FetchOK, Dead, kernel
<1>3. FetchInv'
  BY <1>2 DEF FetchInv
<1> QED
  BY <1>1, <1>3

LEMMA FetchKeeps ==
  ASSUME IInv, NEW f \in Fetches, FetchOpens(f) \/ FetchReads(f) \/ FetchEnds(f)
  PROVE  IInv'
<1> USE DEF IInv
<1> DEFINE x == fetch[f]
           now == proc[x.pid]
<1>1. UNCHANGED <<kernel, rows, walk, detail, prompt, act, strays>>
  BY DEF FetchOpens, FetchReads, FetchEnds
<1>2. x # None
  BY DEF FetchOpens, FetchReads, FetchEnds, None
<1>3. x \in Fetch /\ FetchOK(x)
  BY <1>2 DEF FetchInv
<1>4. now \in Starts \cup {NoProc} /\ (now # NoProc => now \in Starts)
  BY <1>3 DEF Fetch, KernelInv
<1>5. x.own => detail \in Detail /\ detail.start \in Starts
  BY <1>3 DEF FetchOK, DetailInv, Named
<1>6. CASE FetchOpens(f)
  <2> DEFINE y == [x EXCEPT !.is = IF now = NoProc THEN "failed" ELSE "opened"]
  <2>1. fetch' = [fetch EXCEPT ![f] = y]
    BY <1>6 DEF FetchOpens, Fetched
  <2>2. y \in Fetch
    BY <1>3 DEF Fetch
  <2>3. FetchOK(y)
    BY <1>3, <1>5, StartsFacts DEF FetchOK, Dead, Fetch
  <2> HIDE DEF y
  <2> QED
    BY <1>1, <2>1, <2>2, <2>3, OneFetchChanges
<1>7. CASE FetchReads(f)
  <2> DEFINE y == [x EXCEPT !.is = "read", !.start = now]
  <2>1. fetch' = [fetch EXCEPT ![f] = y]
    BY <1>7 DEF FetchReads, Fetched
  <2>2. y \in Fetch
    BY <1>3, <1>4 DEF Fetch
  <2>3. FetchOK(y)
    BY <1>3, <1>5 DEF FetchOK, Dead, Fetch
  <2> HIDE DEF y
  <2> QED
    BY <1>1, <2>1, <2>2, <2>3, OneFetchChanges
<1>8. CASE FetchEnds(f)
  <2> DEFINE gone == now = NoProc \/ x.start \notin {NoProc, now}
             y == [x EXCEPT !.is = IF gone THEN "failed" ELSE "answered",
                            !.data = IF gone THEN NoProc ELSE now]
  <2>1. fetch' = [fetch EXCEPT ![f] = y] /\ x.is = "read"
    BY <1>8 DEF FetchEnds, Fetched
  <2>2. y \in Fetch
    BY <1>3, <1>4 DEF Fetch
  <2>3. FetchOK(y)
    <3>1. CASE gone
      <4>1. y.is = "failed" /\ y.own = x.own /\ y.pid = x.pid
        BY <1>3, <3>1 DEF Fetch
      <4>2. x.own => Dead(detail.pid, detail.start)
        BY <1>3, <1>5, <2>1, <3>1, StartsFacts DEF FetchOK, Dead
      <4> QED
        BY <1>3, <4>1, <4>2 DEF FetchOK
    <3>2. CASE ~gone
      <4>1. /\ y.is = "answered" /\ y.own = x.own /\ y.pid = x.pid
            /\ y.data = now /\ y.start = x.start
        BY <1>3, <3>2 DEF Fetch
      <4>2. now \in Starts /\ x.start \in {NoProc, now}
        BY <1>4, <3>2
      <4> QED
        BY <1>3, <2>1, <4>1, <4>2 DEF FetchOK
    <3> QED
      BY <3>1, <3>2
  <2> HIDE DEF y
  <2> QED
    BY <1>1, <2>1, <2>2, <2>3, OneFetchChanges
<1> QED
  BY <1>6, <1>7, <1>8

(* A fetch launched by the open overlay starts out right.                  *)
LEMMA LaunchIsOK ==
  ASSUME NEW pid \in Pids, detail # None, detail.pid = pid
  PROVE  Launched(pid) \in Fetch /\ FetchOK(Launched(pid))
  BY DEF Launched, Fetch, FetchOK

LEMMA LaunchKeeps ==
  ASSUME IInv, UNCHANGED <<kernel, rows, walk, detail, prompt, act, strays>>,
         detail # None, LaunchFor(detail.pid)
  PROVE  IInv'
<1>1. detail.pid \in Pids
  BY DEF IInv, DetailInv, Named
<1>2. Launched(detail.pid) \in Fetch /\ FetchOK(Launched(detail.pid))
  BY <1>1, LaunchIsOK
<1> QED
  BY <1>2, OneFetchChanges DEF LaunchFor

------------------------------------------------------------------------------
(* The overlay.                                                            *)

(* apply keeps the overlay's identity, and what it newly shows or says.    *)
LEMMA ApplyKeeps ==
  ASSUME IInv, detail # None, NEW x \in Fetch, FetchOK(x),
         x.is \in {"answered", "failed"}
  PROVE  LET d == Apply(x)
         IN  /\ d \in Detail
             /\ d.pid = detail.pid /\ d.start = detail.start
             /\ d.vouched => d.shown \in {NoProc, d.start}
             /\ d.gone /\ d.byOwn => Dead(d.pid, d.start)
<1> DEFINE d == Apply(x)
<1>1. /\ detail \in Detail
      /\ detail.vouched => detail.shown \in {NoProc, detail.start}
      /\ detail.gone /\ detail.byOwn => Dead(detail.pid, detail.start)
  BY DEF IInv, DetailInv, VouchedDataIsOurs, OwnGoneIsTrue, Dead
<1>2. CASE detail.gone
  BY <1>1, <1>2 DEF Apply
<1>3. CASE ~detail.gone /\ (x.is = "failed" \/ x.start \notin {NoProc, detail.start})
  <2>1. d = [detail EXCEPT !.gone = TRUE, !.byOwn = x.own]
    BY <1>3 DEF Apply, Freeze
  <2>2. x.own => Dead(detail.pid, detail.start)
    BY <1>3 DEF FetchOK
  <2> QED
    BY <1>1, <2>1, <2>2 DEF Detail, Fetch
<1>4. CASE ~detail.gone /\ ~(x.is = "failed" \/ x.start \notin {NoProc, detail.start})
  <2>1. d = [detail EXCEPT !.shown = x.data, !.vouched = x.start # NoProc]
    BY <1>4 DEF Apply, Show
  <2>2. x.start # NoProc => x.data = detail.start
    BY <1>4 DEF FetchOK
  <2> QED
    BY <1>1, <1>4, <2>1, <2>2 DEF Detail, Fetch
<1> QED
  BY <1>2, <1>3, <1>4

LEMMA DetailLandsKeeps ==
  ASSUME IInv, NEW f \in Fetches, DetailLands(f)
  PROVE  IInv'
<1> USE DEF IInv
<1> DEFINE x == fetch[f]
<1>1. /\ UNCHANGED <<kernel, rows, walk, prompt, act, strays>>
      /\ x.is \in {"answered", "failed"}
      /\ detail' = IF detail # None /\ detail.pid = x.pid THEN Apply(x) ELSE detail
      /\ fetch' = [fetch EXCEPT ![f] = None]
  BY DEF DetailLands
<1>2. x \in Fetch /\ FetchOK(x)
  BY <1>1 DEF FetchInv, None
<1>3. KernelInv' /\ ListInv' /\ PromptInv' /\ ActInv' /\ StrayInv'
  BY <1>1 DEF kernel, KernelInv, ListInv, PromptInv, Named, ActInv, StrayInv,
              SignalNeverStrays
<1>4. /\ detail' \in {None} \cup Detail
      /\ (detail' = None) <=> (detail = None)
      /\ detail # None => /\ detail'.pid = detail.pid
                          /\ detail'.start = detail.start
                          /\ detail'.vouched => detail'.shown \in {NoProc, detail.start}
                          /\ detail'.gone /\ detail'.byOwn => Dead(detail.pid, detail.start)
  <2>1. CASE detail # None /\ detail.pid = x.pid
    BY <1>1, <1>2, <2>1, ApplyKeeps, NoneFacts
  <2>2. CASE ~(detail # None /\ detail.pid = x.pid)
    BY <1>1, <2>2 DEF DetailInv, VouchedDataIsOurs, OwnGoneIsTrue, Dead
  <2> QED
    BY <2>1, <2>2
<1>5. DetailInv'
  BY <1>1, <1>4 DEF DetailInv, Named, VouchedDataIsOurs, OwnGoneIsTrue, Dead, kernel
<1>6. FetchInv'
  <2>1. ASSUME NEW y \in Fetch, FetchOK(y) PROVE FetchOK(y)'
    BY <1>1, <1>4, <2>1 DEF FetchOK, Dead, kernel
  <2> QED
    BY <1>1, <2>1 DEF FetchInv
<1> QED
  BY <1>3, <1>5, <1>6

LEMMA OpenDetailKeeps ==
  ASSUME IInv, NEW p \in Pids, OpenDetail(p)
  PROVE  IInv'
<1> USE DEF IInv
<1>1. /\ UNCHANGED <<kernel, rows, walk, prompt, act, strays>>
      /\ detail = None /\ rows[p] # NoProc
      /\ detail' = [is |-> "open", pid |-> p, start |-> rows[p], gone |-> FALSE,
                    shown |-> NoProc, vouched |-> TRUE, byOwn |-> FALSE]
  BY DEF OpenDetail
<1>2. PICK f \in Fetches : fetch' = [fetch EXCEPT ![f] = Launched(p)]
  BY DEF OpenDetail, LaunchFor
<1>3. KernelInv' /\ ListInv' /\ PromptInv' /\ ActInv' /\ StrayInv'
  BY <1>1 DEF kernel, KernelInv, ListInv, PromptInv, Named, ActInv, StrayInv,
              SignalNeverStrays
<1>4. rows[p] \in Starts /\ rows[p] <= born[p]
  BY <1>1 DEF ListInv
<1>5. detail' \in Detail /\ detail' # None
  <2>1. detail' \in Detail
    BY <1>1, <1>4, Zenon DEF Detail
  <2> QED
    BY <2>1, NoneFacts
<1>6. DetailInv'
  BY <1>1, <1>4, <1>5 DEF DetailInv, Named, VouchedDataIsOurs, OwnGoneIsTrue, kernel
<1>7. ASSUME NEW y \in Fetch, FetchOK(y) PROVE FetchOK(y)'
  BY <1>1, <1>7 DEF FetchOK
<1>8. Launched(p) \in Fetch /\ FetchOK(Launched(p))'
  BY <1>1, <1>5 DEF Launched, Fetch, FetchOK
<1>9. FetchInv'
  BY <1>2, <1>7, <1>8 DEF FetchInv
<1> QED
  BY <1>3, <1>6, <1>9

LEMMA CloseDetailKeeps ==
  ASSUME IInv, CloseDetail
  PROVE  IInv'
<1> USE DEF IInv
<1>1. /\ UNCHANGED <<kernel, rows, walk, prompt, act, strays>>
      /\ detail' = None
      /\ fetch' = [f \in Fetches |->
           IF fetch[f] = None THEN None ELSE [fetch[f] EXCEPT !.own = FALSE]]
  BY DEF CloseDetail
<1>2. KernelInv' /\ ListInv' /\ PromptInv' /\ ActInv' /\ StrayInv' /\ DetailInv'
  BY <1>1 DEF kernel, KernelInv, ListInv, PromptInv, Named, ActInv, StrayInv,
              SignalNeverStrays, DetailInv, VouchedDataIsOurs, OwnGoneIsTrue
<1>3. ASSUME NEW x \in Fetch, FetchOK(x)
      PROVE  [x EXCEPT !.own = FALSE] \in Fetch /\ FetchOK([x EXCEPT !.own = FALSE])'
  <2> DEFINE y == [x EXCEPT !.own = FALSE]
  <2>1. y \in Fetch /\ y.own = FALSE /\ y.is = x.is /\ y.data = x.data /\ y.start = x.start
    BY DEF Fetch
  <2> HIDE DEF y
  <2>2. FetchOK(y)'
    BY <1>3, <2>1 DEF FetchOK
  <2> QED
    BY <2>1, <2>2 DEF y
<1>4. FetchInv'
  <2> DEFINE closed(f) == IF fetch[f] = None THEN None ELSE [fetch[f] EXCEPT !.own = FALSE]
  <2>1. fetch' = [f \in Fetches |-> closed(f)]
    BY <1>1
  <2>2. \A f \in Fetches : closed(f) \in {None} \cup Fetch
    BY <1>3 DEF FetchInv
  <2>3. ASSUME NEW f \in Fetches, NEW z, z = closed(f), z # None
        PROVE  FetchOK(z)'
    <3>1. fetch[f] \in Fetch /\ FetchOK(fetch[f]) /\ z = [fetch[f] EXCEPT !.own = FALSE]
      BY <2>3 DEF FetchInv
    <3>2. PICK x \in Fetch : x = fetch[f] /\ FetchOK(x)
      BY <3>1
    <3> QED
      BY <1>3, <3>1, <3>2
  <2> HIDE DEF closed
  <2>4. fetch' \in [Fetches -> {None} \cup Fetch]
    BY <2>1, <2>2
  <2> QED
    BY <2>1, <2>3, <2>4 DEF FetchInv
<1> QED
  BY <1>2, <1>4

------------------------------------------------------------------------------
(* Prompts and key presses.                                                *)
LEMMA PromptKeeps ==
  ASSUME IInv, AskFromDetail \/ CancelPrompt \/ \E p \in Pids : AskFromList(p)
  PROVE  IInv'
<1> USE DEF IInv
<1>1. UNCHANGED <<kernel, rows, walk, detail, fetch, act, strays>>
  BY DEF AskFromDetail, AskFromList, Ask, CancelPrompt
<1>2. KernelInv' /\ ListInv' /\ DetailInv' /\ FetchInv' /\ ActInv' /\ StrayInv'
  BY <1>1 DEF kernel, KernelInv, ListInv, DetailInv, VouchedDataIsOurs, OwnGoneIsTrue,
              Named, FetchInv, FetchOK, Dead, ActInv, StrayInv, SignalNeverStrays
<1>3. prompt' = None \/ \E pid \in Pids, start \in Starts :
        /\ Named(pid, start)
        /\ prompt' = [is |-> "asking", pid |-> pid, start |-> start]
  <2>1. CASE AskFromDetail
    BY <2>1 DEF AskFromDetail, Ask, DetailInv, Named
  <2>2. ASSUME NEW p \in Pids, AskFromList(p)
        PROVE  Named(p, rows[p]) /\ prompt' = [is |-> "asking", pid |-> p, start |-> rows[p]]
    BY <2>2 DEF AskFromList, Ask, ListInv, Named
  <2>3. CASE CancelPrompt
    BY <2>3 DEF CancelPrompt
  <2> QED
    BY <2>1, <2>2, <2>3 DEF Named
<1>4. PromptInv'
  BY <1>1, <1>3 DEF PromptInv, Named, kernel
<1> QED
  BY <1>2, <1>4

LEMMA BeginKeeps ==
  ASSUME IInv, ConfirmKill \/ StopOrContinue \/ Renice
  PROVE  IInv'
<1> USE DEF IInv
<1>1. UNCHANGED <<kernel, rows, walk, detail, fetch, strays>>
  BY DEF ConfirmKill, StopOrContinue, Renice, ui
<1>2. prompt' \in {None, prompt}
  BY DEF ConfirmKill, StopOrContinue, Renice, ui
<1>3. KernelInv' /\ ListInv' /\ DetailInv' /\ FetchInv' /\ PromptInv' /\ StrayInv'
  BY <1>1, <1>2
  DEF kernel, KernelInv, ListInv, DetailInv, VouchedDataIsOurs, OwnGoneIsTrue,
      Named, FetchInv, FetchOK, Dead, PromptInv, StrayInv, SignalNeverStrays
<1>4. PICK kind \in {"signal", "renice"}, stage \in {"open", "check"},
           pid \in Pids, start \in Starts :
        /\ start <= born[pid]
        /\ kind = "signal" => stage = "open"
        /\ act' = [is |-> kind, pid |-> pid, start |-> start, stage |-> stage,
                   fd |-> NoProc, since |-> born[pid]]
  <2>1. CASE ConfirmKill
    BY <2>1 DEF ConfirmKill, Begin, PromptInv, Named
  <2>2. CASE StopOrContinue
    BY <2>2 DEF StopOrContinue, Begin, DetailInv, Named
  <2>3. CASE Renice
    BY <2>3 DEF Renice, Begin, DetailInv, Named
  <2> QED
    BY <2>1, <2>2, <2>3
<1>5. born[pid] \in Starts /\ born[pid] <= born[pid]
  BY NumberFacts
<1>6. act' \in Act
  BY <1>4, <1>5 DEF Act
<1>7. ActInv'
  BY <1>1, <1>4, <1>5, <1>6 DEF ActInv, Named, kernel
<1> QED
  BY <1>3, <1>7

------------------------------------------------------------------------------
(* Inside a signal or a renice.                                            *)

(* When the handler returns it may refresh the overlay, and nothing else   *)
(* changes; `strays` is the caller's matter.                               *)
LEMMA ReturnKeeps ==
  ASSUME IInv, NEW refused \in BOOLEAN, Return(refused), StrayInv'
  PROVE  IInv'
<1> USE DEF IInv
<1>1. act' = None /\ UNCHANGED <<kernel, rows, walk, detail, prompt>>
  BY DEF Return
<1>2. KernelInv' /\ ListInv' /\ DetailInv' /\ PromptInv' /\ ActInv'
  BY <1>1
  DEF kernel, KernelInv, ListInv, DetailInv, VouchedDataIsOurs, OwnGoneIsTrue,
      Named, PromptInv, ActInv
<1>3. \A y : FetchOK(y) => FetchOK(y)'
  BY <1>1 DEF FetchOK, Dead, kernel
<1>4. CASE fetch' = fetch
  BY <1>2, <1>3, <1>4 DEF FetchInv
<1>5. CASE detail # None /\ LaunchFor(detail.pid)
  <2>1. detail.pid \in Pids
    BY <1>5 DEF DetailInv, Named
  <2>2. Launched(detail.pid) \in Fetch /\ FetchOK(Launched(detail.pid))
    BY <1>5, <2>1, LaunchIsOK
  <2>3. PICK x \in Fetch : x = Launched(detail.pid) /\ FetchOK(x)
    BY <2>2
  <2>4. PICK f \in Fetches : fetch' = [fetch EXCEPT ![f] = x]
    BY <1>5, <2>3 DEF LaunchFor
  <2>5. FetchInv'
    BY <1>3, <2>3, <2>4 DEF FetchInv
  <2> QED
    BY <1>2, <2>5
<1> QED
  BY <1>4, <1>5 DEF Return

(* Steps that stay inside: only `act` changes.                             *)
LEMMA OnlyActChanges ==
  ASSUME IInv, UNCHANGED <<kernel, ui, strays>>, ActInv'
  PROVE  IInv'
  BY DEF IInv, ui, kernel, KernelInv, ListInv, DetailInv, VouchedDataIsOurs, OwnGoneIsTrue,
         Named, FetchInv, FetchOK, Dead, PromptInv, StrayInv, SignalNeverStrays

LEMMA OpenPidfdKeeps ==
  ASSUME IInv, OpenPidfd
  PROVE  IInv'
<1> DEFINE now == proc[act.pid]
<1>1. act # None /\ act \in Act /\ act.stage = "open" /\ act.pid \in Pids
  BY DEF OpenPidfd, IInv, ActInv, Named
<1>2. CASE pidfdOK /\ now = NoProc
  <2>1. Return(TRUE) /\ strays' = strays
    BY <1>2 DEF OpenPidfd
  <2>2. StrayInv'
    BY <2>1 DEF Return, kernel, IInv, StrayInv, SignalNeverStrays
  <2> QED
    BY <2>1, <2>2, ReturnKeeps
<1>3. CASE ~(pidfdOK /\ now = NoProc)
  <2> DEFINE fd == IF pidfdOK THEN now ELSE NoProc
  <2>1. /\ act' = [act EXCEPT !.stage = "check", !.fd = fd]
        /\ UNCHANGED <<kernel, ui, strays>>
    BY <1>3 DEF OpenPidfd
  <2>2. fd \in Starts \cup {NoProc} /\ fd \in {NoProc, born[act.pid]}
          /\ (pidfdOK => fd # NoProc)
    BY <1>1, <1>3 DEF IInv, KernelInv
  <2>3. born[act.pid] <= born[act.pid]
    BY <1>1, NumberFacts DEF IInv
  <2> HIDE DEF fd
  <2>4. /\ act' \in Act /\ act'.stage = "check" /\ act'.fd = fd
        /\ act'.pid = act.pid /\ act'.since = act.since /\ act'.start = act.start
    BY <1>1, <2>1, <2>2 DEF Act
  <2>5. ActInv'
    BY <1>1, <2>1, <2>2, <2>3, <2>4 DEF IInv, ActInv, Named, kernel
  <2> QED
    BY <2>1, <2>5, OnlyActChanges
<1> QED
  BY <1>2, <1>3

(* The check passes only while the process picked is the newest of its     *)
(* PID; since the key press came later than its start, it was the newest   *)
(* then, and the descriptor can pin no other.                              *)
LEMMA CheckStartKeeps ==
  ASSUME IInv, CheckStart
  PROVE  IInv'
<1>1. act # None /\ act \in Act /\ act.stage = "check" /\ act.pid \in Pids
  BY DEF CheckStart, IInv, ActInv, Named
<1>2. CASE ~StartMatches
  <2>1. Return(TRUE) /\ strays' = strays
    BY <1>2 DEF CheckStart
  <2>2. StrayInv'
    BY <2>1 DEF Return, kernel, IInv, StrayInv, SignalNeverStrays
  <2> QED
    BY <2>1, <2>2, ReturnKeeps
<1>3. CASE StartMatches
  <2>1. /\ act' = [act EXCEPT !.stage = "send"]
        /\ UNCHANGED <<kernel, ui, strays>>
    BY <1>3 DEF CheckStart
  <2>2. act.start \in Starts /\ act.since \in Starts /\ act.fd \in Starts \cup {NoProc}
    BY <1>1 DEF Act
  <2>3. born[act.pid] = act.start
    BY <1>1, <1>3, <2>2, StartsFacts DEF StartMatches, IInv, KernelInv
  <2>4. act.since = act.start
    <3>1. act.start <= act.since /\ act.since <= act.start
      BY <1>1, <2>3 DEF IInv, ActInv, Named
    <3>2. act.start \in Nat /\ act.since \in Nat
      BY <2>2, StartsFacts
    <3> QED
      BY <3>1, <3>2, SMT
  <2>5. act.fd \in {NoProc, act.start}
    <3>1. CASE act.fd = NoProc
      BY <3>1
    <3>2. CASE act.fd # NoProc
      <4>1. act.since <= act.fd /\ act.fd <= born[act.pid]
        BY <1>1, <3>2 DEF IInv, ActInv
      <4>2. act.fd \in Nat /\ act.start \in Nat
        BY <2>2, <3>2, StartsFacts
      <4>3. act.start <= act.fd /\ act.fd <= act.start
        BY <2>3, <2>4, <4>1
      <4> QED
        BY <4>2, <4>3, SMT
    <3> QED
      BY <3>1, <3>2
  <2>6. /\ act' \in Act /\ act'.stage = "send" /\ act'.fd = act.fd /\ act'.is = act.is
        /\ act'.pid = act.pid /\ act'.since = act.since /\ act'.start = act.start
    BY <1>1, <2>1 DEF Act
  <2>7. ActInv'
    BY <1>1, <2>1, <2>4, <2>5, <2>6 DEF IInv, ActInv, Named, kernel
  <2> QED
    BY <2>1, <2>7, OnlyActChanges
<1> QED
  BY <1>2, <1>3

LEMMA SendKeeps ==
  ASSUME IInv, Send
  PROVE  IInv'
<1>1. /\ act # None /\ act \in Act /\ act.pid \in Pids
      /\ act.stage = "send" /\ act.since = act.start
      /\ act.fd \in {NoProc, act.start}
      /\ act.is = "signal" /\ pidfdOK => act.fd # NoProc
  BY DEF Send, IInv, ActInv, Named
<1>2. Return(Target = NoProc) /\ strays' = strays \cup Stray(Target)
  BY DEF Send
<1>3. act.start \in Nat /\ act.is \in {"signal", "renice"}
  BY <1>1, StartsFacts DEF Act
<1>4. Stray(Target) \subseteq {act.is}
  <2>1. CASE Target \in {NoProc, act.start}
    BY <2>1 DEF Stray
  <2>2. CASE Target \notin {NoProc, act.start}
    <3>1. Target = proc[act.pid]
      BY <1>1, <2>2 DEF Target
    <3>2. Target = born[act.pid] /\ Target \in Nat
      BY <1>1, <2>2, <3>1, NumberFacts DEF IInv, KernelInv
    <3>3. act.start <= Target
      BY <1>1, <3>2 DEF IInv, ActInv, Named
    <3>4. ~(Target <= act.since)
      BY <1>1, <1>3, <2>2, <3>2, <3>3, SMT
    <3> QED
      BY <2>2, <3>4 DEF Stray
  <2> QED
    BY <2>1, <2>2
<1>5. act.is = "signal" /\ pidfdOK => Stray(Target) = {}
  BY <1>1, StartsFacts DEF Stray, Target
<1>6. StrayInv'
  BY <1>2, <1>3, <1>4, <1>5 DEF Return, kernel, IInv, StrayInv, SignalNeverStrays
<1> QED
  BY <1>2, <1>6, ReturnKeeps

------------------------------------------------------------------------------
LEMMA StepKeeps == IInv /\ [Next]_vars => IInv'
<1> SUFFICES ASSUME IInv, [Next]_vars PROVE IInv'
  OBVIOUS
<1>1. ASSUME NEW p \in Pids, Exit(p) \/ Spawn(p) \/ OpenDetail(p) \/ AskFromList(p)
      PROVE  IInv'
  BY <1>1, KernelKeeps, OpenDetailKeeps, PromptKeeps
<1>2. CASE WalkReads \/ WalkLands
  BY <1>2, WalkKeeps
<1>3. ASSUME NEW f \in Fetches,
             FetchOpens(f) \/ FetchReads(f) \/ FetchEnds(f) \/ DetailLands(f)
      PROVE  IInv'
  BY <1>3, FetchKeeps, DetailLandsKeeps
<1>4. CASE DetailTick
  BY <1>4, LaunchKeeps DEF DetailTick
<1>5. CASE CloseDetail
  BY <1>5, CloseDetailKeeps
<1>6. CASE AskFromDetail \/ CancelPrompt
  BY <1>6, PromptKeeps
<1>7. CASE ConfirmKill \/ StopOrContinue \/ Renice
  BY <1>7, BeginKeeps
<1>8. CASE OpenPidfd
  BY <1>8, OpenPidfdKeeps
<1>9. CASE CheckStart
  BY <1>9, CheckStartKeeps
<1>10. CASE Send
  BY <1>10, SendKeeps
<1>11. CASE UNCHANGED vars
  <2>1. UNCHANGED <<kernel, ui, strays>> /\ act' = act
    BY <1>11 DEF vars
  <2>2. ActInv'
    BY <2>1 DEF IInv, ActInv, Named, kernel
  <2> QED
    BY <2>1, <2>2, OnlyActChanges
<1> QED
  BY <1>1, <1>2, <1>3, <1>4, <1>5, <1>6, <1>7, <1>8, <1>9, <1>10, <1>11 DEF Next

LEMMA Invariant == Spec => []IInv
  BY InitEstablishes, StepKeeps, PTL DEF Spec

------------------------------------------------------------------------------
(* The types; nothing is ever asked or done by PID alone.                  *)
THEOREM TypeCorrect == Spec => []TypeOK
<1>1. IInv => TypeOK
  BY DEF IInv, KernelInv, ListInv, DetailInv, PromptInv, FetchInv, ActInv, StrayInv, TypeOK
<1> QED
  BY Invariant, <1>1, PTL

(* With pidfd_open no signal ever reaches a process other than the one     *)
(* picked, for any number of PIDs, reuses and fetches (procs.go:494-530).  *)
THEOREM SignalsNeverStray == Spec => []SignalNeverStrays
<1>1. IInv => SignalNeverStrays
  BY DEF IInv, StrayInv
<1> QED
  BY Invariant, <1>1, PTL

(* Without it, and for setpriority, only a process younger than the key    *)
(* press can be hit (procs.go:478-492, 576-590).                           *)
THEOREM StandingIsNeverHit == Spec => []StandingNeverHit
<1>1. IInv => StandingNeverHit
  BY DEF IInv, StrayInv, StandingNeverHit
<1> QED
  BY Invariant, <1>1, PTL

(* Data that came with a start time is of the overlay's own process        *)
(* (detail.go:39-57).                                                      *)
THEOREM VouchedIsOurs == Spec => []VouchedDataIsOurs
<1>1. IInv => VouchedDataIsOurs
  BY DEF IInv, DetailInv
<1> QED
  BY Invariant, <1>1, PTL

(* "process exited" is true when an own reply said it (detail.go:43-54).   *)
THEOREM OwnGoneTrue == Spec => []OwnGoneIsTrue
<1>1. IInv => OwnGoneIsTrue
  BY DEF IInv, DetailInv
<1> QED
  BY Invariant, <1>1, PTL

(* A frozen overlay stays frozen until it is closed (detail.go:44-46).     *)
THEOREM GoneStays == Spec => GoneIsFinal
<1>1. ASSUME [Next]_vars
      PROVE  [detail # None /\ detail.gone /\ detail' # None => detail' = detail]_vars
  <2> SUFFICES ASSUME Next, detail # None, detail.gone, detail' # None
               PROVE  detail' = detail
    BY <1>1
  <2>1. ASSUME NEW f \in Fetches, DetailLands(f) PROVE detail' = detail
    BY <2>1 DEF DetailLands, Apply
  <2>2. CASE UNCHANGED detail
    BY <2>2
  <2>3. ~CloseDetail /\ ~\E p \in Pids : OpenDetail(p)
    BY DEF CloseDetail, OpenDetail
  <2> QED
    BY <2>1, <2>2, <2>3
    DEF Next, Exit, Spawn, AskFromList, Ask, WalkReads, WalkLands, FetchOpens, FetchReads,
        FetchEnds, DetailTick, AskFromDetail, CancelPrompt, ConfirmKill, StopOrContinue,
        Renice, OpenPidfd, CheckStart, Send, Return, ui
<1> QED
  BY <1>1, PTL DEF Spec, GoneIsFinal
==============================================================================
