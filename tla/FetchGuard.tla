----------------------------- MODULE FetchGuard -----------------------------
(***************************************************************************)
(* The sampling loop of the Bubble Tea model: the heartbeat tick, the      *)
(* fetches it dispatches, the in-flight guard of every kind of fetch and   *)
(* the replies that clear it (internal/ui/behind.go, Model.Init and the    *)
(* message cases of Model.Update in internal/ui/model.go).                 *)
(*                                                                         *)
(* Every fetch runs in a goroutine of its own and its reply comes back as  *)
(* a message, in any order and after any delay.  What the replies carry is *)
(* not modelled here, nor is the header's badge of late probes             *)
(* (behindSkips, behindAt), which nothing else reads.  Kinds with the same *)
(* rate and the same guard are interchangeable: Fast, ProcRate and Slow    *)
(* hold one representative or more of each.  Cpu, Mem, Kmsg and Detail are *)
(* the kinds with rules of their own.                                      *)
(***************************************************************************)
EXTENDS Integers, FiniteSets

CONSTANTS
  Fast,         (* kinds fetched on every tick, Cpu and Mem among them     *)
  ProcRate,     (* kinds fetched every procEvery ticks                     *)
  Slow,         (* kinds fetched every slowEvery ticks                     *)
  Cpu, Mem,     (* fetchCPU, fetchMem                                      *)
  Kmsg,         (* fetchKmsg: not primed, and goes on while paused         *)
  Detail,       (* fetchDetail: also launched by keys, without the guard   *)
  UserKinds,    (* kinds a key refreshes through queueUser                 *)
  Disabled,     (* kinds whose command builder returns nil                 *)
  ErrKinds,     (* kinds whose fetch can answer with an error              *)
  procEvery, slowEvery,
  KmsgMaxErrors,
  MaxDetail     (* bound: detail fetches running at once                   *)

Kinds  == Fast \cup ProcRate \cup Slow \cup {Kmsg, Detail}
Primed == Fast \cup ProcRate \cup Slow

ASSUME KindsAssumption ==
  /\ Cpu \in Fast /\ Mem \in Fast /\ Cpu # Mem
  /\ Kmsg \notin Primed /\ Detail \notin Primed /\ Kmsg # Detail
  /\ UserKinds \subseteq ProcRate \cup Slow
  /\ Disabled \subseteq ProcRate
  /\ ErrKinds \subseteq Primed
ASSUME RateAssumption ==
  /\ procEvery \in Nat \ {0}
  /\ slowEvery \in Nat \ {0}
  /\ KmsgMaxErrors \in Nat \ {0}
  /\ MaxDetail \in Nat

None == "none"

VARIABLES
  ticking,    (* a tickEvery command is pending                            *)
  paused,
  tickCount,  (* modulo procEvery * slowEvery, which is all it is used for *)
  inFlight,   (* the guards                                                *)
  running,    (* goroutines of each kind that have not answered            *)
  detail,     (* the overlay: "closed", "open" or "gone"                   *)
  kmsgErrs,   (* klog.errs                                                 *)
  kmsgOpen,   (* m.kmsg is not nil                                         *)
  err         (* the kind m.err speaks of, None for nil                    *)

vars == <<ticking, paused, tickCount, inFlight, running, detail,
          kmsgErrs, kmsgOpen, err>>

Cycle == procEvery * slowEvery

Init ==
  /\ ticking   = TRUE
  /\ paused    = FALSE
  /\ tickCount = 0
  /\ inFlight  = [k \in Kinds |-> FALSE]
  /\ running   = [k \in Kinds |-> IF k \in Primed \ Disabled THEN 1 ELSE 0]
  /\ detail    = "closed"
  /\ kmsgErrs  = 0
  /\ kmsgOpen  = TRUE
  /\ err       = None

------------------------------------------------------------------------------
(* The kinds a tick queues; n is the tick counter after the tick.          *)
KmsgDue == IF kmsgOpen THEN {Kmsg} ELSE {}

PausedDueNothing == {}
PausedDue == {Mem} \cup KmsgDue

Due(n) ==
  Fast \cup KmsgDue
    \cup (IF n % procEvery = 0
          THEN ProcRate \cup (IF detail = "open" THEN {Detail} ELSE {}) ELSE {})
    \cup (IF n % slowEvery = 0 THEN Slow ELSE {})

(* queue, for a set of kinds.  Faulty variants of a definition come before *)
(* it, named for their fault; the specification does not use them.         *)
QueueRaisesForNil(due) ==
  LET start == {k \in due : ~inFlight[k]}
  IN  /\ inFlight' = [k \in Kinds |-> inFlight[k] \/ k \in start]
      /\ running' = [k \in Kinds |->
           IF k \in start \ Disabled THEN running[k] + 1 ELSE running[k]]

QueueUnguarded(due) ==
  LET start == due \ Disabled
  IN  /\ inFlight' = [k \in Kinds |-> inFlight[k] \/ k \in start]
      /\ running' = [k \in Kinds |->
           IF k \in start /\ running[k] < 3 THEN running[k] + 1 ELSE running[k]]

Queue(due) ==
  LET start == {k \in due \ Disabled : ~inFlight[k]}
  IN  /\ inFlight' = [k \in Kinds |-> inFlight[k] \/ k \in start]
      /\ running' = [k \in Kinds |->
           IF k \in start THEN running[k] + 1 ELSE running[k]]

(* tickMsg: both branches start with tickEvery.                            *)
Tick ==
  /\ ticking
  /\ ticking' = TRUE
  /\ IF paused
     THEN Queue(PausedDue) /\ UNCHANGED tickCount
     ELSE /\ Queue(Due((tickCount + 1) % Cycle))
          /\ tickCount' = (tickCount + 1) % Cycle
  /\ UNCHANGED <<paused, detail, kmsgErrs, kmsgOpen, err>>

(* done                                                                    *)
Answered(k) ==
  /\ running[k] > 0
  /\ running' = [running EXCEPT ![k] = @ - 1]
  /\ inFlight' = [inFlight EXCEPT ![k] = FALSE]

(* A result lands.  Only a cpuMsg clears the error line.                   *)
ReplyKeepsError(k) ==
  /\ k \notin {Kmsg, Detail}
  /\ Answered(k)
  /\ UNCHANGED <<ticking, paused, tickCount, detail, kmsgErrs, kmsgOpen, err>>
Reply(k) ==
  /\ k \notin {Kmsg, Detail}
  /\ Answered(k)
  /\ err' = IF k = Cpu THEN None ELSE err
  /\ UNCHANGED <<ticking, paused, tickCount, detail, kmsgErrs, kmsgOpen>>

(* errMsg, or a procMsg that carries its error.                            *)
ErrorReplyKeepsGuard(k) ==
  /\ k \in ErrKinds
  /\ running[k] > 0
  /\ running' = [running EXCEPT ![k] = @ - 1]
  /\ err' = k
  /\ UNCHANGED <<inFlight, ticking, paused, tickCount, detail, kmsgErrs,
                 kmsgOpen>>
ErrorReply(k) ==
  /\ k \in ErrKinds
  /\ Answered(k)
  /\ err' = k
  /\ UNCHANGED <<ticking, paused, tickCount, detail, kmsgErrs, kmsgOpen>>

(* procDetailMsg.  `gone`: the reply finds the process gone.  A reply for  *)
(* another PID, or with no overlay open, only clears the guard.            *)
DetailReply(gone) ==
  /\ Answered(Detail)
  /\ detail' \in {detail} \cup (IF gone /\ detail = "open" THEN {"gone"} ELSE {})
  /\ UNCHANGED <<ticking, paused, tickCount, kmsgErrs, kmsgOpen, err>>

(* handleKmsg                                                              *)
KmsgReply(failed) ==
  /\ Answered(Kmsg)
  /\ kmsgErrs' = IF failed THEN kmsgErrs + 1 ELSE 0
  /\ kmsgOpen' = (kmsgOpen /\ ~(failed /\ kmsgErrs + 1 >= KmsgMaxErrors))
  /\ UNCHANGED <<ticking, paused, tickCount, detail, err>>

------------------------------------------------------------------------------
(* Keys.                                                                   *)
TogglePause ==
  /\ paused' = ~paused
  /\ UNCHANGED <<ticking, tickCount, inFlight, running, detail,
                 kmsgErrs, kmsgOpen, err>>

(* queueUser: the backlight keys for gpu/soc.                              *)
QueueUser(k) ==
  /\ ~inFlight[k]
  /\ k \notin Disabled
  /\ inFlight' = [inFlight EXCEPT ![k] = TRUE]
  /\ running' = [running EXCEPT ![k] = @ + 1]

UserRefresh(k) ==
  /\ k \in Slow
  /\ QueueUser(k)
  /\ UNCHANGED <<ticking, paused, tickCount, detail, kmsgErrs,
                 kmsgOpen, err>>

(* The y of the kill prompt refreshes the list through queueUser and, when *)
(* the overlay is open, launches a detail fetch without asking the guard.  *)
ConfirmKill(k) ==
  /\ k \in ProcRate
  /\ detail # "closed" => running[Detail] < MaxDetail
  /\ LET list == IF inFlight[k] \/ k \in Disabled THEN {} ELSE {k}
         over == IF detail # "closed" THEN {Detail} ELSE {}
     IN  /\ inFlight' = [j \in Kinds |-> inFlight[j] \/ j \in list]
         /\ running' = [j \in Kinds |->
              IF j \in list \cup over THEN running[j] + 1 ELSE running[j]]
  /\ UNCHANGED <<ticking, paused, tickCount, detail, kmsgErrs,
                 kmsgOpen, err>>

(* enter opens the overlay; p, c and renice refresh it.                    *)
OpenDetail ==
  /\ detail = "closed"
  /\ running[Detail] < MaxDetail
  /\ detail' = "open"
  /\ running' = [running EXCEPT ![Detail] = @ + 1]
  /\ UNCHANGED <<ticking, paused, tickCount, inFlight, kmsgErrs,
                 kmsgOpen, err>>

RefreshDetail ==
  /\ detail = "open"
  /\ running[Detail] < MaxDetail
  /\ running' = [running EXCEPT ![Detail] = @ + 1]
  /\ UNCHANGED <<ticking, paused, tickCount, inFlight, detail,
                 kmsgErrs, kmsgOpen, err>>

CloseDetail ==
  /\ detail # "closed"
  /\ detail' = "closed"
  /\ UNCHANGED <<ticking, paused, tickCount, inFlight, running,
                 kmsgErrs, kmsgOpen, err>>

Arrives(k) ==
  \/ Reply(k)
  \/ ErrorReply(k)
  \/ k = Detail /\ \E gone \in BOOLEAN : DetailReply(gone)
  \/ k = Kmsg /\ \E failed \in BOOLEAN : KmsgReply(failed)

Next ==
  \/ Tick
  \/ \E k \in Kinds : Arrives(k)
  \/ TogglePause
  \/ \E k \in UserKinds : UserRefresh(k)
  \/ \E k \in UserKinds : ConfirmKill(k)
  \/ OpenDetail
  \/ RefreshDetail
  \/ CloseDetail

(* The timer fires, and the fetches of Live come back.                     *)
Fairness(live) ==
  /\ WF_vars(Tick)
  /\ \A k \in live : WF_vars(Arrives(k))

Spec == Init /\ [][Next]_vars
(* Every fetch but the process walk comes back: it hangs on a dead mount.  *)
HungSpec == Spec /\ Fairness(Kinds \ ProcRate)

------------------------------------------------------------------------------
TypeOK ==
  /\ ticking \in BOOLEAN
  /\ paused \in BOOLEAN
  /\ tickCount \in 0..Cycle - 1
  /\ inFlight \in [Kinds -> BOOLEAN]
  /\ running \in [Kinds -> Nat]
  /\ detail \in {"closed", "open", "gone"}
  /\ kmsgErrs \in 0..KmsgMaxErrors
  /\ kmsgOpen \in BOOLEAN
  /\ err \in ErrKinds \cup {None}

(* No probe is silenced for good: a guard that is up has a goroutine that  *)
(* will answer and clear it, whatever unguarded replies, errors and nil    *)
(* commands came in between (behind.go:73-106).                            *)
GuardIsAnswered ==
  \A k \in Kinds : inFlight[k] => running[k] > 0

(* Rounds do not pile up: a kind has at most its guarded round and, when   *)
(* Init primed it, the one Init launched without a guard (behind.go:69-72, *)
(* model.go:412-436).  The reply of either clears the guard of the other,  *)
(* so the second round is not confined to start-up.                        *)
PrimeOf(k) == IF k \in Primed THEN 1 ELSE 0
RoundsBounded ==
  \A k \in Kinds \ {Detail} :
    running[k] <= PrimeOf(k) + (IF inFlight[k] THEN 1 ELSE 0)

(* Once the log is given up, no read of it is in flight, so the descriptor *)
(* is closed once and never read again (handleKmsg, kernlog.go:189-194).   *)
KmsgClosedIsQuiet ==
  ~kmsgOpen => running[Kmsg] = 0

(* No kind ever has a goroutine too many: not a pile of rounds, not one on *)
(* a closed log (behind.go:69-106, kernlog.go:189-194).                    *)
NoRoundTooMany == RoundsBounded /\ KmsgClosedIsQuiet

(* Event streams go on while sampling is paused: the OOM counter is read   *)
(* again and again, and the kernel log until it is given up                *)
(* (model.go:750-762).                                                     *)
EventsFlow ==
  /\ []<>(running[Mem] > 0)
  /\ []<>(~kmsgOpen \/ running[Kmsg] > 0)

(* A hung /proc walk holds up nothing but itself: every other enabled kind *)
(* is fetched again and again unless sampling is paused again and again    *)
(* (DESIGN.md:694-698).                                                    *)
OthersKeepSampling ==
  \A k \in Fast \cup Slow : []<>paused \/ []<>(running[k] > 0)

(* The error line of another probe is not there for good: unless sampling  *)
(* is paused again and again, the CPU rounds clear or replace it           *)
(* (model.go:806-810, 984-987).                                            *)
ErrorClears ==
  \A k \in ErrKinds \ {Cpu} : []<>paused \/ []<>(err # k)

(* What behind.go:69-72 says of queue: a round is not dispatched on top of *)
(* one that still runs; and DESIGN.md:707-709 of the priming fetches.      *)
OneRoundAtATime ==
  \A k \in Kinds \ {Detail} : running[k] <= 1
==============================================================================
