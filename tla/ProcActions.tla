----------------------------- MODULE ProcActions -----------------------------
(***************************************************************************)
(* Acting on a process from the Processes tab while the kernel goes on     *)
(* starting and reaping processes: the list, the detail overlay, the kill  *)
(* prompt, and the probe functions that signal and renice                  *)
(* (internal/ui/detail.go, the key handling of internal/ui/model.go, and   *)
(* internal/probe/procs.go).                                               *)
(*                                                                         *)
(* A process is a PID and its start time.  A PID is reused by later        *)
(* processes, each with a later start time; start times begin at 1 here,   *)
(* and 0 is the code's "start time unknown", which a list row never has.   *)
(* A read of /proc fails only when the process is gone.  The UI is one     *)
(* goroutine: while it is inside a signal or a renice it handles no        *)
(* message, but the kernel and the fetch goroutines move on.  Which of the *)
(* overlay's fetches the in-flight guard holds back is FetchGuard's matter *)
(* and left out here: any number up to the bound may run.                  *)
(***************************************************************************)
EXTENDS Integers, FiniteSets

CONSTANTS
  Pids,
  MaxStart,  (* bound: processes that ever have a given PID                *)
  Fetches    (* bound: identities of detail fetches in flight              *)

ASSUME ProcAssumption ==
  /\ MaxStart \in Nat \ {0}
  /\ IsFiniteSet(Pids)

NoProc == 0
Starts == 1..MaxStart

None == [is |-> "none"]

VARIABLES
  proc,    (* kernel: start time of the live process with each PID         *)
  born,    (* kernel: the last start time given out for each PID           *)
  pidfdOK, (* kernel: pidfd_open is there and permitted                    *)
  rows,    (* the list: start time shown for each PID, NoProc if absent    *)
  walk,    (* the /proc walk in flight: None, or what it read              *)
  detail,  (* m.detail                                                     *)
  prompt,  (* m.procsKill                                                  *)
  fetch,   (* the detail fetches in flight                                 *)
  act,     (* the signal or renice the UI goroutine is inside              *)
  strays   (* history: the ways in which another process was hit           *)

kernel == <<proc, born, pidfdOK>>
ui     == <<rows, walk, detail, prompt, fetch>>
vars   == <<kernel, ui, act, strays>>

Init ==
  /\ proc = [p \in Pids |-> 1]
  /\ born = [p \in Pids |-> 1]
  /\ pidfdOK \in BOOLEAN
  /\ rows = [p \in Pids |-> NoProc]
  /\ walk = None
  /\ detail = None
  /\ prompt = None
  /\ fetch = [f \in Fetches |-> None]
  /\ act = None
  /\ strays = {}

------------------------------------------------------------------------------
(* The kernel.                                                             *)
Exit(p) ==
  /\ proc[p] # NoProc
  /\ proc' = [proc EXCEPT ![p] = NoProc]
  /\ UNCHANGED <<born, pidfdOK, ui, act, strays>>

Spawn(p) ==
  /\ proc[p] = NoProc
  /\ born[p] < MaxStart
  /\ proc' = [proc EXCEPT ![p] = born[p] + 1]
  /\ born' = [born EXCEPT ![p] = @ + 1]
  /\ UNCHANGED <<pidfdOK, ui, act, strays>>

------------------------------------------------------------------------------
(* ProcSampler.List and its procMsg, one walk at a time.                   *)
WalkReads ==
  /\ walk = None
  /\ walk' = [is |-> "read", rows |-> proc]
  /\ UNCHANGED <<kernel, rows, detail, prompt, fetch, act, strays>>

WalkLands ==
  /\ act = None
  /\ walk # None
  /\ rows' = walk.rows
  /\ walk' = None
  /\ UNCHANGED <<kernel, detail, prompt, fetch, act, strays>>

------------------------------------------------------------------------------
(* GetProcDetail: NewProcess, a first read of the start time whose error   *)
(* is ignored, the fields, and a second read.  `data` is the process whose *)
(* fields the answer holds.  `own` is history: the overlay that launched   *)
(* the fetch is still the open one; the code keeps no record of that.      *)
(* Definitions named for a fault are faulty variants of the one that       *)
(* follows; the specification does not use them.                           *)
Launched(pid) ==
  [is |-> "launched", pid |-> pid, start |-> NoProc, data |-> NoProc, own |-> TRUE]
FreeSlot == \E f \in Fetches : fetch[f] = None
LaunchFor(pid) ==
  \E f \in Fetches : fetch[f] = None /\ fetch' = [fetch EXCEPT ![f] = Launched(pid)]

Fetched(f) == proc[fetch[f].pid]

FetchOpens(f) ==
  /\ fetch[f].is = "launched"
  /\ fetch' = [fetch EXCEPT
       ![f].is = IF Fetched(f) = NoProc THEN "failed" ELSE "opened"]
  /\ UNCHANGED <<kernel, rows, walk, detail, prompt, act, strays>>

FetchReads(f) ==
  /\ fetch[f].is = "opened"
  /\ fetch' = [fetch EXCEPT ![f].is = "read", ![f].start = Fetched(f)]
  /\ UNCHANGED <<kernel, rows, walk, detail, prompt, act, strays>>

FetchEnds(f) ==
  /\ fetch[f].is = "read"
  /\ LET gone == Fetched(f) = NoProc \/ fetch[f].start \notin {NoProc, Fetched(f)}
     IN  fetch' = [fetch EXCEPT ![f].is = IF gone THEN "failed" ELSE "answered",
                                ![f].data = IF gone THEN NoProc ELSE Fetched(f)]
  /\ UNCHANGED <<kernel, rows, walk, detail, prompt, act, strays>>

(* apply.  `shown` is the process whose data is shown; `vouched`, that its *)
(* answer carried a start time; `byOwn`, that an own reply said "gone".    *)
Show(msg) == [detail EXCEPT !.shown = msg.data, !.vouched = msg.start # NoProc]
Freeze(msg) == [detail EXCEPT !.gone = TRUE, !.byOwn = msg.own]

ApplyUnchecked(msg) ==
  CASE detail.gone       -> detail
    [] ~detail.gone /\ msg.is = "failed" -> Freeze(msg)
    [] OTHER             -> Show(msg)

ApplyComparesShown(msg) ==
  CASE detail.gone -> detail
    [] ~detail.gone /\ (msg.is = "failed" \/ msg.start \notin {NoProc, detail.shown})
                   -> Freeze(msg)
    [] OTHER       -> Show(msg)

Apply(msg) ==
  CASE detail.gone -> detail
    [] ~detail.gone /\ (msg.is = "failed" \/ msg.start \notin {NoProc, detail.start})
                   -> Freeze(msg)
    [] OTHER       -> Show(msg)

DetailLands(f) ==
  /\ act = None
  /\ fetch[f].is \in {"answered", "failed"}
  /\ detail' = IF detail # None /\ detail.pid = fetch[f].pid
               THEN Apply(fetch[f]) ELSE detail
  /\ fetch' = [fetch EXCEPT ![f] = None]
  /\ UNCHANGED <<kernel, rows, walk, prompt, act, strays>>

(* The process tick, with an overlay that is not gone.                     *)
DetailTick ==
  /\ act = None
  /\ detail # None /\ ~detail.gone
  /\ LaunchFor(detail.pid)
  /\ UNCHANGED <<kernel, rows, walk, detail, prompt, act, strays>>

------------------------------------------------------------------------------
(* Keys.  A prompt captures them all; an open overlay captures the rest.   *)
OpenDetail(p) ==
  /\ act = None /\ prompt = None /\ detail = None
  /\ rows[p] # NoProc
  /\ detail' = [is |-> "open", pid |-> p, start |-> rows[p], gone |-> FALSE,
                shown |-> NoProc, vouched |-> TRUE, byOwn |-> FALSE]
  /\ LaunchFor(p)
  /\ UNCHANGED <<kernel, rows, walk, prompt, act, strays>>

CloseDetail ==
  /\ act = None /\ prompt = None /\ detail # None
  /\ detail' = None
  /\ fetch' = [f \in Fetches |->
       IF fetch[f] = None THEN None ELSE [fetch[f] EXCEPT !.own = FALSE]]
  /\ UNCHANGED <<kernel, rows, walk, prompt, act, strays>>

Ask(pid, start) ==
  /\ prompt' = [is |-> "asking", pid |-> pid, start |-> start]
  /\ UNCHANGED <<kernel, rows, walk, detail, fetch, act, strays>>

AskFromList(p) ==
  /\ act = None /\ prompt = None /\ detail = None
  /\ rows[p] # NoProc
  /\ Ask(p, rows[p])

AskFromDetail ==
  /\ act = None /\ prompt = None
  /\ detail # None /\ ~detail.gone
  /\ Ask(detail.pid, detail.start)

CancelPrompt ==
  /\ act = None /\ prompt # None
  /\ prompt' = None
  /\ UNCHANGED <<kernel, rows, walk, detail, fetch, act, strays>>

(* `since` is history: the last process with that PID at the key press.    *)
Begin(kind, target, stage) ==
  act' = [is |-> kind, pid |-> target.pid, start |-> target.start,
          stage |-> stage, fd |-> NoProc, since |-> born[target.pid]]

ConfirmKill ==
  /\ act = None /\ prompt # None
  /\ detail # None => FreeSlot
  /\ prompt' = None
  /\ Begin("signal", prompt, "open")
  /\ UNCHANGED <<kernel, rows, walk, detail, fetch, strays>>

(* p and c: SuspendProcess, ResumeProcess.                                 *)
StopOrContinue ==
  /\ act = None /\ prompt = None /\ FreeSlot
  /\ detail # None /\ ~detail.gone
  /\ Begin("signal", detail, "open")
  /\ UNCHANGED <<kernel, ui, strays>>

(* + and -: reniceDetail, once the overlay has loaded.                     *)
Renice ==
  /\ act = None /\ prompt = None /\ FreeSlot
  /\ detail # None /\ ~detail.gone /\ detail.shown # NoProc
  /\ Begin("renice", detail, "check")
  /\ UNCHANGED <<kernel, ui, strays>>

------------------------------------------------------------------------------
(* signalProc and SetNice, one system call at a time.  When they return,   *)
(* the handler refreshes an open overlay (a failed renice does not).       *)
Return(refused) ==
  /\ act' = None
  /\ IF detail # None /\ ~(refused /\ act.is = "renice")
     THEN LaunchFor(detail.pid) ELSE UNCHANGED fetch
  /\ UNCHANGED <<kernel, rows, walk, detail, prompt>>

OpenPidfd ==
  /\ act # None /\ act.stage = "open"
  /\ IF pidfdOK /\ proc[act.pid] = NoProc
     THEN Return(TRUE) /\ UNCHANGED strays
     ELSE /\ act' = [act EXCEPT !.stage = "check",
                                !.fd = IF pidfdOK THEN proc[act.pid] ELSE NoProc]
          /\ UNCHANGED <<kernel, ui, strays>>

StartUnchecked == proc[act.pid] # NoProc
StartMatches == proc[act.pid] = act.start

CheckStart ==
  /\ act # None /\ act.stage = "check"
  /\ IF StartMatches
     THEN /\ act' = [act EXCEPT !.stage = "send"]
          /\ UNCHANGED <<kernel, ui, strays>>
     ELSE Return(TRUE) /\ UNCHANGED strays

(* PidfdSendSignal reaches the process the descriptor pins; kill and       *)
(* setpriority reach whatever has the PID now.                             *)
TargetByPid == proc[act.pid]
Target ==
  IF act.fd = NoProc THEN proc[act.pid]
  ELSE IF proc[act.pid] = act.fd THEN act.fd ELSE NoProc

Stray(target) ==
  IF target \in {NoProc, act.start} THEN {}
  ELSE {act.is} \cup (IF target <= act.since THEN {"standing"} ELSE {})

Send ==
  /\ act # None /\ act.stage = "send"
  /\ strays' = strays \cup Stray(Target)
  /\ Return(Target = NoProc)

Next ==
  \/ \E p \in Pids : Exit(p) \/ Spawn(p) \/ OpenDetail(p) \/ AskFromList(p)
  \/ WalkReads
  \/ WalkLands
  \/ \E f \in Fetches : FetchOpens(f) \/ FetchReads(f) \/ FetchEnds(f) \/ DetailLands(f)
  \/ DetailTick
  \/ CloseDetail
  \/ AskFromDetail
  \/ CancelPrompt
  \/ ConfirmKill
  \/ StopOrContinue
  \/ Renice
  \/ OpenPidfd
  \/ CheckStart
  \/ Send

Spec == Init /\ [][Next]_vars

------------------------------------------------------------------------------
Detail ==
  [is : {"open"}, pid : Pids, start : Starts, gone : BOOLEAN,
   shown : Starts \cup {NoProc}, vouched : BOOLEAN, byOwn : BOOLEAN]
Fetch ==
  [is : {"launched", "opened", "read", "answered", "failed"}, pid : Pids,
   start : Starts \cup {NoProc}, data : Starts \cup {NoProc}, own : BOOLEAN]
Act ==
  [is : {"signal", "renice"}, pid : Pids, start : Starts,
   stage : {"open", "check", "send"}, fd : Starts \cup {NoProc}, since : Starts]

(* Types; whatever is asked or done names its process by PID and start     *)
(* time, never by PID alone (killPrompt, model.go:127-132).                *)
TypeOK ==
  /\ proc \in [Pids -> Starts \cup {NoProc}]
  /\ born \in [Pids -> Starts]
  /\ pidfdOK \in BOOLEAN
  /\ rows \in [Pids -> Starts \cup {NoProc}]
  /\ walk \in {None} \cup [is : {"read"}, rows : [Pids -> Starts \cup {NoProc}]]
  /\ detail \in {None} \cup Detail
  /\ prompt \in {None} \cup [is : {"asking"}, pid : Pids, start : Starts]
  /\ fetch \in [Fetches -> {None} \cup Fetch]
  /\ act \in {None} \cup Act
  /\ strays \subseteq {"signal", "renice", "standing"}

(* Where there is a pidfd, a signal reaches the process the user picked or *)
(* nobody, however long the prompt was up and whatever the kernel reaped   *)
(* and started between any two system calls (signalProc, procs.go:494-530).*)
SignalNeverStrays == pidfdOK => "signal" \notin strays

(* Even by PID alone (an old kernel, or setpriority) only a process that   *)
(* started after the key press can be hit in place of the one picked: the  *)
(* window is the one SetNice's comment admits, not the minutes a prompt or *)
(* a row was on screen (checkStart, procs.go:478-492, 576-590).            *)
StandingNeverHit == "standing" \notin strays

(* Data that came with a start time is that of the process the overlay was *)
(* opened on, whatever replies of earlier overlays land (detail.go:39-57). *)
VouchedDataIsOurs ==
  detail # None /\ detail.vouched => detail.shown \in {NoProc, detail.start}

(* An overlay says "process exited" truthfully when the reply that told it *)
(* was launched by that overlay.                                           *)
OwnGoneIsTrue ==
  detail # None /\ detail.gone /\ detail.byOwn =>
    proc[detail.pid] # detail.start

(* Once it says so it is frozen: a late reply changes nothing of it.       *)
GoneIsFinal ==
  [][detail # None /\ detail.gone /\ detail' # None => detail' = detail]_vars

(* The comment on apply (detail.go:39-42): the overlay freezes "rather     *)
(* than silently showing - and then signalling - an unrelated process".    *)
ShowsOnlyItsProcess ==
  detail # None => detail.shown \in {NoProc, detail.start}
==============================================================================
