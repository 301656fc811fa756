---------------------------- MODULE AlertDelivery ----------------------------
(***************************************************************************)
(* What becomes of the events the alert engine returns: handleAlertEvents, *)
(* the alert log file and the alert_cmd hook with its bounded queue and    *)
(* single worker goroutine (internal/ui/alerts.go:195-313).  The module    *)
(* composes the engine with that delivery: one tick of the program is an   *)
(* Update of the engine followed by handleAlertEvents.                     *)
(*                                                                         *)
(* The UI goroutine enqueues the events of a tick one by one while the     *)
(* worker takes jobs, so which events a full queue drops depends on how    *)
(* the two interleave.  alert_cmd and alert_log_file are taken as set and  *)
(* `once.Do` as done; the terminal bell is left out.                       *)
(***************************************************************************)
EXTENDS AlertEngine

CONSTANTS
  QueueLen,  (* hookQueueLen (64 in Go)                                    *)
  MaxTicks   (* bound: updates with at least one event                     *)

ASSUME QueueAssumption == QueueLen \in Nat \ {0} /\ MaxTicks \in Nat

Idle == [state |-> "idle"]
Running(e) == [state |-> "running", job |-> e]

VARIABLES
  pending,   (* events handleAlertEvents has still to enqueue              *)
  ch,        (* the hook channel                                           *)
  worker,    (* the goroutine ranging over it                              *)
  alive,     (* the process has not exited                                 *)
  ticks,     (* updates that gave events so far                            *)
  outside,   (* history: the level alert_cmd was last told, per key        *)
  behind,    (* history: keys whose newest hook event was lost             *)
  filed,     (* history: the level the log file's last line of a key tells *)
  unfiled    (* history: keys whose newest line was not written            *)

deliveryVars ==
  <<pending, ch, worker, alive, ticks, outside, behind, filed, unfiled>>
allVars == <<vars, deliveryVars>>

------------------------------------------------------------------------------
Says(e) == IF e.cleared THEN Silent ELSE e.sev
KeysOf(seq) == {seq[i].key : i \in 1..Len(seq)}
Newest(seq, k) == SelectLastInSeq(seq, LAMBDA e : e.key = k)

(* Everything between the engine and the outside, oldest first.            *)
InHand == IF worker.state = "running" THEN <<worker.job>> ELSE <<>>
Chain == InHand \o ch \o pending

DeliveryInit ==
  /\ Init
  /\ pending = <<>>
  /\ ch      = <<>>
  /\ worker  = Idle
  /\ alive   = TRUE
  /\ ticks   = 0
  /\ outside = [k \in Keys |-> Silent]
  /\ behind  = {}
  /\ filed   = [k \in Keys |-> Silent]
  /\ unfiled = {}

(* appendAlertLog stops at the first line it cannot write: `n` lines of    *)
(* the tick reach the file.                                                *)
File(written, failed) ==
  /\ filed' = [k \in Keys |->
       IF k \in KeysOf(written) THEN Says(written[Newest(written, k)])
       ELSE filed[k]]
  /\ unfiled' = (unfiled \ KeysOf(written)) \cup KeysOf(failed)

AppendAlertLogNoClears(n) ==
  File(SelectSeq(SubSeq(events', 1, n), LAMBDA e : ~e.cleared),
       SubSeq(events', n + 1, Len(events')))
AppendAlertLog(n) ==
  File(SubSeq(events', 1, n), SubSeq(events', n + 1, Len(events')))

(* tickMsg with alerts enabled: currentAlertConds, update, then            *)
(* handleAlertEvents up to its enqueue loop.                               *)
Tick(conds) ==
  /\ alive
  /\ pending = <<>>
  /\ Update(conds)
  /\ pending' = events'
  /\ IF events' = <<>> THEN UNCHANGED <<ticks, filed, unfiled>>
     ELSE /\ ticks < MaxTicks
          /\ ticks' = ticks + 1
          /\ \E n \in 0..Len(events') : AppendAlertLog(n)
  /\ UNCHANGED <<ch, worker, alive, outside, behind>>

(* enqueue: `select` with a default, so a full queue drops the event.      *)
EnqueueUnbounded ==
  /\ alive
  /\ pending # <<>>
  /\ pending' = Tail(pending)
  /\ ch' = Append(ch, Head(pending))
  /\ behind' = behind \ {Head(pending).key}
  /\ UNCHANGED <<vars, worker, alive, ticks, outside, filed, unfiled>>

Enqueue ==
  /\ alive
  /\ pending # <<>>
  /\ pending' = Tail(pending)
  /\ LET e == Head(pending)
     IN  \/ /\ Len(ch) < QueueLen
            /\ ch' = Append(ch, e)
            /\ behind' = behind \ {e.key}
         \/ /\ Len(ch) >= QueueLen
            /\ behind' = behind \cup {e.key}
            /\ UNCHANGED ch
  /\ UNCHANGED <<vars, worker, alive, ticks, outside, filed, unfiled>>

TakeAnyJob ==
  /\ alive
  /\ worker = Idle
  /\ \E i \in 1..Len(ch) : worker' = Running(ch[i]) /\ ch' = RemoveAt(ch, i)
  /\ UNCHANGED <<vars, pending, alive, ticks, outside, behind, filed, unfiled>>

(* The worker's `for j := range q.ch`.                                     *)
TakeJob ==
  /\ alive
  /\ worker = Idle
  /\ ch # <<>>
  /\ worker' = Running(Head(ch))
  /\ ch' = Tail(ch)
  /\ UNCHANGED <<vars, pending, alive, ticks, outside, behind, filed, unfiled>>

(* runAlertCmd returned: the command told the outside about the event.     *)
HookDone ==
  /\ alive
  /\ worker.state = "running"
  /\ outside' = [outside EXCEPT ![worker.job.key] = Says(worker.job)]
  /\ worker' = Idle
  /\ UNCHANGED <<vars, pending, ch, alive, ticks, behind, filed, unfiled>>

(* It failed, or its group was killed after alertCmdTimeout: the error is  *)
(* ignored and there is no retry.                                          *)
NotToldAgain(k) == k \notin KeysOf(ch \o pending)
HookFailedStopsWorker ==
  /\ alive
  /\ worker.state = "running"
  /\ behind' = IF NotToldAgain(worker.job.key)
               THEN behind \cup {worker.job.key} ELSE behind
  /\ worker' = [state |-> "gone"]
  /\ UNCHANGED <<vars, pending, ch, alive, ticks, outside, filed, unfiled>>

HookFailed ==
  /\ alive
  /\ worker.state = "running"
  /\ behind' = IF NotToldAgain(worker.job.key)
               THEN behind \cup {worker.job.key} ELSE behind
  /\ worker' = Idle
  /\ UNCHANGED <<vars, pending, ch, alive, ticks, outside, filed, unfiled>>

(* The process exits between two messages of the program: the queue is not *)
(* drained, and a hook that runs is on its own in its process group.       *)
Quit ==
  /\ alive
  /\ pending = <<>>
  /\ alive' = FALSE
  /\ behind' = behind \cup KeysOf(Chain)
  /\ ch' = <<>>
  /\ worker' = Idle
  /\ UNCHANGED <<vars, pending, ticks, outside, filed, unfiled>>

UIStep == Enqueue
WorkerStep == TakeJob \/ HookDone \/ HookFailed

DeliveryNext ==
  \/ \E conds \in [Keys -> Conds] : Tick(conds)
  \/ Enqueue
  \/ TakeJob
  \/ HookDone
  \/ HookFailed
  \/ Quit

(* The UI goroutine finishes the handler it is in; the worker goroutine    *)
(* takes what is in the channel, and every hook returns, at the latest by  *)
(* alertCmdTimeout and WaitDelay.                                          *)
Fairness == WF_allVars(UIStep) /\ WF_allVars(WorkerStep)

DeliverySpec == DeliveryInit /\ [][DeliveryNext]_allVars /\ Fairness

------------------------------------------------------------------------------
(* The hook's view of the machine is the engine's view, up to what is      *)
(* still on its way and what was lost: of each key, the newest event on    *)
(* its way, or else the last one delivered, tells the active severity.     *)
(* One worker in order is what keeps a CLEAR from being overtaken by the   *)
(* RAISE it answers (the comment on hookQueue, alerts.go:225-228), and the *)
(* channel never holds more than hookQueueLen (alerts.go:239).             *)
OutsideAgrees ==
  /\ Len(ch) <= QueueLen
  /\ \A k \in Keys :
       \/ k \in behind /\ k \notin KeysOf(pending)
       \/ IF k \in KeysOf(Chain)
          THEN Says(Chain[Newest(Chain, k)]) = active[k].cond.sev
          ELSE outside[k] = active[k].cond.sev

(* The log file tells of each key what is active, unless the write of its  *)
(* newest line failed (appendAlertLog, alerts.go:262-274).                 *)
FileAgrees ==
  \A k \in Keys : k \in unfiled \/ filed[k] = active[k].cond.sev

(* Once no more events come, the outside is told everything the queue      *)
(* accepted, however many hooks fail or hang on the way.                   *)
Settles ==
  <>[](\A k \in Keys : k \in behind \/ outside[k] = active[k].cond.sev)
==============================================================================
