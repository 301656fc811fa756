------------------------------ MODULE KernelLog ------------------------------
(***************************************************************************)
(* Following /dev/kmsg: the kernel's ring of records, the watcher that     *)
(* drains and classifies them (internal/probe/kmsg.go), and the groups of  *)
(* events whose alerts stay up for a window after the last one             *)
(* (internal/ui/kernlog.go).                                               *)
(*                                                                         *)
(* At most one read is in flight (FetchGuard).  What an OOM line does to   *)
(* the tracker of kills is in OomTracker.                                  *)
(***************************************************************************)
EXTENDS Naturals, Sequences, Filters

CONSTANTS
  Lines,       (* records: [user, says, name]; a name only for "storage"   *)
  DiskOf,      (* the disk each block device name belongs to (WholeDisk)   *)
  OnHost,      (* the disks on each MMC host (mmcHostDisk); often none     *)
  Virtual,     (* block devices that are not storage (reVirtualDisk)       *)
  EventWindow, (* eventWindow, event alerts being on                       *)
  RingSize,    (* records the kernel keeps                                 *)
  MaxPerRead,  (* kmsgMaxPerRead (2000 in Go)                              *)
  MaxErrors,   (* kmsgMaxErrors (5 in Go)                                  *)
  MaxLinesWritten, (* bound: records written                               *)
  MaxNow       (* bound: the clock                                         *)

ASSUME KernelLogAssumption ==
  /\ EventWindow \in Nat \ {0}
  /\ RingSize \in Nat \ {0}
  /\ MaxPerRead \in Nat \ {0}
  /\ MaxErrors \in Nat \ {0}
  /\ Virtual \cap (DOMAIN OnHost \cup DOMAIN DiskOf) = {}
  /\ DOMAIN OnHost \cap DOMAIN DiskOf = {}
  /\ MaxLinesWritten \in Nat
  /\ MaxNow \in Nat

Disks == {DiskOf[n] : n \in DOMAIN DiskOf} \cup UNION {OnHost[h] : h \in DOMAIN OnHost}
UnderVoltage == "kuv"
AlertKeys == {UnderVoltage} \cup Disks

VARIABLES
  now,         (* the time, and that of the latest tick (alertNow)         *)
  ring,        (* records not read yet, oldest first                       *)
  lapped,      (* the ring wrapped past the reader: its next read is EPIPE *)
  written,     (* records so far                                           *)
  drain,       (* the read in flight or its answer                         *)
  groups,      (* kernelLog.groups; {} for a key that has none             *)
  hiddenDisks, (* Model.hiddenDisks                                        *)
  errs,        (* failed reads in a row; MaxErrors: no longer following    *)
  told         (* history: per key, the times of the events handled        *)

kernelLogVars ==
  <<now, ring, lapped, written, drain, groups, hiddenDisks, errs, told>>

------------------------------------------------------------------------------
NoDrain == [state |-> "none"]
Following == errs < MaxErrors

KernelLogInit ==
  /\ now = 0
  /\ ring = <<>>          (* OpenKmsgAt skips what is already there        *)
  /\ lapped = FALSE
  /\ written = 0
  /\ drain = NoDrain
  /\ groups = [k \in AlertKeys |-> {}]
  /\ hiddenDisks = {}
  /\ errs = 0
  /\ told = [k \in AlertKeys |-> {}]

(* A kernel or a user program logs; a full ring drops its oldest record.   *)
WriteRecord(line) ==
  /\ written < MaxLinesWritten
  /\ written' = written + 1
  /\ LET r == [line |-> line, at |-> now]
     IN  IF Len(ring) < RingSize
         THEN ring' = Append(ring, r) /\ UNCHANGED lapped
         ELSE ring' = Append(Tail(ring), r) /\ lapped' = TRUE
  /\ UNCHANGED <<now, drain, groups, hiddenDisks, errs, told>>

KernelLogTick ==
  /\ now < MaxNow
  /\ now' = now + 1
  /\ UNCHANGED <<ring, lapped, written, drain, groups, hiddenDisks, errs, told>>

------------------------------------------------------------------------------
(* parseKmsgRecord, ClassifyKernelLine and the lookup of an MMC host: the  *)
(* key of the alert a record is an event of, or none.  A record user space *)
(* wrote is not the kernel's word, a host without a disk is not storage.   *)
KeysOfLine(line) ==
  IF line.user THEN {}
  ELSE CASE line.says = "uv" -> {UnderVoltage}
         [] line.says = "storage" /\ line.name \in Virtual -> {}
         [] line.says = "storage" /\ line.name \in DOMAIN OnHost -> OnHost[line.name]
         [] line.says = "storage" /\ line.name \in DOMAIN DiskOf -> {DiskOf[line.name]}
         [] OTHER -> {}

EventOf(r) == [at |-> r.at, key |-> CHOOSE k \in KeysOfLine(r.line) : TRUE]
Classified(records) ==
  LET events == Picked(records, {i \in DOMAIN records : KeysOfLine(records[i].line) # {}})
  IN  [i \in DOMAIN events |-> EventOf(events[i])]

(* KmsgWatcher.Read: one record per read until the ring is empty, the cap  *)
(* is reached or a read fails; EPIPE costs a read and resumes at the       *)
(* oldest record.                                                          *)
Reads == IF lapped THEN MaxPerRead - 1 ELSE MaxPerRead
Drainable == IF Len(ring) < Reads THEN Len(ring) ELSE Reads

Drain(n, failed) ==
  /\ Following
  /\ drain = NoDrain
  /\ n <= Drainable
  /\ n < Drainable => failed
  /\ drain' = [state |-> "read", failed |-> failed,
               events |-> Classified(SubSeq(ring, 1, n))]
  /\ ring' = SubSeq(ring, n + 1, Len(ring))
  /\ lapped' = FALSE
  /\ UNCHANGED <<now, written, groups, hiddenDisks, errs, told>>

------------------------------------------------------------------------------
Extended(g, ev) ==
  IF g = {} THEN {[first |-> ev.at, last |-> ev.at, count |-> 1]}
  ELSE {[x EXCEPT !.last = ev.at, !.count = @ + 1] : x \in g}

(* observe: an event of a disk all of whose mounts are ignored is ignored. *)
Heeded(events) == Picked(events, {i \in DOMAIN events : events[i].key \notin hiddenDisks})
WithEvents(gs, events) ==
  LET after[i \in 0..Len(events)] ==
        IF i = 0 THEN gs
        ELSE [after[i - 1] EXCEPT ![events[i].key] = Extended(@, events[i])]
  IN  after[Len(events)]

RecentSinceFirst(g) == {x \in g : now < x.first + EventWindow}
RecentOnly(g) == {x \in g : now < x.last + EventWindow}

(* handleKmsg: events first, then what has aged out goes; then the error.  *)
HandleDrain ==
  /\ drain # NoDrain
  /\ LET events == Heeded(drain.events)
         all == WithEvents(groups, events)
     IN  /\ groups' = [k \in AlertKeys |-> RecentOnly(all[k])]
         /\ told' = [k \in AlertKeys |-> told[k] \cup
              {events[i].at : i \in {j \in DOMAIN events : events[j].key = k}}]
  /\ errs' = IF drain.failed THEN errs + 1 ELSE 0
  /\ drain' = NoDrain
  /\ UNCHANGED <<now, ring, lapped, written, hiddenDisks>>

(* A disk sample lands: hiddenDisksOf all its mounts, filter and all.      *)
DiskSampleLands(hidden) ==
  /\ hiddenDisks' = hidden
  /\ UNCHANGED <<now, ring, lapped, written, drain, groups, errs, told>>

KernelLogNext ==
  \/ \E line \in Lines : WriteRecord(line)
  \/ KernelLogTick
  \/ \E n \in 0..RingSize, failed \in BOOLEAN : Drain(n, failed)
  \/ HandleDrain
  \/ \E hidden \in SUBSET Disks : DiskSampleLands(hidden)

KernelLogSpec == KernelLogInit /\ [][KernelLogNext]_kernelLogVars

------------------------------------------------------------------------------
(* conds: a group shows while it was extended inside the window.           *)
Alerting(k) == RecentOnly(groups[k]) # {}

KernelLogTypeOK ==
  /\ now \in 0..MaxNow
  /\ Len(ring) <= RingSize
  /\ \A k \in AlertKeys :
       /\ told[k] \subseteq 0..now
       /\ groups[k] \in SUBSET [first : 0..now, last : 0..now, count : 1..MaxLinesWritten]
       /\ \A x \in groups[k], y \in groups[k] : x = y
  /\ hiddenDisks \subseteq Disks
  /\ errs \in 0..MaxErrors

(* The alert of a key is up exactly while an event of it that was handled  *)
(* is inside the window: repeats extend it, however long ago the first one *)
(* was, and nothing else does (kernlog.go:93-113).  The group tells the    *)
(* events it stands for: it begins with one and ends with the newest.      *)
GroupsTellEvents ==
  \A k \in AlertKeys :
    /\ Alerting(k) <=> \E t \in told[k] : now < t + EventWindow
    /\ \A g \in groups[k] :
         /\ {g.first, g.last} \subseteq told[k]
         /\ \A t \in told[k] : t <= g.last
==============================================================================
