-------------------------------- MODULE Mounts --------------------------------
(***************************************************************************)
(* The disk sampler's memory of what was mounted read-write                *)
(* (internal/probe/disk.go), against a kernel that locks filesystems       *)
(* (errors=remount-ro) and a user who mounts, covers and unmounts them.    *)
(*                                                                         *)
(* Sample reads the partitions from mountinfo and then the live state from *)
(* /proc/self/mounts: two reads, between which mounts change.  On a path   *)
(* that is mounted over, the first names the bottom mount and the second   *)
(* the visible one.                                                        *)
(***************************************************************************)
EXTENDS Naturals, Sequences, SequencesExt

CONSTANTS
  Points,     (* mount points                                              *)
  Devices,    (* filesystems                                               *)
  ByDesign,   (* those of a type in readOnlyByDesign                       *)
  FstabRW,    (* mount points fstabRW maps to true                         *)
  MaxMounts   (* bound: mounts of a whole behaviour                        *)

ASSUME MountsAssumption ==
  /\ ByDesign \subseteq Devices
  /\ FstabRW \subseteq Points
  /\ MaxMounts \in Nat

VARIABLES
  stack,      (* per mount point, the mounts on it, the visible one last   *)
  locked,     (* filesystems whose superblock is read-only                 *)
  listing,    (* a Sample between its two reads: what Partitions returned  *)
  sawRW,      (* DiskSampler.sawRW; a set of at most one device per point  *)
  disks,      (* what the last Sample returned                             *)
  mounted,    (* mounts so far                                             *)
  wasRW,      (* history: <<point, device>> that were mounted read-write   *)
  blurred     (* history: points where one Sample's reads could disagree   *)
              (*   about which filesystem is there                         *)

mountsVars == <<stack, locked, listing, sawRW, disks, mounted, wasRW, blurred>>

------------------------------------------------------------------------------
NoList == [p \in {} |-> {}]
Sampling == listing # NoList
Mounted(dev) == \E p \in Points : \E i \in DOMAIN stack[p] : stack[p][i].dev = dev

MountsInit ==
  /\ stack = [p \in Points |-> <<>>]
  /\ locked = {}
  /\ listing = NoList
  /\ sawRW = [p \in Points |-> {}]
  /\ disks = [p \in Points |-> {}]
  /\ mounted = 0
  /\ wasRW = {}
  /\ blurred = {}

(* mount(8), on top of whatever is there.  An image is always read-only.   *)
Mount(p, dev, ro) ==
  /\ mounted < MaxMounts
  /\ ~Mounted(dev)
  /\ dev \in ByDesign => ro
  /\ stack' = [stack EXCEPT ![p] = Append(@, [dev |-> dev, ro |-> ro])]
  /\ locked' = IF ro THEN locked \cup {dev} ELSE locked \ {dev}
  /\ mounted' = mounted + 1
  /\ wasRW' = IF ro THEN wasRW ELSE wasRW \cup {<<p, dev>>}
  /\ blurred' = IF Sampling \/ stack[p] # <<>> THEN blurred \cup {p} ELSE blurred
  /\ UNCHANGED <<listing, sawRW, disks>>

Unmount(p) ==
  /\ stack[p] # <<>>
  /\ stack' = [stack EXCEPT ![p] = Front(@)]
  /\ blurred' = IF Sampling THEN blurred \cup {p} ELSE blurred
  /\ UNCHANGED <<locked, listing, sawRW, disks, mounted, wasRW>>

(* errors=remount-ro flips the superblock and leaves the mount's own flag. *)
Lock(dev) ==
  /\ Mounted(dev)
  /\ dev \notin locked
  /\ locked' = locked \cup {dev}
  /\ UNCHANGED <<stack, listing, sawRW, disks, mounted, wasRW, blurred>>

(* mount -o remount,rw of the visible mount.                               *)
Unlock(p) ==
  /\ stack[p] # <<>>
  /\ LET dev == Last(stack[p]).dev
     IN  /\ dev \notin ByDesign
         /\ dev \in locked
         /\ locked' = locked \ {dev}
         /\ stack' = [stack EXCEPT ![p][Len(stack[p])].ro = FALSE]
         /\ wasRW' = wasRW \cup {<<p, dev>>}
  /\ UNCHANGED <<listing, sawRW, disks, mounted, blurred>>

------------------------------------------------------------------------------
(* disk.Partitions, the first mount of a path only (`seen`).  Something is *)
(* always mounted on a running machine.                                    *)
ListPartitions ==
  /\ ~Sampling
  /\ \E p \in Points : stack[p] # <<>>
  /\ listing' = [p \in {q \in Points : stack[q] # <<>>} |-> Head(stack[p])]
  /\ UNCHANGED <<stack, locked, sawRW, disks, mounted, wasRW, blurred>>

(* liveReadOnly: the last mount of a path, its own flag or its superblock's. *)
LiveReadOnly(p) == LET top == Last(stack[p]) IN top.ro \/ top.dev \in locked

(* The live state if /proc/self/mounts was read and has the path, else the *)
(* per-mount flag Partitions gave.                                         *)
ReadOnly(p, liveOK) ==
  IF liveOK /\ stack[p] # <<>> THEN LiveReadOnly(p) ELSE listing[p].ro

(* markRemounts                                                            *)
SomethingSeenHere(p, dev) == sawRW[p] # {}
SeenHere(p, dev) == dev \in sawRW[p]
Remounted(p, dev, ro) ==
  ro /\ dev \notin ByDesign /\ (SeenHere(p, dev) \/ p \in FstabRW)
SawOnlyNow(p, dev, ro) == IF ro THEN {} ELSE {dev}
Saw(p, dev, ro) == IF ro THEN sawRW[p] ELSE {dev}

(* The rest of Sample.  `readable` are the mounts whose disk.Usage worked; *)
(* the others are left out and remember nothing.                           *)
SampleDisks(liveOK, readable) ==
  /\ Sampling
  /\ LET ro(p) == ReadOnly(p, liveOK)
     IN  /\ disks' = [p \in Points |->
              IF p \in readable
              THEN {[dev |-> listing[p].dev, ro |-> ro(p),
                     flagged |-> Remounted(p, listing[p].dev, ro(p))]}
              ELSE {}]
         /\ sawRW' = [p \in Points |->
              IF p \in readable THEN Saw(p, listing[p].dev, ro(p)) ELSE sawRW[p]]
  /\ listing' = NoList
  /\ UNCHANGED <<stack, locked, mounted, wasRW, blurred>>

MountsNext ==
  \/ \E p \in Points :
       \/ \E dev \in Devices, ro \in BOOLEAN : Mount(p, dev, ro)
       \/ Unmount(p)
       \/ Unlock(p)
  \/ \E dev \in Devices : Lock(dev)
  \/ ListPartitions
  \/ \E liveOK \in BOOLEAN, readable \in SUBSET DOMAIN listing :
       SampleDisks(liveOK, readable)

MountsSpec == MountsInit /\ [][MountsNext]_mountsVars

------------------------------------------------------------------------------
MountsTypeOK ==
  /\ stack \in [Points -> Seq([dev : Devices, ro : BOOLEAN])]
  /\ locked \subseteq Devices
  /\ DOMAIN listing \subseteq Points
  /\ \A p \in DOMAIN listing : listing[p] \in [dev : Devices, ro : BOOLEAN]
  /\ sawRW \in [Points -> SUBSET Devices]
  /\ disks \in [Points -> SUBSET [dev : Devices, ro : BOOLEAN, flagged : BOOLEAN]]
  /\ mounted \in 0..MaxMounts
  /\ wasRW \subseteq Points \X Devices
  /\ blurred \subseteq Points

(* No false alarm: a filesystem reported as remounted read-only was really *)
(* mounted read-write on that path once, or fstab says it should be        *)
(* (disk.go:142-156) - not merely some other filesystem on the same path   *)
(* (the comment on sawRW, disk.go:44-46).  A path that was mounted over,   *)
(* or changed between the two reads of a sample, can be blamed for a       *)
(* filesystem it never held read-write.                                    *)
FlagHasEvidence ==
  \A p \in Points \ blurred : \A d \in disks[p] :
    d.flagged => <<p, d.dev>> \in wasRW \/ p \in FstabRW

(* The alarm is not lost: a filesystem the last sample found read-write,   *)
(* or already flagged, and the next one finds read-only on the same path   *)
(* is flagged, for as long as it stays so (disk.go:149-153).               *)
LockIsFlagged ==
  [][ \A p \in Points : \A d \in disks[p], e \in disks'[p] :
        (d.dev = e.dev /\ (~d.ro \/ d.flagged) /\ e.ro /\ e.dev \notin ByDesign)
          => e.flagged ]_mountsVars
==============================================================================
