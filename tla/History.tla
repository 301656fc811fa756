-------------------------------- MODULE History --------------------------------
(***************************************************************************)
(* The sparkline history file (internal/ui/history.go), written when a     *)
(* monitor exits and read when one starts (runTUI, cmd/ucmon/main.go).     *)
(*                                                                         *)
(* Several instances share the path.  Each step of a save may fail, the    *)
(* instance may be killed between any two of them, and power may fail.     *)
(* The kernel (external) writes file contents and the directory back in    *)
(* any order and at any time, unless a sync asked for it.                  *)
(***************************************************************************)
EXTENDS Naturals

CONSTANTS
  Instances,  (* ucmon processes that may run at once                      *)
  Inodes,     (* bound: files ever created                                 *)
  NoFile,     (* the path names nothing                                    *)
  MaxAge,     (* historyMaxAge (6 h in Go)                                 *)
  LastHour    (* bound: the clock, in the unit of MaxAge                   *)

ASSUME HistoryAssumption ==
  /\ NoFile \notin Inodes
  /\ MaxAge \in Nat
  /\ LastHour \in Nat

VARIABLES
  hour,       (* the time                                                  *)
  files,      (* per inode: its text, the text on the disk, SavedAt, the   *)
              (*   time of the oldest point in it, and its place in the    *)
              (*   order of renames                                        *)
  path,       (* the inode the path names                                  *)
  pathOnDisk, (* the inode the path names in the directory on the disk     *)
  inst,       (* per instance: what it does, its temp file, the age of     *)
              (*   its oldest point                                        *)
  renames,    (* history: how many renames there were                      *)
  kept        (* history: the last rename a sync of the directory covered  *)

historyVars == <<hour, files, path, pathOnDisk, inst, renames, kept>>

------------------------------------------------------------------------------
Unborn == [text |-> "none", onDisk |-> "none", savedAt |-> 0, oldest |-> 0, nth |-> 0]
Off == [doing |-> "off", tmp |-> NoFile, restored |-> FALSE, oldest |-> 0]

HistoryInit ==
  /\ hour = 0
  /\ files = [f \in Inodes |-> Unborn]
  /\ path = NoFile
  /\ pathOnDisk = NoFile
  /\ inst = [i \in Instances |-> Off]
  /\ renames = 0
  /\ kept = 0

(* An hour is longer than a save takes, and than the rings of an instance  *)
(* that is not paused reach back.                                          *)
HourPasses ==
  /\ hour < LastHour
  /\ \A i \in Instances : inst[i].doing \in {"off", "running"}
  /\ hour' = hour + 1
  /\ inst' = [i \in Instances |->
       IF inst[i].doing = "off" THEN Off
       ELSE [inst[i] EXCEPT !.oldest = hour + 1, !.restored = FALSE]]
  /\ UNCHANGED <<files, path, pathOnDisk, renames, kept>>

(* loadHistory: a missing, malformed (cut short) or stale file is ignored. *)
Readable ==
  /\ path # NoFile
  /\ files[path].text = "whole"
  /\ hour <= files[path].savedAt + MaxAge

Launch(i) ==
  /\ inst[i].doing = "off"
  /\ inst' = [inst EXCEPT ![i] =
       IF Readable
       THEN [Off EXCEPT !.doing = "starting", !.restored = TRUE,
                        !.oldest = files[path].oldest]
       ELSE [Off EXCEPT !.doing = "starting", !.oldest = hour]]
  /\ UNCHANGED <<hour, files, path, pathOnDisk, renames, kept>>

(* A tick pushes a point on every ring; a session long enough to fill them *)
(* pushes out every restored one.                                          *)
TickRing(i, filled) ==
  /\ inst[i].doing \in {"starting", "running"}
  /\ inst' = [inst EXCEPT ![i].doing = "running",
                          ![i].oldest = IF filled \/ ~inst[i].restored THEN hour ELSE @,
                          ![i].restored = @ /\ ~filled]
  /\ UNCHANGED <<hour, files, path, pathOnDisk, renames, kept>>

(* A run that never ticked saves nothing (Ran).                            *)
QuitBeforeRan(i) ==
  /\ inst[i].doing = "starting"
  /\ inst' = [inst EXCEPT ![i] = Off]
  /\ UNCHANGED <<hour, files, path, pathOnDisk, renames, kept>>

(* SIGKILL, or a crash, at any moment: no deferred removal runs.           *)
Killed(i) ==
  /\ inst[i].doing # "off"
  /\ inst' = [inst EXCEPT ![i] = Off]
  /\ UNCHANGED <<hour, files, path, pathOnDisk, renames, kept>>

------------------------------------------------------------------------------
(* saveHistory, one system call at a time.                                 *)
Doing(i, what) == inst[i].doing = what
Proceed(i, what) == inst' = [inst EXCEPT ![i].doing = what]

(* os.CreateTemp: O_EXCL, so the name is nobody else's.                    *)
SharedTemp(i, f) == \/ files[f].text = "none"
                    \/ \E j \in Instances : inst[j].tmp = f
UniqueTemp(i, f) == files[f].text = "none"
CreateTemp(i, f) ==
  /\ Doing(i, "running")
  /\ UniqueTemp(i, f)
  /\ files' = [files EXCEPT ![f] = [Unborn EXCEPT !.text = "empty", !.onDisk = "empty",
                 !.savedAt = hour, !.oldest = inst[i].oldest]]
  /\ inst' = [inst EXCEPT ![i].doing = "created", ![i].tmp = f]
  /\ UNCHANGED <<hour, path, pathOnDisk, renames, kept>>

(* f.Write: more than one write(2) may be needed.                          *)
WriteSome(i) ==
  /\ Doing(i, "created")
  /\ files' = [files EXCEPT ![inst[i].tmp].text = "half"]
  /\ Proceed(i, "writing")
  /\ UNCHANGED <<hour, path, pathOnDisk, renames, kept>>
WriteRest(i) ==
  /\ Doing(i, "writing")
  /\ files' = [files EXCEPT ![inst[i].tmp].text = "whole"]
  /\ Proceed(i, "written")
  /\ UNCHANGED <<hour, path, pathOnDisk, renames, kept>>

SkipSync(i) ==
  /\ Doing(i, "written")
  /\ Proceed(i, "synced")
  /\ UNCHANGED <<hour, files, path, pathOnDisk, renames, kept>>
(* f.Chmod and f.Sync: the contents are on the disk before the rename.     *)
SyncTemp(i) ==
  /\ Doing(i, "written")
  /\ files' = [files EXCEPT ![inst[i].tmp].onDisk = files[inst[i].tmp].text]
  /\ Proceed(i, "synced")
  /\ UNCHANGED <<hour, path, pathOnDisk, renames, kept>>

(* f.Close and os.Rename.                                                  *)
RenameTemp(i) ==
  /\ Doing(i, "synced")
  /\ path' = inst[i].tmp
  /\ renames' = renames + 1
  /\ files' = [files EXCEPT ![inst[i].tmp].nth = renames + 1]
  /\ Proceed(i, "renamed")
  /\ UNCHANGED <<hour, pathOnDisk, kept>>

FileOnly == pathOnDisk
DirOnDisk == path
(* d.Sync, whose failure is ignored, and the exit.                         *)
SyncDir(i, ok) ==
  /\ Doing(i, "renamed")
  /\ pathOnDisk' = IF ok THEN DirOnDisk ELSE pathOnDisk
  /\ kept' = IF ok THEN renames ELSE kept
  /\ inst' = [inst EXCEPT ![i] = Off]
  /\ UNCHANGED <<hour, files, path, renames>>

(* Any call before the rename fails: the temp file is removed, the path    *)
(* keeps what it had, and ucmon exits with a message.                      *)
SaveFails(i) ==
  /\ \/ Doing(i, "running") \/ Doing(i, "created") \/ Doing(i, "writing")
     \/ Doing(i, "written") \/ Doing(i, "synced")
  /\ inst' = [inst EXCEPT ![i] = Off]
  /\ UNCHANGED <<hour, files, path, pathOnDisk, renames, kept>>

------------------------------------------------------------------------------
(* The kernel writes back when it likes.                                   *)
WritebackFile(f) ==
  /\ files[f].onDisk # files[f].text
  /\ files' = [files EXCEPT ![f].onDisk = files[f].text]
  /\ UNCHANGED <<hour, path, pathOnDisk, inst, renames, kept>>
WritebackDir ==
  /\ pathOnDisk # path
  /\ pathOnDisk' = path
  /\ UNCHANGED <<hour, files, path, inst, renames, kept>>

(* What was not written back is gone, and so is every process.             *)
PowerCut ==
  /\ files' = [f \in Inodes |-> [files[f] EXCEPT !.text = files[f].onDisk]]
  /\ path' = pathOnDisk
  /\ inst' = [i \in Instances |-> Off]
  /\ UNCHANGED <<hour, pathOnDisk, renames, kept>>

HistoryNext ==
  \/ HourPasses
  \/ \E i \in Instances :
       \/ Launch(i)
       \/ \E filled \in BOOLEAN : TickRing(i, filled)
       \/ QuitBeforeRan(i) \/ Killed(i)
       \/ \E f \in Inodes : CreateTemp(i, f)
       \/ WriteSome(i) \/ WriteRest(i) \/ SyncTemp(i) \/ RenameTemp(i)
       \/ \E ok \in BOOLEAN : SyncDir(i, ok)
       \/ SaveFails(i)
  \/ \E f \in Inodes : WritebackFile(f)
  \/ WritebackDir
  \/ PowerCut

HistorySpec == HistoryInit /\ [][HistoryNext]_historyVars

------------------------------------------------------------------------------
Texts == {"none", "empty", "half", "whole"}
HistoryTypeOK ==
  /\ hour \in Nat
  /\ files \in [Inodes -> [text : Texts, onDisk : Texts, savedAt : Nat,
                           oldest : Nat, nth : Nat]]
  /\ path \in Inodes \cup {NoFile}
  /\ pathOnDisk \in Inodes \cup {NoFile}
  /\ inst \in [Instances ->
       [doing : {"off", "starting", "running", "created", "writing", "written",
                 "synced", "renamed"},
        tmp : Inodes \cup {NoFile}, restored : BOOLEAN, oldest : Nat]]
  /\ renames \in Nat
  /\ kept \in Nat

(* The path never names a half-written file, neither while the machine     *)
(* runs nor after a power cut at any moment, however many instances exit   *)
(* together (the comment at history.go:98-103).                           *)
PathIsWhole ==
  /\ path # NoFile => files[path].text = "whole"
  /\ pathOnDisk # NoFile => files[pathOnDisk].onDisk = "whole"

(* Once the directory was synced after a rename, that save or a later one  *)
(* is what the path names, through kills and power cuts ("make the rename  *)
(* itself durable", history.go:129).                                   *)
SavedSurvives ==
  kept > 0 =>
    /\ path # NoFile /\ files[path].nth >= kept
    /\ pathOnDisk # NoFile /\ files[pathOnDisk].nth >= kept

(* What a start restores is younger than historyMaxAge: "Sparklines are a  *)
(* picture of the recent past; replaying yesterday's shape next to this    *)
(* minute's reading would be a lie told convincingly" (history.go:19-21).  *)
RestoredIsRecent ==
  [][ \A i \in Instances :
        (inst[i].doing = "off" /\ inst'[i].restored)
          => hour <= inst'[i].oldest + MaxAge ]_historyVars
==============================================================================
