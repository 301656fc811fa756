-------------------------- MODULE Subsystems_proofs --------------------------
(***************************************************************************)
(* Proofs about the history file, for any number of instances and files,   *)
(* whatever is killed, fails or loses power (History); about the           *)
(* configuration, for every number a file can hold (ConfigFile); about the *)
(* list of processes (ProcList); and about the ten subsystems side by side *)
(* (MCSubsystems), of which each takes only steps of its own.              *)
(***************************************************************************)
EXTENDS MCSubsystems, Kernel_proofs, Probes_proofs

(* History: the path names a whole file, and what a sync of the directory  *)
(* covered is not lost.  Neither is inductive alone: that a rename is      *)
(* harmless depends on how far the save under way has come with a temp     *)
(* file that is nobody else's.                                             *)

Saving == {"created", "writing", "written", "synced", "renamed"}

(* How far a save has come is how much of its file there is.               *)
TempIsAsFar ==
  \A i \in Instances : inst[i].doing \in Saving =>
    /\ inst[i].tmp \in Inodes
    /\ files[inst[i].tmp].text \in {"empty", "half", "whole"}
    /\ inst[i].doing \in {"written", "synced", "renamed"} =>
         files[inst[i].tmp].text = "whole"
    /\ inst[i].doing \in {"synced", "renamed"} => files[inst[i].tmp].onDisk = "whole"

(* A temp file is one instance's, and not what the path names.             *)
TempIsOwn ==
  \A i \in Instances : inst[i].doing \in Saving =>
    /\ \A j \in Instances :
         (j # i /\ inst[j].doing \in Saving) => inst[j].tmp # inst[i].tmp
    /\ inst[i].doing # "renamed" => inst[i].tmp \notin {path, pathOnDisk}

(* What the path names is whole in memory and on the disk.                 *)
NamedIsWhole ==
  \A f \in {path, pathOnDisk} \ {NoFile} :
    files[f].text = "whole" /\ files[f].onDisk = "whole"

UnbornIsNowhere == \A f \in Inodes : files[f].text = "none" => files[f].onDisk = "none"

(* While a rename waits for its sync, the path names the last one.         *)
LastRenameIsNamed ==
  /\ kept <= renames
  /\ (\E i \in Instances : inst[i].doing = "renamed") =>
       path # NoFile /\ files[path].nth = renames

HistoryInv ==
  /\ HistoryTypeOK
  /\ TempIsAsFar
  /\ TempIsOwn
  /\ NamedIsWhole
  /\ UnbornIsNowhere
  /\ LastRenameIsNamed
  /\ SavedSurvives

InstRecord ==
  [doing : {"off", "starting", "running", "created", "writing", "written",
            "synced", "renamed"},
   tmp : Inodes \cup {NoFile}, restored : BOOLEAN, oldest : Nat]

(* What one instance becomes is again an instance, and so are all of them. *)
LEMMA InstTyped ==
  ASSUME HistoryTypeOK, NEW i \in Instances, NEW v \in InstRecord,
         inst' = [inst EXCEPT ![i] = v]
  PROVE  inst' \in [Instances -> InstRecord]
  BY DEF HistoryTypeOK, InstRecord

LEMMA HistoryStart == HistoryInit => HistoryInv
<1> SUFFICES ASSUME HistoryInit PROVE HistoryInv
  OBVIOUS
<1> USE DEF HistoryInit, Unborn, Off
<1>1. HistoryTypeOK
  BY DEF HistoryTypeOK, Texts
<1>2. TempIsAsFar /\ TempIsOwn
  BY DEF TempIsAsFar, TempIsOwn, Saving
<1>3. NamedIsWhole /\ UnbornIsNowhere
  BY DEF NamedIsWhole, UnbornIsNowhere
<1>4. LastRenameIsNamed /\ SavedSurvives
  BY SMT DEF LastRenameIsNamed, SavedSurvives
<1> QED
  BY <1>1, <1>2, <1>3, <1>4 DEF HistoryInv

(* A step that touches no file, and after which no instance is further     *)
(* with a save than it was.                                                *)
LEMMA AwayFromFilesKeeps ==
  ASSUME HistoryInv, HistoryTypeOK', kept' <= renames',
         UNCHANGED <<files, path, pathOnDisk, renames, kept>>,
         \A i \in Instances : inst'[i] = inst[i] \/ inst'[i].doing \notin Saving
  PROVE  HistoryInv'
<1> USE DEF HistoryInv
<1>1. TempIsAsFar'
  BY DEF TempIsAsFar
<1>2. TempIsOwn'
  BY DEF TempIsOwn
<1>3. NamedIsWhole' /\ UnbornIsNowhere'
  BY DEF NamedIsWhole, UnbornIsNowhere
<1>4. LastRenameIsNamed'
  BY DEF LastRenameIsNamed, Saving
<1>5. SavedSurvives'
  BY DEF SavedSurvives
<1> QED
  BY <1>1, <1>2, <1>3, <1>4, <1>5

LEMMA HourKeeps ==
  ASSUME HistoryInv, HourPasses
  PROVE  HistoryInv'
<1> USE DEF HistoryInv
<1> DEFINE older(i) == [inst[i] EXCEPT !.oldest = hour + 1, !.restored = FALSE]
<1>1. /\ UNCHANGED <<files, path, pathOnDisk, renames, kept>>
      /\ hour' = hour + 1
      /\ \A i \in Instances : inst[i].doing \in {"off", "running"}
      /\ inst' = [i \in Instances |->
           IF inst[i].doing = "off" THEN Off ELSE older(i)]
  BY DEF HourPasses
<1>2. \A i \in Instances : inst'[i].doing \in {"off", "running"}
  BY <1>1 DEF HistoryTypeOK, Off
<1>3. HistoryTypeOK'
  <2>1. hour + 1 \in Nat
    BY DEF HistoryTypeOK
  <2> DEFINE R == [doing : {"off", "starting", "running", "created", "writing", "written",
                            "synced", "renamed"},
                   tmp : Inodes \cup {NoFile}, restored : BOOLEAN, oldest : Nat]
  <2>2. Off \in R
    BY DEF Off
  <2>3. \A i \in Instances : older(i) \in R
    BY <2>1 DEF HistoryTypeOK
  <2> HIDE DEF older
  <2>4. inst' \in [Instances -> R]
    <3> HIDE DEF R
    <3> QED
      BY <1>1, <2>2, <2>3
  <2> QED
    BY <1>1, <2>1, <2>4 DEF HistoryTypeOK
<1>4. kept' <= renames'
  BY <1>1 DEF LastRenameIsNamed
<1> QED
  BY <1>1, <1>2, <1>3, <1>4, AwayFromFilesKeeps DEF Saving

LEMMA LifeKeeps ==
  ASSUME HistoryInv, NEW i \in Instances,
         \/ Launch(i)
         \/ \E filled \in BOOLEAN : TickRing(i, filled)
         \/ QuitBeforeRan(i) \/ Killed(i) \/ SaveFails(i)
  PROVE  HistoryInv'
<1> USE DEF HistoryInv
<1>1. UNCHANGED <<hour, files, path, pathOnDisk, renames, kept>>
  BY DEF Launch, TickRing, QuitBeforeRan, Killed, SaveFails
<1>2. HistoryTypeOK' /\ \A j \in Instances : inst'[j] = inst[j] \/ inst'[j].doing \notin Saving
  <2>1. CASE Launch(i)
    <3>1. files[path].oldest \in Nat \/ ~Readable
      BY DEF Readable, HistoryTypeOK
    <3> QED
      BY <1>1, <2>1, <3>1 DEF Launch, HistoryTypeOK, Off, Saving
  <2>2. CASE \E filled \in BOOLEAN : TickRing(i, filled)
    <3>1. PICK filled \in BOOLEAN : TickRing(i, filled)
      BY <2>2
    <3> DEFINE o == IF filled \/ ~inst[i].restored THEN hour ELSE inst[i].oldest
               r == inst[i].restored /\ ~filled
    <3> DEFINE v == [inst[i] EXCEPT !.doing = "running", !.oldest = o, !.restored = r]
    <3>2. inst' = [inst EXCEPT ![i] = v]
      BY <3>1 DEF TickRing, HistoryTypeOK
    <3>3. o \in Nat /\ r \in BOOLEAN /\ inst[i] \in InstRecord
      BY DEF HistoryTypeOK, InstRecord
    <3> HIDE DEF o, r
    <3>4. v \in InstRecord /\ v.doing = "running"
      BY <3>3 DEF InstRecord
    <3> HIDE DEF v
    <3>5. inst' \in [Instances -> InstRecord]
      BY <3>2, <3>4, InstTyped
    <3>6. HistoryTypeOK'
      BY <1>1, <3>5 DEF HistoryTypeOK, InstRecord
    <3>7. \A j \in Instances : inst'[j] = inst[j] \/ inst'[j] = v
      BY <3>2 DEF HistoryTypeOK
    <3> QED
      BY <3>4, <3>6, <3>7 DEF Saving
  <2>3. CASE QuitBeforeRan(i) \/ Killed(i) \/ SaveFails(i)
    <3>1. inst' = [inst EXCEPT ![i] = Off]
      BY <2>3 DEF QuitBeforeRan, Killed, SaveFails
    <3> QED
      BY <1>1, <3>1 DEF HistoryTypeOK, Off, Saving
  <2> QED
    BY <2>1, <2>2, <2>3
<1>3. kept' <= renames'
  BY <1>1 DEF LastRenameIsNamed
<1> QED
  BY <1>1, <1>2, <1>3, AwayFromFilesKeeps

(* O_EXCL: the new file is nobody's, and not the one the path names.       *)
LEMMA CreateKeeps ==
  ASSUME HistoryInv, NEW i \in Instances, NEW f \in Inodes, CreateTemp(i, f)
  PROVE  HistoryInv'
<1> USE DEF HistoryInv
<1> DEFINE new == [Unborn EXCEPT !.text = "empty", !.onDisk = "empty",
                     !.savedAt = hour, !.oldest = inst[i].oldest]
<1>1. /\ inst[i].doing = "running" /\ files[f].text = "none"
      /\ files' = [files EXCEPT ![f] = new]
      /\ inst' = [inst EXCEPT ![i].doing = "created", ![i].tmp = f]
      /\ UNCHANGED <<hour, path, pathOnDisk, renames, kept>>
  BY DEF CreateTemp, Doing, UniqueTemp
<1>2. f \notin {path, pathOnDisk}
  <2>1. f # NoFile /\ files[f].text # "whole"
    BY <1>1, HistoryAssumption
  <2> QED
    BY <2>1 DEF NamedIsWhole
<1>3. \A j \in Instances : inst[j].doing \in Saving => inst[j].tmp # f
  BY <1>1 DEF TempIsAsFar
<1>4. /\ files'[f].text = "empty" /\ files'[f].onDisk = "empty"
      /\ inst'[i].doing = "created" /\ inst'[i].tmp = f
      /\ \A g \in Inodes : g # f => files'[g] = files[g]
      /\ \A j \in Instances : j # i => inst'[j] = inst[j]
  BY <1>1 DEF HistoryTypeOK, Unborn
<1>5. HistoryTypeOK'
  <2>1. new \in [text : Texts, onDisk : Texts, savedAt : Nat, oldest : Nat, nth : Nat]
    BY DEF HistoryTypeOK, Unborn, Texts
  <2>2. files' \in [Inodes -> [text : Texts, onDisk : Texts, savedAt : Nat,
                              oldest : Nat, nth : Nat]]
    BY <1>1, <2>1 DEF HistoryTypeOK
  <2> DEFINE v == [inst[i] EXCEPT !.doing = "created", !.tmp = f]
  <2>3. v \in InstRecord
    BY DEF HistoryTypeOK, InstRecord
  <2>4. inst' = [inst EXCEPT ![i] = v]
    BY <1>1 DEF HistoryTypeOK
  <2> HIDE DEF new, v
  <2>5. inst' \in [Instances -> InstRecord]
    BY <2>3, <2>4, InstTyped
  <2> QED
    BY <1>1, <2>2, <2>5 DEF HistoryTypeOK, InstRecord
<1>6. TempIsAsFar'
  BY <1>3, <1>4 DEF TempIsAsFar, Saving
<1>7. TempIsOwn'
  <2>1. \A j \in Instances : (j # i /\ inst'[j].doing \in Saving) =>
          /\ inst'[j] = inst[j] /\ inst[j].doing \in Saving /\ inst'[j].tmp # f
    BY <1>3, <1>4
  <2>2. inst'[i].tmp = f /\ f \notin {path', pathOnDisk'}
    BY <1>1, <1>2, <1>4
  <2>3. UNCHANGED <<path, pathOnDisk>>
    BY <1>1
  <2> HIDE DEF new
  <2> QED
    BY <2>1, <2>2, <2>3 DEF TempIsOwn
<1>8. NamedIsWhole' /\ UnbornIsNowhere'
  BY <1>1, <1>2, <1>4 DEF NamedIsWhole, UnbornIsNowhere, HistoryTypeOK
<1>9. LastRenameIsNamed'
  BY <1>1, <1>2, <1>4 DEF LastRenameIsNamed, HistoryTypeOK
<1>10. SavedSurvives'
  BY <1>1, <1>2, <1>4 DEF SavedSurvives, HistoryTypeOK
<1> QED
  BY <1>5, <1>6, <1>7, <1>8, <1>9, <1>10

(* A step of a save on its own temp file, before the rename.               *)
LEMMA WriteKeeps ==
  ASSUME HistoryInv, NEW i \in Instances, WriteSome(i) \/ WriteRest(i) \/ SyncTemp(i)
  PROVE  HistoryInv'
<1> USE DEF HistoryInv
<1> DEFINE t == inst[i].tmp
<1>1. /\ inst[i].doing \in {"created", "writing", "written"}
      /\ UNCHANGED <<hour, path, pathOnDisk, renames, kept>>
  BY DEF WriteSome, WriteRest, SyncTemp, Doing
<1>2. t \in Inodes /\ t \notin {path, pathOnDisk}
  BY <1>1 DEF TempIsAsFar, TempIsOwn, Saving
<1>3. /\ inst'[i].tmp = t
      /\ inst'[i].doing \in {"writing", "written", "synced"}
      /\ \A j \in Instances : j # i => inst'[j] = inst[j]
      /\ \A g \in Inodes : g # t => files'[g] = files[g]
      /\ files'[t].nth = files[t].nth
      /\ HistoryTypeOK'
  <2>1. \E what \in {"writing", "written", "synced"} : inst' = [inst EXCEPT ![i].doing = what]
    BY DEF WriteSome, WriteRest, SyncTemp, Proceed
  <2>2. \/ files' = [files EXCEPT ![t].text = "half"]
        \/ files' = [files EXCEPT ![t].text = "whole"]
        \/ files' = [files EXCEPT ![t].onDisk = files[t].text]
    BY DEF WriteSome, WriteRest, SyncTemp
  <2>3. /\ files' \in [Inodes -> [text : Texts, onDisk : Texts, savedAt : Nat,
                                 oldest : Nat, nth : Nat]]
        /\ files'[t].nth = files[t].nth
        /\ \A g \in Inodes : g # t => files'[g] = files[g]
    BY <1>2, <2>2 DEF HistoryTypeOK, Texts
  <2>4. /\ inst' \in [Instances -> InstRecord]
        /\ inst'[i].tmp = t /\ inst'[i].doing \in {"writing", "written", "synced"}
        /\ \A j \in Instances : j # i => inst'[j] = inst[j]
    BY <2>1 DEF HistoryTypeOK, InstRecord
  <2> QED
    BY <1>1, <2>3, <2>4 DEF HistoryTypeOK, InstRecord
<1>4. /\ files'[t].text \in {"half", "whole"}
      /\ inst'[i].doing \in {"written", "synced"} => files'[t].text = "whole"
      /\ inst'[i].doing = "synced" => files'[t].onDisk = "whole"
  <2>1. CASE WriteSome(i)
    BY <1>2, <2>1 DEF WriteSome, Proceed, HistoryTypeOK
  <2>2. CASE WriteRest(i)
    BY <1>2, <2>2 DEF WriteRest, Proceed, HistoryTypeOK
  <2>3. CASE SyncTemp(i)
    <3>1. inst[i].doing = "written" /\ files[t].text = "whole"
      BY <2>3 DEF SyncTemp, Doing, TempIsAsFar, Saving
    <3> QED
      BY <1>2, <2>3, <3>1 DEF SyncTemp, Proceed, HistoryTypeOK
  <2> QED
    BY <2>1, <2>2, <2>3
<1>5. \A j \in Instances : (j # i /\ inst[j].doing \in Saving) => inst[j].tmp # t
  BY <1>1 DEF TempIsOwn, Saving
<1> HIDE DEF t
<1>6. TempIsAsFar'
  BY <1>2, <1>3, <1>4, <1>5 DEF TempIsAsFar, Saving
<1>7. TempIsOwn'
  BY <1>1, <1>2, <1>3, <1>5 DEF TempIsOwn, Saving
<1>8. NamedIsWhole'
  BY <1>1, <1>2, <1>3 DEF NamedIsWhole, HistoryTypeOK
<1>9. UnbornIsNowhere'
  BY <1>2, <1>3, <1>4 DEF UnbornIsNowhere
<1>10. LastRenameIsNamed'
  BY <1>1, <1>2, <1>3 DEF LastRenameIsNamed, HistoryTypeOK
<1>11. SavedSurvives'
  BY <1>1, <1>2, <1>3 DEF SavedSurvives, HistoryTypeOK
<1> QED
  BY <1>3, <1>6, <1>7, <1>8, <1>9, <1>10, <1>11

(* The file is whole on the disk before the path names it.                 *)
LEMMA RenameKeeps ==
  ASSUME HistoryInv, NEW i \in Instances, RenameTemp(i)
  PROVE  HistoryInv'
<1> USE DEF HistoryInv
<1> DEFINE t == inst[i].tmp
<1>1. /\ inst[i].doing = "synced" /\ path' = t /\ renames' = renames + 1
      /\ files' = [files EXCEPT ![t].nth = renames + 1]
      /\ inst' = [inst EXCEPT ![i].doing = "renamed"]
      /\ UNCHANGED <<hour, pathOnDisk, kept>>
  BY DEF RenameTemp, Doing, Proceed
<1>2. /\ t \in Inodes /\ t \notin {path, pathOnDisk, NoFile}
      /\ files[t].text = "whole" /\ files[t].onDisk = "whole"
  BY <1>1, HistoryAssumption DEF TempIsAsFar, TempIsOwn, Saving
<1>3. \A g \in Inodes : /\ files'[g].text = files[g].text
                        /\ files'[g].onDisk = files[g].onDisk
                        /\ g # t => files'[g].nth = files[g].nth
  BY <1>1 DEF HistoryTypeOK
<1>4. files'[t].nth = renames + 1
  BY <1>1, <1>2 DEF HistoryTypeOK
<1>5. /\ inst'[i].doing = "renamed"
      /\ \A j \in Instances : /\ inst'[j].tmp = inst[j].tmp
                              /\ j # i => inst'[j] = inst[j]
  BY <1>1 DEF HistoryTypeOK
<1>6. HistoryTypeOK'
  <2>1. renames + 1 \in Nat
    BY DEF HistoryTypeOK
  <2> QED
    BY <1>1, <1>2, <2>1 DEF HistoryTypeOK
<1>7. \A j \in Instances : (j # i /\ inst[j].doing \in Saving) => inst[j].tmp # t
  BY <1>1 DEF TempIsOwn, Saving
<1> HIDE DEF t
<1>8. TempIsAsFar'
  <2>1. \A j \in Instances : inst'[j].doing \in Saving =>
          inst[j].doing \in Saving /\ inst[j].tmp \in Inodes
    BY <1>1, <1>5 DEF TempIsAsFar, Saving
  <2>2. ASSUME NEW j \in Instances, j # i, inst'[j].doing \in Saving
        PROVE  /\ inst'[j].tmp \in Inodes
               /\ files'[inst'[j].tmp].text \in {"empty", "half", "whole"}
               /\ inst'[j].doing \in {"written", "synced", "renamed"} =>
                    files'[inst'[j].tmp].text = "whole"
               /\ inst'[j].doing \in {"synced", "renamed"} =>
                    files'[inst'[j].tmp].onDisk = "whole"
    BY <1>3, <1>5, <2>1, <2>2 DEF TempIsAsFar
  <2>3. /\ inst'[i].tmp = t /\ t \in Inodes
        /\ files'[t].text = "whole" /\ files'[t].onDisk = "whole"
    BY <1>2, <1>3, <1>5 DEF t
  <2> QED
    BY <2>2, <2>3 DEF TempIsAsFar
<1>9. TempIsOwn'
  <2>1. \A j \in Instances : inst'[j].doing \in Saving => inst[j].doing \in Saving
    BY <1>1, <1>5 DEF Saving
  <2> QED
    BY <1>1, <1>5, <1>7, <2>1 DEF TempIsOwn
<1>10. NamedIsWhole'
  BY <1>1, <1>2, <1>3 DEF NamedIsWhole, HistoryTypeOK
<1>11. UnbornIsNowhere'
  BY <1>3 DEF UnbornIsNowhere
<1>12. kept \in Nat /\ renames \in Nat /\ kept <= renames
  BY DEF HistoryTypeOK, LastRenameIsNamed
<1>13. LastRenameIsNamed'
  BY <1>1, <1>2, <1>4, <1>12 DEF LastRenameIsNamed
<1>14. SavedSurvives'
  BY <1>1, <1>2, <1>3, <1>4, <1>12 DEF SavedSurvives, HistoryTypeOK
<1> QED
  BY <1>6, <1>8, <1>9, <1>10, <1>11, <1>13, <1>14

LEMMA SyncDirKeeps ==
  ASSUME HistoryInv, NEW i \in Instances, NEW ok \in BOOLEAN, SyncDir(i, ok)
  PROVE  HistoryInv'
<1> USE DEF HistoryInv
<1>1. /\ inst[i].doing = "renamed"
      /\ inst' = [inst EXCEPT ![i] = Off]
      /\ UNCHANGED <<hour, files, path, renames>>
      /\ \/ pathOnDisk' = path /\ kept' = renames
         \/ UNCHANGED <<pathOnDisk, kept>>
  BY DEF SyncDir, Doing, DirOnDisk
<1>2. path # NoFile /\ files[path].nth = renames /\ renames \in Nat /\ kept <= renames
  BY <1>1 DEF LastRenameIsNamed, HistoryTypeOK
<1>3. \A j \in Instances : inst'[j] = inst[j] \/ inst'[j].doing = "off"
  BY <1>1 DEF HistoryTypeOK, Off
<1>4. HistoryTypeOK'
  BY <1>1 DEF HistoryTypeOK, Off
<1>5. TempIsAsFar' /\ TempIsOwn'
  BY <1>1, <1>3 DEF TempIsAsFar, TempIsOwn, Saving
<1>6. NamedIsWhole' /\ UnbornIsNowhere'
  BY <1>1 DEF NamedIsWhole, UnbornIsNowhere
<1>7. LastRenameIsNamed' /\ SavedSurvives'
  BY <1>1, <1>2 DEF LastRenameIsNamed, SavedSurvives
<1> QED
  BY <1>4, <1>5, <1>6, <1>7

LEMMA WritebackKeeps ==
  ASSUME HistoryInv, NEW f \in Inodes, WritebackFile(f)
  PROVE  HistoryInv'
<1> USE DEF HistoryInv
<1>1. /\ files' = [files EXCEPT ![f].onDisk = files[f].text]
      /\ UNCHANGED <<hour, path, pathOnDisk, inst, renames, kept>>
  BY DEF WritebackFile
<1>2. \A g \in Inodes : /\ files'[g].text = files[g].text
                        /\ files'[g].nth = files[g].nth
                        /\ files'[g].onDisk \in {files[g].onDisk, files[g].text}
                        /\ files[g].text = "none" => files'[g].onDisk = "none"
  BY <1>1 DEF HistoryTypeOK, UnbornIsNowhere
<1>3. HistoryTypeOK'
  BY <1>1 DEF HistoryTypeOK
<1>4. TempIsAsFar'
  <2> SUFFICES ASSUME NEW j \in Instances, inst[j].doing \in Saving
               PROVE  /\ inst[j].tmp \in Inodes
                      /\ files'[inst[j].tmp].text = files[inst[j].tmp].text
                      /\ files'[inst[j].tmp].onDisk \in
                           {files[inst[j].tmp].onDisk, files[inst[j].tmp].text}
    BY <1>1 DEF TempIsAsFar
  <2> QED
    BY <1>2 DEF TempIsAsFar
<1>5. TempIsOwn'
  BY <1>1 DEF TempIsOwn
<1>6. NamedIsWhole' /\ UnbornIsNowhere'
  BY <1>1, <1>2 DEF NamedIsWhole, UnbornIsNowhere, HistoryTypeOK
<1>7. LastRenameIsNamed' /\ SavedSurvives'
  BY <1>1, <1>2 DEF LastRenameIsNamed, SavedSurvives, HistoryTypeOK
<1> QED
  BY <1>3, <1>4, <1>5, <1>6, <1>7

LEMMA WritebackDirKeeps ==
  ASSUME HistoryInv, WritebackDir
  PROVE  HistoryInv'
<1> USE DEF HistoryInv
<1>1. pathOnDisk' = path /\ UNCHANGED <<hour, files, path, inst, renames, kept>>
  BY DEF WritebackDir
<1>2. HistoryTypeOK' /\ TempIsAsFar' /\ UnbornIsNowhere' /\ LastRenameIsNamed'
  BY <1>1 DEF HistoryTypeOK, TempIsAsFar, UnbornIsNowhere, LastRenameIsNamed
<1>3. TempIsOwn' /\ NamedIsWhole' /\ SavedSurvives'
  BY <1>1 DEF TempIsOwn, NamedIsWhole, SavedSurvives
<1> QED
  BY <1>2, <1>3

(* Power fails: memory becomes what the disk has, and nobody is saving.    *)
LEMMA PowerCutKeeps ==
  ASSUME HistoryInv, PowerCut
  PROVE  HistoryInv'
<1> USE DEF HistoryInv
<1>1. /\ files' = [f \in Inodes |-> [files[f] EXCEPT !.text = files[f].onDisk]]
      /\ path' = pathOnDisk
      /\ inst' = [i \in Instances |-> Off]
      /\ UNCHANGED <<hour, pathOnDisk, renames, kept>>
  BY DEF PowerCut
<1>2. \A f \in Inodes : /\ files'[f].text = files[f].onDisk
                        /\ files'[f].onDisk = files[f].onDisk
                        /\ files'[f].nth = files[f].nth
  BY <1>1 DEF HistoryTypeOK
<1>3. \A i \in Instances : inst'[i].doing = "off"
  BY <1>1 DEF Off
<1>4. HistoryTypeOK'
  BY <1>1 DEF HistoryTypeOK, Off
<1>5. TempIsAsFar' /\ TempIsOwn'
  BY <1>3 DEF TempIsAsFar, TempIsOwn, Saving
<1>6. NamedIsWhole' /\ UnbornIsNowhere'
  BY <1>1, <1>2 DEF NamedIsWhole, UnbornIsNowhere, HistoryTypeOK
<1>7. LastRenameIsNamed' /\ SavedSurvives'
  BY <1>1, <1>2, <1>3 DEF LastRenameIsNamed, SavedSurvives, HistoryTypeOK
<1> QED
  BY <1>4, <1>5, <1>6, <1>7

LEMMA HistoryKeeps == HistoryInv /\ [HistoryNext]_historyVars => HistoryInv'
<1> SUFFICES ASSUME HistoryInv, [HistoryNext]_historyVars PROVE HistoryInv'
  OBVIOUS
<1>1. CASE HourPasses
  BY <1>1, HourKeeps
<1>2. ASSUME NEW i \in Instances,
             \/ Launch(i)
             \/ \E filled \in BOOLEAN : TickRing(i, filled)
             \/ QuitBeforeRan(i) \/ Killed(i) \/ SaveFails(i)
      PROVE  HistoryInv'
  BY <1>2, LifeKeeps
<1>3. ASSUME NEW i \in Instances, NEW f \in Inodes, CreateTemp(i, f) PROVE HistoryInv'
  BY <1>3, CreateKeeps
<1>4. ASSUME NEW i \in Instances, WriteSome(i) \/ WriteRest(i) \/ SyncTemp(i)
      PROVE  HistoryInv'
  BY <1>4, WriteKeeps
<1>5. ASSUME NEW i \in Instances, RenameTemp(i) PROVE HistoryInv'
  BY <1>5, RenameKeeps
<1>6. ASSUME NEW i \in Instances, NEW ok \in BOOLEAN, SyncDir(i, ok) PROVE HistoryInv'
  BY <1>6, SyncDirKeeps
<1>7. ASSUME NEW f \in Inodes, WritebackFile(f) PROVE HistoryInv'
  BY <1>7, WritebackKeeps
<1>8. CASE WritebackDir
  BY <1>8, WritebackDirKeeps
<1>9. CASE PowerCut
  BY <1>9, PowerCutKeeps
<1>10. CASE UNCHANGED historyVars
  BY <1>10 DEF historyVars, HistoryInv, HistoryTypeOK, TempIsAsFar, TempIsOwn, NamedIsWhole,
               UnbornIsNowhere, LastRenameIsNamed, SavedSurvives
<1> QED
  BY <1>1, <1>2, <1>3, <1>4, <1>5, <1>6, <1>7, <1>8, <1>9, <1>10 DEF HistoryNext

(* At every moment, and after a power cut at that moment, the path names a *)
(* whole file or none (saveHistory's temp file, sync and rename,           *)
(* history.go:98-131).                                                    *)
THEOREM PathWhole == HistorySpec => []PathIsWhole
<1>1. HistoryInv => PathIsWhole
  BY DEF HistoryInv, NamedIsWhole, PathIsWhole
<1> QED
  BY <1>1, HistoryStart, HistoryKeeps, PTL DEF HistorySpec

(* A save whose directory was synced is never undone, except by a later    *)
(* one (history.go:128-131).                                               *)
THEOREM SavesSurvive == HistorySpec => []SavedSurvives
<1>1. HistoryInv => SavedSurvives
  BY DEF HistoryInv
<1> QED
  BY <1>1, HistoryStart, HistoryKeeps, PTL DEF HistorySpec

(* Files, the directory and the instances keep their types, through kills, *)
(* failures and power cuts.                                                *)
THEOREM HistoryTypeCorrect == HistorySpec => []HistoryTypeOK
<1>1. HistoryInv => HistoryTypeOK
  BY DEF HistoryInv
<1> QED
  BY <1>1, HistoryStart, HistoryKeeps, PTL DEF HistorySpec

------------------------------------------------------------------------------
(* ConfigFile: Sanitize repairs one field after the other; the argument is *)
(* that what it leaves is Settled - every field in its range and the       *)
(* temperatures in order - and that it changes nothing that is.            *)

Integral == Intervals \cup Temps \cup Numbers
Fields == Keys \cup {"explicit"}
Value == Int \cup BOOLEAN

(* A Config.                                                               *)
Typed(c) ==
  /\ c \in [Fields -> Value]
  /\ \A k \in Integral : c[k] \in Int
  /\ c.explicit \in BOOLEAN
  /\ c.fromTrips \in BOOLEAN

(* Not lo..hi: the provers take a literal interval element by element.     *)
Within(n, lo, hi) == lo <= n /\ n <= hi

InRange(c) ==
  /\ c.fast >= 2 /\ c.proc >= c.fast /\ c.slow >= c.fast
  /\ Within(c.step, 1, 100) /\ c.logCap >= 16 /\ c.load > 0
  /\ Within(c.mem, 1, 100) /\ Within(c.swap, 1, 100) /\ Within(c.disk, 1, 100)
  /\ Within(c.low, 0, 100) /\ Within(c.flat, 0, 100) /\ c.flat <= c.low
  /\ Within(c.clear, 1, 60) /\ c.wifi <= 0
  /\ Within(c.loss, 0, 100) /\ Within(c.psi, 0, 100) /\ Within(c.event, 0, 1440)
  /\ Within(c.histLen, 10, 5000) /\ Within(c.procsCap, 10, 10000)

Ordered(c) == c.warn <= c.hot /\ c.hot <= c.crit

Settled(c) == InRange(c) /\ Ordered(c)

(* The colours are the alerts' thresholds, where those are positive.       *)
ColorsFollow == \A k \in Temps : cfg[k] > 0 => colors[k] = cfg[k]

ConfigInv ==
  /\ Typed(cfg)
  /\ \A v \in userCrit : cfg.explicit /\ cfg.crit = v
  /\ Running => Settled(cfg) /\ ColorsFollow

(* Sanitize before it orders the temperatures, all but its last field.     *)
RangedMost(c) ==
  LET fast == Greatest(c.fast, 2)
      low == Clamp(0, c.low, 100)
  IN  [c EXCEPT
        !.fast = fast, !.proc = Greatest(@, fast), !.slow = Greatest(@, fast),
        !.step = Clamp(1, @, 100), !.logCap = Greatest(@, 16),
        !.load = IF @ <= 0 THEN 2 ELSE @,
        !.mem = PctOr(@, Default.mem), !.swap = PctOr(@, Default.swap),
        !.disk = PctOr(@, Default.disk),
        !.low = low, !.flat = Least(Clamp(0, @, 100), low),
        !.clear = Clamp(1, @, 60), !.wifi = IF @ > 0 THEN -@ ELSE @,
        !.loss = Clamp(0, @, 100), !.psi = Clamp(0, @, 100),
        !.event = Clamp(0, @, 1440),
        !.histLen = Clamp(10, @, 5000)]
Ranged(c) == [RangedMost(c) EXCEPT !.procsCap = Clamp(10, c.procsCap, 10000)]

LEMMA SanitizeIs == \A c : Sanitize(c) = OrderTemps(Ranged(c))
  BY DEF Sanitize, Ranged, RangedMost

LEMMA IntegralFields ==
  ASSUME NEW c, Typed(c)
  PROVE  /\ c.fast \in Int /\ c.proc \in Int /\ c.slow \in Int /\ c.step \in Int
         /\ c.logCap \in Int /\ c.load \in Int /\ c.mem \in Int /\ c.swap \in Int
         /\ c.disk \in Int /\ c.low \in Int /\ c.flat \in Int /\ c.clear \in Int
         /\ c.wifi \in Int /\ c.loss \in Int /\ c.psi \in Int /\ c.event \in Int
         /\ c.histLen \in Int /\ c.procsCap \in Int
         /\ c.warn \in Int /\ c.hot \in Int /\ c.crit \in Int
  BY DEF Typed, Integral, Intervals, Temps, Numbers
(* What each field becomes.                                                *)
LEMMA RangedFields ==
  ASSUME NEW c, Typed(c), NEW d, d = Ranged(c)
  PROVE  /\ DOMAIN d = Fields
         /\ d.fast = Greatest(c.fast, 2)
         /\ d.proc = Greatest(c.proc, d.fast) /\ d.slow = Greatest(c.slow, d.fast)
         /\ d.step = Clamp(1, c.step, 100) /\ d.logCap = Greatest(c.logCap, 16)
         /\ d.load = (IF c.load <= 0 THEN 2 ELSE c.load)
         /\ d.mem = PctOr(c.mem, 90) /\ d.swap = PctOr(c.swap, 50)
         /\ d.disk = PctOr(c.disk, 90)
         /\ d.low = Clamp(0, c.low, 100)
         /\ d.flat = Least(Clamp(0, c.flat, 100), d.low)
         /\ d.clear = Clamp(1, c.clear, 60)
         /\ d.wifi = (IF c.wifi > 0 THEN -c.wifi ELSE c.wifi)
         /\ d.loss = Clamp(0, c.loss, 100) /\ d.psi = Clamp(0, c.psi, 100)
         /\ d.event = Clamp(0, c.event, 1440)
         /\ d.histLen = Clamp(10, c.histLen, 5000)
         /\ d.procsCap = Clamp(10, c.procsCap, 10000)
         /\ d.warn = c.warn /\ d.hot = c.hot /\ d.crit = c.crit
         /\ d.explicit = c.explicit /\ d.fromTrips = c.fromTrips
<1>1. DOMAIN c = Fields
  BY Zenon DEF Typed
<1>2. Default.mem = 90 /\ Default.swap = 50 /\ Default.disk = 90
  BY DEF Default
<1>3. Fields = {"fast", "proc", "slow", "step", "logCap", "load", "mem", "swap", "disk",
                "low", "flat", "clear", "wifi", "loss", "psi", "event", "histLen",
                "procsCap", "warn", "hot", "crit", "explicit", "fromTrips"}
  BY DEF Fields, Keys, Intervals, Temps, Numbers
<1>4. DOMAIN d = DOMAIN c
  <2>1. DOMAIN d = DOMAIN RangedMost(c)
    BY DEF Ranged
  <2>2. DOMAIN RangedMost(c) = DOMAIN c
    BY ZenonT(60) DEF RangedMost
  <2> QED
    BY <2>1, <2>2
<1> USE <1>1, <1>3
<1> USE DEF Ranged, RangedMost
<1>5. d.fast = Greatest(c.fast, 2)
  OBVIOUS
<1>6. d.proc = Greatest(c.proc, Greatest(c.fast, 2)) /\ d.slow = Greatest(c.slow, Greatest(c.fast, 2))
  OBVIOUS
<1>7. d.step = Clamp(1, c.step, 100) /\ d.logCap = Greatest(c.logCap, 16)
  OBVIOUS
<1>8. d.load = (IF c.load <= 0 THEN 2 ELSE c.load)
  OBVIOUS
<1>9. d.mem = PctOr(c.mem, 90) /\ d.swap = PctOr(c.swap, 50) /\ d.disk = PctOr(c.disk, 90)
  BY <1>2
<1>10. d.low = Clamp(0, c.low, 100) /\ d.flat = Least(Clamp(0, c.flat, 100), Clamp(0, c.low, 100))
  OBVIOUS
<1>11. d.clear = Clamp(1, c.clear, 60) /\ d.wifi = (IF c.wifi > 0 THEN -c.wifi ELSE c.wifi)
  OBVIOUS
<1>12. d.loss = Clamp(0, c.loss, 100) /\ d.psi = Clamp(0, c.psi, 100)
  OBVIOUS
<1>13. d.event = Clamp(0, c.event, 1440) /\ d.histLen = Clamp(10, c.histLen, 5000)
  OBVIOUS
<1>14. d.procsCap = Clamp(10, c.procsCap, 10000)
  OBVIOUS
<1>15. d.warn = c.warn /\ d.hot = c.hot /\ d.crit = c.crit
  OBVIOUS
<1>16. d.explicit = c.explicit /\ d.fromTrips = c.fromTrips
  OBVIOUS
<1> HIDE DEF Ranged, RangedMost
<1> QED
  BY <1>1, <1>4, <1>5, <1>6, <1>7, <1>8, <1>9, <1>10, <1>11, <1>12, <1>13, <1>14, <1>15, <1>16

LEMMA RangedIsTyped ==
  ASSUME NEW c, Typed(c)
  PROVE  Typed(Ranged(c))
<1> DEFINE d == Ranged(c)
<1>1. /\ d.fast \in Int /\ d.proc \in Int /\ d.slow \in Int /\ d.step \in Int
      /\ d.logCap \in Int /\ d.load \in Int /\ d.mem \in Int /\ d.swap \in Int
      /\ d.disk \in Int /\ d.low \in Int /\ d.flat \in Int /\ d.clear \in Int
      /\ d.wifi \in Int /\ d.loss \in Int /\ d.psi \in Int /\ d.event \in Int
      /\ d.histLen \in Int /\ d.procsCap \in Int
      /\ d.warn \in Int /\ d.hot \in Int /\ d.crit \in Int
  BY IntegralFields, RangedFields DEF Greatest, Least, Clamp, PctOr
<1>2. d.explicit \in BOOLEAN /\ d.fromTrips \in BOOLEAN
  BY RangedFields DEF Typed
<1>3. DOMAIN d = Fields
  BY RangedFields
<1>4. d = [k \in DOMAIN d |-> d[k]]
  BY DEF Ranged
<1>5. \A k \in Integral : d[k] \in Int
  BY <1>1 DEF Integral, Intervals, Temps, Numbers
<1> HIDE DEF d
<1>6. d \in [Fields -> Value]
  <2>1. \A k \in Fields : d[k] \in Value
    BY <1>2, <1>5 DEF Fields, Keys, Integral, Value
  <2> QED
    BY <1>3, <1>4, <2>1
<1>7. Typed(d)
  BY <1>2, <1>5, <1>6 DEF Typed
<1> QED
  BY <1>7 DEF d

(* The lower tiers go down and the critical one stays.                     *)
LEMMA OrderFacts ==
  ASSUME NEW c, Typed(c)
  PROVE  /\ Typed(OrderTemps(c)) /\ Ordered(OrderTemps(c))
         /\ OrderTemps(c).crit = c.crit
         /\ \A k \in Fields \ {"warn", "hot"} : OrderTemps(c)[k] = c[k]
         /\ Ordered(c) => OrderTemps(c) = c
<1> DEFINE hot == Least(c.hot, c.crit)
           warn == Least(c.warn, hot)
           d == [c EXCEPT !.hot = hot, !.warn = warn]
<1>1. OrderTemps(c) = d
  BY DEF OrderTemps
<1>2. c \in [Fields -> Value] /\ {"warn", "hot", "crit"} \subseteq Fields
  BY DEF Typed, Fields, Keys, Temps
<1>3. c.warn \in Int /\ c.hot \in Int /\ c.crit \in Int
  BY IntegralFields
<1>4. /\ hot \in Int /\ warn \in Int /\ warn <= hot /\ hot <= c.crit
      /\ Ordered(c) => hot = c.hot /\ warn = c.warn
  BY <1>3 DEF Ordered, Least
<1> HIDE DEF hot, warn
<1>5. /\ d \in [Fields -> Value]
      /\ d.hot = hot /\ d.warn = warn
      /\ \A k \in Fields \ {"warn", "hot"} : d[k] = c[k]
  BY <1>2, <1>4 DEF Value
<1> HIDE DEF d
<1>6. d.crit = c.crit /\ d.explicit = c.explicit /\ d.fromTrips = c.fromTrips
  BY <1>5 DEF Fields, Keys, Temps
<1>7. \A k \in Integral : d[k] \in Int
  <2> SUFFICES ASSUME NEW k \in Integral PROVE d[k] \in Int
    OBVIOUS
  <2>1. k \in Fields /\ c[k] \in Int
    BY DEF Integral, Fields, Keys, Typed
  <2> QED
    BY <1>4, <1>5, <2>1
<1>8. Typed(d)
  BY <1>5, <1>6, <1>7 DEF Typed
<1>9. Ordered(d)
  BY <1>4, <1>5, <1>6 DEF Ordered
<1>10. Ordered(c) => d = c
  <2> SUFFICES ASSUME Ordered(c) PROVE d = c
    OBVIOUS
  <2>1. \A k \in Fields : d[k] = c[k]
    BY <1>4, <1>5
  <2> QED
    BY <1>2, <1>5, <2>1
<1> QED
  BY <1>1, <1>5, <1>6, <1>8, <1>9, <1>10

(* Whatever Sanitize is given it settles; what is settled it leaves alone. *)
LEMMA SanitizeFacts ==
  ASSUME NEW c, Typed(c)
  PROVE  /\ Typed(Sanitize(c)) /\ Settled(Sanitize(c))
         /\ Sanitize(c).crit = c.crit /\ Sanitize(c).explicit = c.explicit
<1> DEFINE d == Ranged(c)
<1>1. Sanitize(c) = OrderTemps(d)
  BY SanitizeIs
<1>2. Typed(d)
  BY RangedIsTyped
<1>3. InRange(d)
  <2>1. /\ d.fast >= 2 /\ d.proc >= d.fast /\ d.slow >= d.fast /\ d.logCap >= 16
        /\ d.load > 0 /\ d.wifi <= 0
    BY IntegralFields, RangedFields DEF Greatest
  <2>2. Within(d.mem, 1, 100) /\ Within(d.swap, 1, 100) /\ Within(d.disk, 1, 100)
    BY IntegralFields, RangedFields DEF PctOr, Within
  <2>3. /\ Within(d.step, 1, 100) /\ Within(d.clear, 1, 60) /\ Within(d.loss, 0, 100)
    BY IntegralFields, RangedFields DEF Clamp, Least, Greatest, Within
  <2>4. /\ Within(d.psi, 0, 100) /\ Within(d.event, 0, 1440)
        /\ Within(d.histLen, 10, 5000) /\ Within(d.procsCap, 10, 10000)
    BY IntegralFields, RangedFields DEF Clamp, Least, Greatest, Within
  <2>5. Within(d.low, 0, 100) /\ Within(d.flat, 0, 100) /\ d.flat <= d.low
    BY IntegralFields, RangedFields DEF Clamp, Least, Greatest, Within
  <2> HIDE DEF d
  <2> QED
    BY <2>1, <2>2, <2>3, <2>4, <2>5 DEF InRange
<1>4. d.crit = c.crit /\ d.explicit = c.explicit
  BY RangedFields
<1> HIDE DEF d
<1>5. /\ Typed(OrderTemps(d)) /\ Ordered(OrderTemps(d))
      /\ \A k \in Fields \ {"warn", "hot"} : OrderTemps(d)[k] = d[k]
  BY <1>2, OrderFacts
<1>6. InRange(OrderTemps(d)) /\ OrderTemps(d).explicit = d.explicit
      /\ OrderTemps(d).crit = d.crit
  <2> DEFINE e == OrderTemps(d)
  <2>1. Numbers \cup Intervals \cup {"crit", "explicit"} \subseteq Fields \ {"warn", "hot"}
    BY DEF Fields, Keys, Intervals, Temps, Numbers
  <2>2. /\ e.fast = d.fast /\ e.proc = d.proc /\ e.slow = d.slow
        /\ e.step = d.step /\ e.mem = d.mem /\ e.swap = d.swap /\ e.disk = d.disk
        /\ e.low = d.low /\ e.flat = d.flat /\ e.load = d.load
        /\ e.logCap = d.logCap /\ e.clear = d.clear /\ e.wifi = d.wifi
        /\ e.loss = d.loss /\ e.psi = d.psi /\ e.event = d.event
        /\ e.histLen = d.histLen /\ e.procsCap = d.procsCap
        /\ e.crit = d.crit /\ e.explicit = d.explicit
    BY <1>5, <2>1 DEF Intervals, Numbers
  <2> HIDE DEF e
  <2>3. InRange(e)
    BY <1>3, <2>2 DEF InRange
  <2> QED
    BY <2>2, <2>3 DEF e
<1> QED
  BY <1>1, <1>4, <1>5, <1>6 DEF Settled

LEMMA SettledStays ==
  ASSUME NEW c, Typed(c), Settled(c)
  PROVE  Sanitize(c) = c
<1> DEFINE d == Ranged(c)
<1>1. /\ d.fast = c.fast /\ d.proc = c.proc /\ d.slow = c.slow /\ d.logCap = c.logCap
      /\ d.load = c.load /\ d.wifi = c.wifi
  BY IntegralFields, RangedFields DEF Settled, InRange, Greatest
<1>2. d.mem = c.mem /\ d.swap = c.swap /\ d.disk = c.disk
  BY IntegralFields, RangedFields DEF Settled, InRange, Within, PctOr
<1>3. /\ d.step = c.step /\ d.clear = c.clear /\ d.loss = c.loss /\ d.psi = c.psi
      /\ d.event = c.event /\ d.histLen = c.histLen /\ d.procsCap = c.procsCap
  <2>1. d.step = c.step /\ d.clear = c.clear /\ d.loss = c.loss
    BY IntegralFields, RangedFields DEF Settled, InRange, Clamp, Least, Greatest, Within
  <2>2. /\ d.psi = c.psi /\ d.event = c.event
        /\ d.histLen = c.histLen /\ d.procsCap = c.procsCap
    BY IntegralFields, RangedFields DEF Settled, InRange, Clamp, Least, Greatest, Within
  <2> QED
    BY <2>1, <2>2
<1>4. d.low = c.low /\ d.flat = c.flat
  BY IntegralFields, RangedFields DEF Settled, InRange, Clamp, Least, Greatest, Within
<1>5. /\ d.warn = c.warn /\ d.hot = c.hot /\ d.crit = c.crit
      /\ d.explicit = c.explicit /\ d.fromTrips = c.fromTrips
  BY RangedFields
<1>6. d \in [Fields -> Value] /\ c \in [Fields -> Value]
  BY RangedIsTyped DEF Typed
<1> HIDE DEF d
<1>7. \A k \in Fields : d[k] = c[k]
  BY <1>1, <1>2, <1>3, <1>4, <1>5 DEF Fields, Keys, Intervals, Temps, Numbers
<1>8. d = c
  BY <1>6, <1>7
<1>9. Sanitize(c) = OrderTemps(c)
  BY <1>8, SanitizeIs DEF d
<1> QED
  BY <1>9, OrderFacts DEF Settled

(* Calibration replaces the temperatures and sanitizes again.              *)
LEMMA CalibrateFacts ==
  ASSUME NEW c, Typed(c), Settled(c), NEW t \in Trips
  PROVE  /\ Typed(CalibrateTemps(c, t)) /\ Settled(CalibrateTemps(c, t))
         /\ c.explicit => CalibrateTemps(c, t) = c
<1> DEFINE r == TripThresholds(t)
           e == [c EXCEPT !.warn = r.warn, !.hot = r.hot, !.crit = r.crit]
<1>1. CalibrateTemps(c, t) = c \/ (~c.explicit /\ CalibrateTemps(c, t) = Sanitize(e))
  BY DEF CalibrateTemps
<1>2. r.warn \in Int /\ r.hot \in Int /\ r.crit \in Int
  <2> DEFINE thr == Throttle(t)
             crit == IF t.critical > 0 THEN t.critical ELSE Part(115, thr)
             hot == IF thr = 0 \/ thr >= crit THEN Part(80, crit) ELSE thr
  <2>1. \A x \in Int : Part(115, x) \in Int /\ Part(80, x) \in Int /\ Part(75, x) \in Int
    BY DEF Part
  <2>2. thr \in Int /\ t.critical \in Int
    BY ConfigAssumption DEF Throttle
  <2> HIDE DEF thr
  <2>3. crit \in Int
    BY <2>1, <2>2
  <2> HIDE DEF crit
  <2>4. hot \in Int
    BY <2>1, <2>2, <2>3
  <2>5. r = [warn |-> Part(75, hot), hot |-> hot, crit |-> crit]
    BY DEF TripThresholds, thr, crit
  <2> HIDE DEF hot, r
  <2> QED
    BY <2>1, <2>3, <2>4, <2>5
<1> HIDE DEF r
<1>3. Typed(e)
  <2>1. c \in [Fields -> Value] /\ {"warn", "hot", "crit"} \subseteq Fields
    BY DEF Typed, Fields, Keys, Temps
  <2>2. /\ e \in [Fields -> Value]
        /\ e.warn = r.warn /\ e.hot = r.hot /\ e.crit = r.crit
        /\ \A k \in Fields \ {"warn", "hot", "crit"} : e[k] = c[k]
    BY <1>2, <2>1 DEF Value
  <2> HIDE DEF e
  <2>3. \A k \in Integral : e[k] \in Int
    BY <1>2, <2>2 DEF Typed, Integral, Fields, Keys
  <2>4. e.explicit = c.explicit /\ e.fromTrips = c.fromTrips
    BY <2>2 DEF Fields, Keys, Temps
  <2> QED
    BY <2>2, <2>3, <2>4 DEF Typed
<1>4. Typed(Sanitize(e)) /\ Settled(Sanitize(e))
  BY <1>3, SanitizeFacts
<1> QED
  BY <1>1, <1>4

LEMMA ConfigStart == ConfigInit => ConfigInv
<1> SUFFICES ASSUME ConfigInit PROVE ConfigInv
  OBVIOUS
<1>1. cfg = Default /\ userCrit = {} /\ ~Running
  BY DEF ConfigInit, Running
<1>2. \A k \in Integral : Default[k] \in Int
  BY DEF Default, Integral, Intervals, Temps, Numbers
<1>3. Default.explicit \in BOOLEAN /\ Default.fromTrips \in BOOLEAN
  BY DEF Default
<1>4. DOMAIN Default = Fields /\ Default = [k \in DOMAIN Default |-> Default[k]]
  BY DEF Default, Fields, Keys, Intervals, Temps, Numbers
<1>5. \A k \in Fields : Default[k] \in Value
  BY <1>2, <1>3 DEF Fields, Keys, Integral, Value
<1>6. Default \in [Fields -> Value]
  BY <1>4, <1>5
<1>7. Typed(Default)
  BY <1>2, <1>3, <1>6 DEF Typed
<1> QED
  BY <1>1, <1>7 DEF ConfigInv

(* One line of the file.                                                   *)
LEMMA LineKeeps ==
  ASSUME ConfigInv, NEW l \in ConfigLines, LoadLine(l[1], l[2])
  PROVE  ConfigInv'
<1> DEFINE k == l[1]
           v == l[2]
<1>1. ~Running' /\ Typed(cfg)
  BY DEF LoadLine, Running, ConfigInv
<1>2. v = Junk \/ (k = "fromTrips" /\ v \in BOOLEAN) \/ (k # "fromTrips" /\ v \in Int)
  BY ConfigAssumption
<1>3. /\ userCrit' = (IF k = "crit" /\ v # Junk THEN {v} ELSE userCrit)
      /\ cfg' = IF k \in Keys THEN Apply(cfg, k, v) ELSE cfg
  BY DEF LoadLine
<1> HIDE DEF k, v
<1>4. CASE cfg' = cfg /\ userCrit' = userCrit
  BY <1>1, <1>4 DEF ConfigInv
<1>5. CASE ~(cfg' = cfg /\ userCrit' = userCrit)
  <2>1. "crit" \in Keys /\ k \in Keys /\ v # Junk
    <3>1. "crit" \in Keys
      BY DEF Keys, Temps
    <3>2. Apply(cfg, k, Junk) = cfg
      BY DEF Apply
    <3> QED
      BY <1>3, <1>5, <3>1, <3>2
  <2>2. cfg \in [Fields -> Value] /\ k \in Fields /\ {"explicit"} \subseteq Fields
    BY <1>1, <2>1 DEF Typed, Fields
  <2>3. CASE k \in Temps
    <3>1. cfg' = [cfg EXCEPT ![k] = v, !.explicit = TRUE] /\ v \in Int
      BY <1>2, <1>3, <2>1, <2>3 DEF Apply, Intervals, Temps
    <3>2. /\ cfg' \in [Fields -> Value]
          /\ cfg'[k] = v /\ cfg'.explicit = TRUE
          /\ \A j \in Fields \ {k, "explicit"} : cfg'[j] = cfg[j]
      BY <2>2, <2>3, <3>1 DEF Value, Temps
    <3>3. Typed(cfg')
      BY <1>1, <2>3, <3>1, <3>2 DEF Typed, Integral, Fields, Keys, Intervals, Temps, Numbers
    <3>4. \A u \in userCrit' : cfg'.explicit /\ cfg'.crit = u
      BY <1>3, <2>1, <2>3, <3>2 DEF ConfigInv, Fields, Keys, Temps
    <3> QED
      BY <1>1, <3>3, <3>4 DEF ConfigInv
  <2>4. CASE k \notin Temps
    <3>1. userCrit' = userCrit
      BY <1>3, <2>4 DEF Temps
    <3>2. PICK w \in Value :
            /\ cfg' = [cfg EXCEPT ![k] = w]
            /\ k \in Integral => w \in Int
            /\ k = "fromTrips" => w \in BOOLEAN
      <4>1. CASE k \in Intervals
        <5>1. /\ k # "fromTrips" /\ k \in Integral /\ v \in Int
          BY <1>2, <2>1, <4>1 DEF Intervals, Integral
        <5>2. Least(v, MaxInterval) \in Int
          BY <5>1 DEF Least, MaxInterval
        <5>3. Apply(cfg, k, v) = IF v > 0 THEN [cfg EXCEPT ![k] = Least(v, MaxInterval)]
                                 ELSE cfg
          BY <2>1, <4>1 DEF Apply, Intervals, Temps
        <5>4. cfg' = [cfg EXCEPT ![k] = Least(v, MaxInterval)]
          BY <1>3, <1>5, <2>1, <3>1, <5>3
        <5> QED
          BY <5>1, <5>2, <5>4 DEF Value
      <4>2. CASE k \notin Intervals
        <5>1. cfg' = [cfg EXCEPT ![k] = v]
          BY <1>3, <2>1, <2>4, <4>2 DEF Apply
        <5>2. "fromTrips" \notin Integral
          BY DEF Integral, Intervals, Temps, Numbers
        <5> QED
          BY <1>2, <2>1, <5>1, <5>2 DEF Value
      <4> QED
        BY <4>1, <4>2
    <3>3. /\ cfg' \in [Fields -> Value] /\ cfg'[k] = w
          /\ \A j \in Fields \ {k} : cfg'[j] = cfg[j]
      <4>1. cfg \in [Fields -> Value] /\ k \in Fields /\ w \in Value
        BY <2>2
      <4>2. cfg' = [cfg EXCEPT ![k] = w]
        BY <3>2
      <4> QED
        BY <4>1, <4>2
    <3>4. k # "explicit" /\ "explicit" \notin Keys
      BY <2>1 DEF Keys, Intervals, Temps, Numbers
    <3>5. Typed(cfg')
      <4>1. \A j \in Integral : cfg'[j] \in Int
        BY <1>1, <3>2, <3>3 DEF Typed, Integral, Fields, Keys
      <4>2. cfg'.explicit \in BOOLEAN
        BY <1>1, <2>2, <3>3, <3>4 DEF Typed
      <4>3. cfg'.fromTrips \in BOOLEAN
        BY <1>1, <3>2, <3>3 DEF Typed, Fields, Keys
      <4> QED
        BY <3>3, <4>1, <4>2, <4>3 DEF Typed
    <3>6. cfg'.crit = cfg.crit /\ cfg'.explicit = cfg.explicit
      BY <2>2, <2>4, <3>3, <3>4 DEF Fields, Keys, Temps
    <3> QED
      BY <1>1, <3>1, <3>5, <3>6 DEF ConfigInv
  <2> QED
    BY <2>3, <2>4
<1> QED
  BY <1>4, <1>5

LEMMA NewModelKeeps ==
  ASSUME ConfigInv, NEW t \in Trips, NewModel(t)
  PROVE  ConfigInv'
<1> DEFINE s == Sanitize(cfg)
<1>1. cfg' = CalibrateTemps(s, t) /\ userCrit' = userCrit
  BY DEF NewModel
<1>2. Typed(s) /\ Settled(s) /\ s.crit = cfg.crit /\ s.explicit = cfg.explicit
  BY SanitizeFacts DEF ConfigInv
<1> HIDE DEF s
<1>3. Typed(cfg') /\ Settled(cfg')
  BY <1>1, <1>2, CalibrateFacts
<1>4. s.explicit => cfg' = s
  BY <1>1, <1>2, CalibrateFacts
<1>5. \A v \in userCrit' : cfg'.explicit /\ cfg'.crit = v
  BY <1>1, <1>2, <1>4 DEF ConfigInv
<1>6. ColorsFollow'
  BY DEF NewModel, SetTempThresholds, ColorsFollow
<1> QED
  BY <1>3, <1>5, <1>6 DEF ConfigInv

LEMMA ConfigKeeps == ConfigInv /\ [ConfigNext]_configVars => ConfigInv'
<1> SUFFICES ASSUME ConfigInv, [ConfigNext]_configVars PROVE ConfigInv'
  OBVIOUS
<1>1. ASSUME NEW l \in ConfigLines, LoadLine(l[1], l[2]) PROVE ConfigInv'
  BY <1>1, LineKeeps
<1>2. ASSUME NEW t \in Trips, NewModel(t) PROVE ConfigInv'
  BY <1>2, NewModelKeeps
<1>3. CASE UNCHANGED configVars
  BY <1>3 DEF configVars, ConfigInv, Running, ColorsFollow
<1> QED
  BY <1>1, <1>2, <1>3 DEF ConfigNext

LEMMA ConfigInvariance == ConfigSpec => []ConfigInv
  BY ConfigStart, ConfigKeeps, PTL DEF ConfigSpec

(* The config a model runs with is one Sanitize would leave alone, whoever *)
(* sanitizes it again (config.go:464-561, calibrateTemps).                 *)
THEOREM SanitizeIsSettled == ConfigSpec => []SanitizeSettles
<1>1. ConfigInv => SanitizeSettles
  BY SettledStays DEF ConfigInv, SanitizeSettles
<1> QED
  BY <1>1, ConfigInvariance, PTL

(* Whatever the file says, an idle machine raises none of the alerts on    *)
(* RAM, swap, disk, load, loss and pressure, and one at its limits raises  *)
(* each that is not turned off; the battery is told of at zero and, short  *)
(* of a low tier of 100, not when full (pctOr and the clamps,              *)
(* config.go:483-542).                                                     *)
THEOREM LevelThresholdsBite == ConfigSpec => []ThresholdsBite
<1>1. ConfigInv => ThresholdsBite
  <2> SUFFICES ASSUME ConfigInv, Running PROVE ThresholdsBite
    BY DEF ThresholdsBite
  <2>1. InRange(cfg) /\ Typed(cfg)
    BY DEF ConfigInv, Settled
  <2>2. /\ Within(cfg.mem, 1, 100) /\ Within(cfg.swap, 1, 100) /\ Within(cfg.disk, 1, 100)
        /\ cfg.mem \in Int /\ cfg.swap \in Int /\ cfg.disk \in Int
        /\ cfg.loss \in Int /\ cfg.psi \in Int /\ cfg.flat \in Int
        /\ cfg.load \in Int /\ cfg.load > 0 /\ Within(cfg.loss, 0, 100) /\ Within(cfg.psi, 0, 100)
        /\ Within(cfg.flat, 0, 100)
    BY <2>1, IntegralFields DEF InRange
  <2>3. Levels \cap Raised(Idle) = {}
    <3>1. LevelConds(Idle) = {}
      BY <2>2 DEF Within, LevelConds, Idle
    <3>2. OptionalConds(Idle) = {}
      BY <2>2 DEF Within, OptionalConds, Idle
    <3>3. \A t \in Int : \A c \in TempConds(t) : c[1] = "temp"
      BY DEF TempConds
    <3>4. \A charging, capacity : \A c \in BattConds(charging, capacity) : c[1] = "batt"
      BY DEF BattConds
    <3>5. \A dBm : \A c \in WifiConds(dBm) : c[1] = "wifi"
      BY DEF WifiConds
    <3>6. Idle.temp \in Int
      BY DEF Idle
    <3>7. \A c \in Conds(Idle) : c[1] \in {"temp", "batt", "wifi"}
      BY <3>1, <3>2, <3>3, <3>4, <3>5, <3>6 DEF Conds
    <3> QED
      BY <3>7 DEF Raised, Levels
  <2>4. \A k \in {"mem", "swap", "disk", "load"} : <<k, "warn">> \in Conds(Full)
    <3>1. \A k \in {"mem", "swap", "disk", "load"} : Full[k] >= cfg[k]
      BY <2>2 DEF Within, Full
    <3>2. {"mem", "swap", "disk", "load"} =
            {j \in {"mem", "swap", "disk", "load"} : Full[j] >= cfg[j]}
      BY <3>1
    <3>3. \A k \in {"mem", "swap", "disk", "load"} : <<k, "warn">> \in LevelConds(Full)
      BY <3>2 DEF LevelConds
    <3> QED
      BY <3>3 DEF Conds
  <2>5. \A k \in {"loss", "psi"} : cfg[k] > 0 => <<k, "warn">> \in Conds(Full)
    <3>1. \A k \in {"loss", "psi"} : Full[k] >= cfg[k]
      BY <2>2 DEF Within, Full
    <3>2. \A k \in {"loss", "psi"} : cfg[k] > 0 =>
            k \in {j \in {"loss", "psi"} : cfg[j] > 0 /\ Full[j] >= cfg[j]}
      BY <3>1
    <3>3. \A k \in {"loss", "psi"} : cfg[k] > 0 => <<k, "warn">> \in OptionalConds(Full)
      BY <3>2 DEF OptionalConds
    <3> QED
      BY <3>3 DEF Conds
  <2>6. {k \in Levels : cfg[k] > 0} \subseteq Raised(Full)
    <3>1. \A k : <<k, "warn">> \in Conds(Full) => k \in Raised(Full)
      <4> SUFFICES ASSUME NEW k, <<k, "warn">> \in Conds(Full) PROVE k \in Raised(Full)
        OBVIOUS
      <4>1. <<k, "warn">>[1] = k
        OBVIOUS
      <4> QED
        BY <4>1 DEF Raised
    <3>2. Levels = {"mem", "swap", "disk", "load"} \cup {"loss", "psi"}
      BY DEF Levels
    <3> QED
      BY <2>4, <2>5, <3>1, <3>2
  <2>7. <<"batt", "crit">> \in Conds(Full)
    BY <2>2 DEF Within, Conds, BattConds, Full
  <2>8. "batt" \in Raised(Idle) => cfg.low = 100
    <3> SUFFICES ASSUME "batt" \in Raised(Idle) PROVE cfg.low = 100
      OBVIOUS
    <3>1. PICK c \in Conds(Idle) : c[1] = "batt"
      BY DEF Raised
    <3>2. c \notin LevelConds(Idle) /\ c \notin OptionalConds(Idle)
      BY <2>2, <3>1 DEF LevelConds, OptionalConds, Idle, Within
    <3>3. c \notin TempConds(Idle.temp) /\ c \notin WifiConds(Idle.wifi)
      BY <3>1 DEF TempConds, WifiConds
    <3>4. BattConds(FALSE, 100) # {}
      <4>1. c \in BattConds(Idle.charging, Idle.batt)
        BY <3>1, <3>2, <3>3 DEF Conds
      <4>2. Idle.charging = FALSE /\ Idle.batt = 100
        BY DEF Idle
      <4> QED
        BY <4>1, <4>2
    <3>5. Within(cfg.low, 0, 100) /\ cfg.low \in Int /\ cfg.flat <= cfg.low
      BY <2>1, IntegralFields DEF InRange
    <3> QED
      BY <2>2, <3>4, <3>5 DEF BattConds, Within
  <2> QED
    BY <2>3, <2>6, <2>7, <2>8 DEF ThresholdsBite
<1> QED
  BY <1>1, ConfigInvariance, PTL

(* Colours and alerts of a temperature agree, and the user's temp_crit     *)
(* stays (calibrateTemps, model.go:384-411).                               *)
THEOREM TempsDoAgree == ConfigSpec => []TempsAgree
<1>1. ConfigInv => TempsAgree
  <2> SUFFICES ASSUME ConfigInv, Running PROVE TempsAgree
    BY DEF TempsAgree
  <2>1. \A v \in userCrit : cfg.crit = v
    BY DEF ConfigInv
  <2>2. ASSUME cfg.hot > 0, cfg.crit > 0, NEW t \in Int
        PROVE  /\ TempColor(t) = "red" <=> <<"temp", "crit">> \in TempConds(t)
               /\ TempColor(t) = "orange" <=> <<"temp", "warn">> \in TempConds(t)
    <3>1. colors["hot"] = cfg.hot /\ colors["crit"] = cfg.crit
      BY <2>2 DEF ConfigInv, ColorsFollow, Temps
    <3>2. cfg.hot \in Int /\ cfg.crit \in Int /\ cfg.hot <= cfg.crit
      BY IntegralFields DEF ConfigInv, Settled, Ordered
    <3> QED
      BY <3>1, <3>2 DEF TempColor, TempConds
  <2>3. cfg.hot \in Int /\ cfg.crit \in Int
    BY IntegralFields DEF ConfigInv
  <2> QED
    BY <2>1, <2>2, <2>3 DEF TempsAgree
<1> QED
  BY <1>1, ConfigInvariance, PTL

(* A config keeps its fields and the colours theirs, and a file has no     *)
(* more unknown keys than lines read (LoadFrom, config.go).                *)
THEOREM ConfigTypeCorrect == ConfigSpec => []ConfigTypeOK
<1> DEFINE Unknown == [key : {l[1] : l \in ConfigLines}, line : Nat]
           AsRead ==
             /\ phase \in {"reading", "running"}
             /\ lineNo \in 0..MaxLines
             /\ unknown \in Seq(Unknown) /\ Len(unknown) <= lineNo
             /\ DOMAIN colors = Temps
<1>1. ConfigInit => AsRead
  <2> SUFFICES ASSUME ConfigInit PROVE AsRead
    OBVIOUS
  <2>1. phase = "reading" /\ lineNo = 0 /\ unknown = <<>> /\ MaxLines \in Nat
    BY ConfigAssumption DEF ConfigInit
  <2>2. DOMAIN colors = Temps
    BY DEF ConfigInit
  <2> QED
    BY <2>1, <2>2
<1>2. AsRead /\ [ConfigNext]_configVars => AsRead'
  <2> SUFFICES ASSUME AsRead, [ConfigNext]_configVars PROVE AsRead'
    OBVIOUS
  <2>1. ASSUME NEW l \in ConfigLines, LoadLine(l[1], l[2]) PROVE AsRead'
    <3> DEFINE u == [key |-> l[1], line |-> lineNo']
    <3>1. /\ UNCHANGED <<phase, colors>> /\ lineNo' = lineNo + 1 /\ lineNo < MaxLines
          /\ unknown' \in {unknown, Append(unknown, u)}
      BY <2>1, Zenon DEF LoadLine
    <3>2. u \in Unknown
      BY <3>1
    <3> HIDE DEF u, Unknown
    <3>3. unknown' \in Seq(Unknown) /\ Len(unknown') <= Len(unknown) + 1
      BY <3>1, <3>2
    <3>4. lineNo' \in 0..MaxLines /\ Len(unknown') <= lineNo'
      BY <3>1, <3>3, ConfigAssumption
    <3> QED
      BY <3>1, <3>3, <3>4
  <2>2. ASSUME NEW t \in Trips, NewModel(t) PROVE AsRead'
    BY <2>2 DEF NewModel, SetTempThresholds
  <2>3. CASE UNCHANGED configVars
    BY <2>3 DEF configVars
  <2> QED
    BY <2>1, <2>2, <2>3 DEF ConfigNext
<1>3. DOMAIN Default = Fields
  BY DEF Default, Fields, Keys, Intervals, Temps, Numbers
<1>4. ConfigInv /\ AsRead => ConfigTypeOK
  BY <1>3 DEF ConfigInv, Typed, ConfigTypeOK
<1> QED
  BY <1>1, <1>2, <1>4, ConfigInvariance, PTL DEF ConfigSpec
------------------------------------------------------------------------------
(***************************************************************************)
(* ProcList, for any processes with any parents, any cap and any terminal. *)
(* The sort is a total order, so that the rank of a process (how many are  *)
(* above it) is its row; the walk of the tree never meets a process twice  *)
(* since each is the child of one parent and the roots have none; from the *)
(* two, each recomputed list shows each process it should, once.           *)
(***************************************************************************)
(* A sample is over finitely many numbers.                                 *)
LEMMA SampleFacts ==
  ASSUME NEW sample \in Samples
  PROVE  /\ DOMAIN sample \subseteq PIDs /\ DOMAIN sample \subseteq Nat
         /\ IsFiniteSet(DOMAIN sample)
         /\ \A p \in DOMAIN sample : sample[p].cpu \in Int
<1>1. PICK S \in SUBSET PIDs : sample \in [S -> [ppid : UNION Range(Parents), cpu : CPUs]]
  BY DEF Samples
<1>2. DOMAIN sample = S /\ PIDs \subseteq Nat /\ IsFiniteSet(PIDs) /\ CPUs \subseteq Int
  BY <1>1, ProcListAssumption DEF PIDs
<1>3. \A p \in S : sample[p].cpu \in Int
  BY <1>1, <1>2
<1>4. IsFiniteSet(S)
  BY <1>2, FS_Subset
<1> QED
  BY <1>2, <1>3, <1>4

(* The order of the list is total: no two processes are level.             *)
LEMMA AboveOrders ==
  ASSUME NEW sample \in Samples, NEW cpuFirst \in BOOLEAN
  PROVE  \A p, q, r \in DOMAIN sample :
           /\ ~Above(sample, cpuFirst, p, p)
           /\ Above(sample, cpuFirst, p, q) /\ Above(sample, cpuFirst, q, r)
                => Above(sample, cpuFirst, p, r)
           /\ p = q \/ Above(sample, cpuFirst, p, q) \/ Above(sample, cpuFirst, q, p)
<1> TAKE p, q, r \in DOMAIN sample
<1>1. /\ p \in Nat /\ q \in Nat /\ r \in Nat
      /\ sample[p].cpu \in Int /\ sample[q].cpu \in Int /\ sample[r].cpu \in Int
  BY SampleFacts
<1> QED
  BY <1>1, SMT DEF Above

(* The sort puts each process on a row of its own, and none elsewhere.     *)
LEMMA SortedFacts ==
  ASSUME NEW sample \in Samples, NEW cpuFirst \in BOOLEAN,
         NEW S \in SUBSET DOMAIN sample
  PROVE  /\ Once(Sorted(sample, cpuFirst, S), S)
         /\ Range(Sorted(sample, cpuFirst, S)) = S
         /\ Len(Sorted(sample, cpuFirst, S)) = Cardinality(S)
<1> DEFINE Up(q, p) == Above(sample, cpuFirst, q, p)
           U(p) == {q \in S : Up(q, p)}
           n == Cardinality(S)
           rank == [p \in S |-> Cardinality(U(p))]
           s == Sorted(sample, cpuFirst, S)
<1>1. IsFiniteSet(S) /\ n \in Nat
  BY SampleFacts, FS_Subset, FS_CardinalityType
<1>2. \A p, q, r \in S : /\ ~Up(p, p)
                         /\ Up(p, q) /\ Up(q, r) => Up(p, r)
                         /\ p = q \/ Up(p, q) \/ Up(q, p)
  BY AboveOrders
<1>3. s = [i \in 1..n |-> CHOOSE p \in S : Cardinality(U(p)) = i - 1]
  BY DEF Sorted
<1> HIDE DEF s, Up
<1>4. ASSUME NEW p \in S
      PROVE  IsFiniteSet(U(p)) /\ Cardinality(U(p)) \in 0..(n - 1)
  <2>1. U(p) \in SUBSET (S \ {p})
    BY <1>2
  <2>2. IsFiniteSet(S \ {p}) /\ Cardinality(S \ {p}) = n - 1
    BY <1>1, FS_RemoveElement
  <2>3. IsFiniteSet(U(p)) /\ Cardinality(U(p)) <= n - 1
    BY <2>1, <2>2, FS_Subset
  <2>4. Cardinality(U(p)) \in Nat
    BY <2>3, FS_CardinalityType
  <2> QED
    BY <1>1, <2>3, <2>4
<1>5. ASSUME NEW p \in S, NEW q \in S, Up(p, q)
      PROVE  Cardinality(U(p)) # Cardinality(U(q))
  <2>1. U(p) \in SUBSET U(q) /\ p \in U(q) /\ p \notin U(p)
    BY <1>2, <1>5
  <2> QED
    BY <1>4, <2>1, FS_Subset
<1>6. rank \in [S -> 0..(n - 1)] /\ \A p \in S : rank[p] = Cardinality(U(p))
  BY <1>4
<1>7. \A p, q \in S : rank[p] = rank[q] => p = q
  BY <1>2, <1>5, <1>6
<1> HIDE DEF n, U, rank
<1>8. \A k \in 0..(n - 1) : \E p \in S : rank[p] = k
  <2>1. rank \in Injection(S, 0..(n - 1))
    BY <1>6, <1>7 DEF Injection, IsInjective
  <2>2. IsFiniteSet(0..(n - 1)) /\ Cardinality(0..(n - 1)) = n
    <3>1. IsFiniteSet(0..(n - 1)) /\
          Cardinality(0..(n - 1)) = IF 0 > n - 1 THEN 0 ELSE (n - 1) - 0 + 1
      BY <1>1, FS_Interval
    <3>2. (IF 0 > n - 1 THEN 0 ELSE (n - 1) - 0 + 1) = n
      BY <1>1
    <3> QED
      BY <3>1, <3>2
  <2>3. rank \in Surjection(S, 0..(n - 1))
    BY <1>1, <2>1, <2>2, FS_Injection DEF n
  <2> QED
    BY <2>3 DEF Surjection
<1>9. ASSUME NEW i \in 1..n PROVE s[i] \in S /\ rank[s[i]] = i - 1
  <2>1. i - 1 \in 0..(n - 1)
    BY <1>1
  <2>2. \E p \in S : Cardinality(U(p)) = i - 1
    BY <1>6, <1>8, <2>1
  <2>3. s[i] \in S /\ Cardinality(U(s[i])) = i - 1
    BY <1>3, <2>2
  <2> QED
    BY <1>6, <2>3
<1>10. s \in Seq(S) /\ Len(s) = n
  <2>1. s = [i \in 1..n |-> s[i]]
    BY <1>3
  <2> QED
    BY <1>1, <1>9, <2>1
<1>11. \A i, j \in 1..Len(s) : s[i] = s[j] => i = j
  BY <1>1, <1>9, <1>10
<1>12. Range(s) = S
  <2>1. ASSUME NEW p \in S PROVE \E i \in 1..Len(s) : s[i] = p
    <3>1. rank[p] \in 0..(n - 1) /\ rank[p] + 1 \in 1..n /\ (rank[p] + 1) - 1 = rank[p]
      BY <1>1, <1>6
    <3>2. s[rank[p] + 1] = p
      BY <1>7, <1>9, <3>1
    <3> QED
      BY <1>10, <3>1, <3>2
  <2>2. s \in Seq(S)
    BY <1>10
  <2>3. /\ \A x : x \in Range(s) <=> \E i \in 1..Len(s) : s[i] = x
        /\ Range(s) \subseteq S
    BY <2>2, RangeIs
  <2> QED
    BY <2>1, <2>3
<1> QED
  BY <1>10, <1>11, <1>12, OnceIs DEF s, n

(* A list of what W holds, each once, as many as the cap allows.           *)
Lists(view, W) ==
  /\ Once(view, PIDs)
  /\ Range(view) \subseteq W
  /\ Len(view) = AtMost(ProcsCap, Cardinality(W))

LEMMA FlatLists ==
  ASSUME NEW sample \in Samples, NEW cpuFirst \in BOOLEAN, NEW query \in BOOLEAN
  PROVE  Lists(ProcsFlat(sample, cpuFirst, query),
               IF query THEN DOMAIN sample \cap Matching ELSE DOMAIN sample)
<1> DEFINE W == IF query THEN DOMAIN sample \cap Matching ELSE DOMAIN sample
           all == Sorted(sample, cpuFirst, W)
           n == AtMost(ProcsCap, Cardinality(W))
<1>1. W \in SUBSET DOMAIN sample /\ W \subseteq PIDs
  BY SampleFacts
<1>2. Cardinality(W) \in Nat
  BY <1>1, SampleFacts, FS_Subset, FS_CardinalityType
<1> HIDE DEF W
<1>3. Once(all, W) /\ Range(all) = W /\ Len(all) = Cardinality(W)
  BY <1>1, SortedFacts
<1>4. Once(all, PIDs)
  BY <1>1, <1>3, OnceWider
<1>5. n \in 0..Len(all)
  BY <1>2, <1>3, ProcListAssumption DEF AtMost
<1>6. ProcsFlat(sample, cpuFirst, query) = SubSeq(all, 1, n)
  BY <1>3, Zenon DEF ProcsFlat, W
<1> HIDE DEF all, n
<1>7. /\ Once(SubSeq(all, 1, n), PIDs)
      /\ Range(SubSeq(all, 1, n)) \subseteq Range(all)
      /\ Len(SubSeq(all, 1, n)) = n
  BY <1>4, <1>5, PieceOnce
<1> QED
  BY <1>3, <1>6, <1>7 DEF Lists, W, n

(* Rooted is the least set the roots lead into.                            *)
LEMMA RootedFacts ==
  ASSUME NEW sample
  PROVE  /\ Rooted(sample) \subseteq DOMAIN sample
         /\ Roots(sample) \subseteq Rooted(sample)
         /\ \A p \in Rooted(sample) : Children(sample, p) \subseteq Rooted(sample)
         /\ \A S \in SUBSET DOMAIN sample : LedTo(sample, S) => Rooted(sample) \subseteq S
<1>1. Roots(sample) \subseteq Rooted(sample)
  BY DEF Roots, Rooted, LedTo
<1>2. ASSUME NEW p \in Rooted(sample), NEW c \in Children(sample, p)
      PROVE  c \in Rooted(sample)
  <2>1. c \in DOMAIN sample /\ sample[c].ppid = p
    BY DEF Children
  <2>2. ASSUME NEW S \in SUBSET DOMAIN sample, LedTo(sample, S) PROVE c \in S
    BY <2>1, <2>2 DEF Rooted, LedTo
  <2> QED
    BY <2>1, <2>2 DEF Rooted
<1> QED
  BY <1>1, <1>2 DEF Rooted

(* The walk of the tree after i visits, the processes P behind it: each    *)
(* is there once, reached from the roots, and until the cap is met nothing *)
(* the roots lead to has been passed over.                                 *)
Walked(sample, w, P, i) ==
  /\ w \in [todo : Seq(DOMAIN sample), out : Seq(DOMAIN sample)]
  /\ Once(w.todo, DOMAIN sample) /\ Once(w.out, DOMAIN sample)
  /\ P \subseteq Rooted(sample)
  /\ Range(w.todo) \subseteq Rooted(sample) \ P
  /\ Range(w.out) \subseteq P
  /\ Len(w.out) <= ProcsCap
  /\ \A c \in P \cup Range(w.todo) : c \in Roots(sample) \/ sample[c].ppid \in P
  /\ Len(w.out) < ProcsCap =>
       /\ P = Range(w.out)
       /\ Roots(sample) \subseteq P \cup Range(w.todo)
       /\ \A p \in P : Children(sample, p) \subseteq P \cup Range(w.todo)
  /\ w.todo = <<>> \/ Cardinality(P) = i

LEMMA VisitKeeps ==
  ASSUME NEW sample \in Samples, NEW cpuFirst \in BOOLEAN, NEW w, NEW P, NEW i \in Nat,
         Walked(sample, w, P, i)
  PROVE  \E Q : Walked(sample, Visit(sample, cpuFirst, w), Q, i + 1)
<1> DEFINE D == DOMAIN sample
           p == Head(w.todo)
           Q == P \cup {p}
           kids == Sorted(sample, cpuFirst, Children(sample, p))
           v == Visit(sample, cpuFirst, w)
<1>1. CASE w.todo = <<>>
  <2>1. v = w
    BY <1>1 DEF Visit
  <2> QED
    BY <1>1, <2>1 DEF Walked
<1>2. CASE w.todo # <<>>
  <2>1. /\ w.todo \in Seq(D) /\ w.out \in Seq(D)
        /\ Once(w.todo, D) /\ Once(w.out, D)
    BY DEF Walked
  <2>2. /\ Once(Tail(w.todo), D) /\ p \in Range(w.todo)
        /\ Range(Tail(w.todo)) = Range(w.todo) \ {p}
    BY <1>2, <2>1, TailOnce
  <2>3. p \in Rooted(sample) /\ p \in D /\ p \notin P
    BY <2>2, RootedFacts DEF Walked
  <2>4. Cardinality(Q) = i + 1
    <3>1. IsFiniteSet(P) /\ Cardinality(P) = i
      BY <1>2, RootedFacts, SampleFacts, FS_Subset DEF Walked
    <3> QED
      BY <2>3, <3>1, FS_AddElement
  <2>5. p \notin Range(w.out) /\ ~Contains(w.out, p)
    BY <2>3 DEF Walked, Contains, Range
  <2>6. Len(w.out) \in Nat /\ ProcsCap \in Nat
    BY <2>1, ProcListAssumption
  <2>7. CASE Len(w.out) >= ProcsCap
    <3>1. v = [w EXCEPT !.todo = Tail(w.todo)]
      BY <1>2, <2>7 DEF Visit
    <3>2. /\ v \in [todo : Seq(D), out : Seq(D)]
          /\ v.todo = Tail(w.todo) /\ v.out = w.out
      BY <2>1, <2>2, <3>1 DEF Once, Walked
    <3> HIDE DEF v, p, Q
    <3>3. Q = P \cup {p}
      BY DEF Q
    <3>4. Walked(sample, v, Q, i + 1)
      BY <2>1, <2>2, <2>3, <2>4, <2>6, <2>7, <3>2, <3>3 DEF Walked
    <3> QED
      BY <3>4, Zenon DEF v
  <2>8. CASE ~(Len(w.out) >= ProcsCap)
    <3>1. v = [todo |-> kids \o Tail(w.todo), out |-> Append(w.out, p)]
      BY <1>2, <2>5, <2>8 DEF Visit
    <3>2. Children(sample, p) \in SUBSET D
      BY DEF Children
    <3>3. Once(kids, D) /\ Range(kids) = Children(sample, p)
      BY <3>2, SortedFacts, OnceWider
    <3>4. \A c \in Children(sample, p) :
            c \notin P /\ c \notin Range(w.todo) /\ sample[c].ppid = p
      BY <2>3 DEF Children, Roots, Walked
    <3> HIDE DEF kids
    <3>5. Range(kids) \cap Range(Tail(w.todo)) = {}
      BY <2>2, <3>3, <3>4
    <3>6. /\ Once(kids \o Tail(w.todo), D)
          /\ Range(kids \o Tail(w.todo)) = Range(kids) \cup Range(Tail(w.todo))
      BY <2>2, <3>3, <3>5, ConcatOnce
    <3>7. /\ Once(Append(w.out, p), D)
          /\ Range(Append(w.out, p)) = Range(w.out) \cup {p}
          /\ Len(Append(w.out, p)) = Len(w.out) + 1
      BY <2>1, <2>3, <2>5, AppendOnce
    <3>8. /\ v \in [todo : Seq(D), out : Seq(D)]
          /\ Once(v.todo, D) /\ Once(v.out, D)
          /\ Range(v.todo) = Children(sample, p) \cup (Range(w.todo) \ {p})
          /\ Range(v.out) = Range(w.out) \cup {p}
          /\ Len(v.out) = Len(w.out) + 1
      BY <2>2, <3>1, <3>3, <3>6, <3>7 DEF Once
    <3>9. Children(sample, p) \subseteq Rooted(sample) /\ p \notin Children(sample, p)
      BY <2>2, <2>3, <3>4, RootedFacts
    <3>10. Q \subseteq Rooted(sample) /\ Range(v.todo) \subseteq Rooted(sample) \ Q
             /\ Range(v.out) \subseteq Q
      BY <2>3, <3>4, <3>8, <3>9 DEF Walked
    <3>11. Len(v.out) <= ProcsCap
      BY <2>6, <2>8, <3>8
    <3>12. \A c \in Q \cup Range(v.todo) : c \in Roots(sample) \/ sample[c].ppid \in Q
      BY <2>2, <3>4, <3>8 DEF Walked
    <3>13. /\ Q = Range(v.out)
           /\ Roots(sample) \subseteq Q \cup Range(v.todo)
           /\ \A q \in Q : Children(sample, q) \subseteq Q \cup Range(v.todo)
      <4>1. Len(w.out) < ProcsCap
        BY <2>6, <2>8
      <4> QED
        BY <3>8, <4>1 DEF Walked
    <3> HIDE DEF v, Q
    <3>14. Walked(sample, v, Q, i + 1)
      BY <2>4, <3>8, <3>10, <3>11, <3>12, <3>13 DEF Walked
    <3> QED
      BY <3>14, Zenon DEF v
  <2> QED
    BY <2>7, <2>8
<1> QED
  BY <1>1, <1>2

Walk(sample) == [todo : Seq(DOMAIN sample), out : Seq(DOMAIN sample)]

LEMMA VisitTyped ==
  ASSUME NEW sample \in Samples, NEW cpuFirst \in BOOLEAN, NEW w \in Walk(sample)
  PROVE  Visit(sample, cpuFirst, w) \in Walk(sample)
<1> DEFINE D == DOMAIN sample
           p == Head(w.todo)
           kids == Sorted(sample, cpuFirst, Children(sample, p))
<1>1. CASE w.todo = <<>>
  BY <1>1 DEF Visit
<1>2. CASE w.todo # <<>>
  <2>1. w.todo \in Seq(D) /\ w.out \in Seq(D)
    BY DEF Walk
  <2>2. p \in D /\ Tail(w.todo) \in Seq(D)
    BY <1>2, <2>1, HeadTailProperties
  <2>3. Append(w.out, p) \in Seq(D)
    BY <2>1, <2>2
  <2>4. kids \in Seq(D)
    <3>1. Children(sample, p) \in SUBSET D
      BY DEF Children
    <3>2. Once(kids, Children(sample, p))
      BY <3>1, SortedFacts
    <3> QED
      BY <3>1, <3>2, OnceWider DEF Once
  <2>5. kids \o Tail(w.todo) \in Seq(D)
    BY <2>2, <2>4
  <2>6. [w EXCEPT !.todo = Tail(w.todo)] \in Walk(sample)
    BY <2>2 DEF Walk
  <2>7. [todo |-> kids \o Tail(w.todo), out |-> Append(w.out, p)] \in Walk(sample)
    BY <2>3, <2>5 DEF Walk
  <2> QED
    BY <1>2, <2>6, <2>7 DEF Visit
<1> QED
  BY <1>1, <1>2

(* One visit per process empties the stack of the walk, so that the tree   *)
(* lists what the roots lead to, up to the cap.                            *)
LEMMA ForestLists ==
  ASSUME NEW sample \in Samples, NEW cpuFirst \in BOOLEAN
  PROVE  Lists(ProcsForest(sample, cpuFirst), Rooted(sample))
<1> DEFINE D == DOMAIN sample
           N == Cardinality(D)
           A == Walk(sample)
           V(w) == Visit(sample, cpuFirst, w)
           first == [todo |-> Sorted(sample, cpuFirst, Roots(sample)), out |-> <<>>]
           After(g) == g = [i \in 0..N |-> IF i = 0 THEN first ELSE V(g[i - 1])]
           step == [p \in (1..N) \X A |-> V(p[2])]
<1>1. IsFiniteSet(D) /\ N \in Nat
  BY SampleFacts, FS_CardinalityType
<1>2. /\ Once(first.todo, D) /\ Range(first.todo) = Roots(sample)
      /\ first.todo \in Seq(D)
  <2>1. Roots(sample) \in SUBSET D
    BY DEF Roots
  <2>2. /\ Once(Sorted(sample, cpuFirst, Roots(sample)), D)
        /\ Range(Sorted(sample, cpuFirst, Roots(sample))) = Roots(sample)
    BY <2>1, SortedFacts, OnceWider
  <2> QED
    BY <2>2 DEF Once
<1>3. first \in A /\ first.out = <<>>
  BY <1>2 DEF Walk
<1>4. \A w \in A : V(w) \in A
  BY VisitTyped
<1> HIDE DEF N, A, V, first
<1>5. step \in [(1..N) \X A -> A] /\ \A i \in 1..N, w \in A : step[<<i, w>>] = V(w)
  BY <1>4
<1> HIDE DEF step
<1>6. PICK g \in [0..N -> A] : Recurs(g, N, first, step)
  BY <1>1, <1>3, <1>5, RecursionUpTo
<1>7. ASSUME NEW i \in 0..N PROVE g[i] = IF i = 0 THEN first ELSE V(g[i - 1])
  <2>1. CASE i = 0
    BY <1>6, <2>1 DEF Recurs
  <2>2. CASE i # 0
    <3>1. i \in 1..N /\ i - 1 \in 0..N
      BY <1>1, <2>2
    <3>2. g[i] = step[<<i, g[i - 1]>>] /\ g[i - 1] \in A
      BY <1>6, <3>1 DEF Recurs
    <3> QED
      BY <1>5, <2>2, <3>1, <3>2
  <2> QED
    BY <2>1, <2>2
<1>8. After(g)
  BY <1>6, <1>7
<1> DEFINE h == CHOOSE x : After(x)
<1>9. After(h)
  BY <1>8
<1>10. ProcsForest(sample, cpuFirst) = h[N].out
  BY Zenon DEF ProcsForest, N, V, first
<1>11. \A i \in 0..N : h[i] = IF i = 0 THEN first ELSE V(h[i - 1])
  BY <1>9, Zenon
<1> HIDE DEF h, After
<1> DEFINE Fits(i) == \E P : Walked(sample, h[i], P, i)
           S == {i \in Nat : i <= N => Fits(i)}
<1>12. 0 \in S
  <2>1. h[0] = first
    BY <1>1, <1>11
  <2>2. Walked(sample, first, {}, 0)
    <3>1. first \in [todo : Seq(DOMAIN sample), out : Seq(DOMAIN sample)]
      BY <1>3 DEF A, Walk
    <3>2. Once(<<>>, D) /\ Range(<<>>) = {} /\ Len(<<>>) = 0
      BY DEF Once, IsInjective, Range
    <3>3. Range(first.todo) \subseteq Rooted(sample) \ {}
      BY <1>2, RootedFacts
    <3>4. Cardinality({}) = 0
      BY FS_EmptySet
    <3> QED
      BY <1>2, <1>3, <3>1, <3>2, <3>3, <3>4, ProcListAssumption DEF Walked
  <2> QED
    BY <2>1, <2>2
<1> HIDE DEF Fits
<1>13. ASSUME NEW i \in S PROVE i + 1 \in S
  <2> SUFFICES ASSUME i + 1 <= N PROVE Fits(i + 1)
    OBVIOUS
  <2>1. i \in Nat /\ Fits(i) /\ i + 1 \in 0..N /\ (i + 1) - 1 = i /\ i + 1 # 0
    BY <1>1
  <2>2. h[i + 1] = V(h[i])
    BY <1>11, <2>1
  <2>3. PICK P : Walked(sample, h[i], P, i)
    BY <2>1 DEF Fits
  <2>4. \E Q : Walked(sample, V(h[i]), Q, i + 1)
    BY <2>1, <2>3, VisitKeeps, Zenon DEF V
  <2> QED
    BY <2>2, <2>4, Zenon DEF Fits
<1>14. S = Nat
  BY <1>12, <1>13, InductionOver
<1>15. Fits(N)
  BY <1>1, <1>14
<1> HIDE DEF S
<1> DEFINE w == h[N]
           out == w.out
<1>16. PICK P : Walked(sample, w, P, N)
  BY <1>15, Zenon DEF Fits
<1> HIDE DEF w
<1>17. Once(out, D) /\ Range(out) \subseteq P /\ P \subseteq Rooted(sample)
         /\ Len(out) <= ProcsCap
  BY <1>16 DEF Walked
<1>18. w.todo = <<>> /\ Range(w.todo) = {}
  <2>1. CASE Cardinality(P) = N
    <3>1. P \in SUBSET D
      BY <1>17, RootedFacts
    <3>2. P = D
      BY <1>1, <2>1, <3>1, FS_Subset DEF N
    <3>3. Range(w.todo) = {} /\ w.todo \in Seq(D)
      BY <1>16, <3>2, RootedFacts DEF Walked
    <3>4. ASSUME w.todo # <<>> PROVE FALSE
      <4>1. Head(w.todo) \in Range(w.todo)
        BY <1>16, <3>4, TailOnce DEF Walked
      <4> QED
        BY <3>3, <4>1
    <3> QED
      BY <3>3, <3>4
  <2>2. CASE w.todo = <<>>
    BY <2>2 DEF Range
  <2> QED
    BY <1>16, <2>1, <2>2 DEF Walked
<1>19. IsFiniteSet(Rooted(sample)) /\ Cardinality(Rooted(sample)) \in Nat
         /\ Rooted(sample) \subseteq PIDs
  BY <1>1, SampleFacts, RootedFacts, FS_Subset, FS_CardinalityType
<1> HIDE DEF out
<1>20. /\ IsFiniteSet(Range(out)) /\ Cardinality(Range(out)) = Len(out)
       /\ Len(out) \in Nat /\ ProcsCap \in Nat
       /\ Cardinality(Range(out)) <= Cardinality(Rooted(sample))
  BY <1>17, <1>19, OnceCounts, FS_Subset, ProcListAssumption
<1>21. CASE Len(out) < ProcsCap
  <2>1. P = Range(out) /\ LedTo(sample, P)
    <3>1. /\ P = Range(out) /\ Roots(sample) \subseteq P
          /\ \A p \in P : Children(sample, p) \subseteq P
      BY <1>16, <1>18, <1>21 DEF Walked, out
    <3>2. \A p \in D : HasParent(sample, p) => p \in Children(sample, sample[p].ppid)
      BY DEF Children
    <3>3. \A p \in D : ~HasParent(sample, p) => p \in Roots(sample)
      BY DEF Roots
    <3> QED
      BY <3>1, <3>2, <3>3 DEF LedTo
  <2>2. Rooted(sample) = Range(out)
    BY <1>17, <2>1, RootedFacts
  <2>3. Len(out) = AtMost(ProcsCap, Cardinality(Rooted(sample)))
    BY <1>20, <1>21, <2>2 DEF AtMost
  <2> QED
    BY <1>10, <1>17, <1>19, <2>2, <2>3, OnceWider, SampleFacts DEF Lists, out, w
<1>22. CASE ~(Len(out) < ProcsCap)
  <2>1. Len(out) = AtMost(ProcsCap, Cardinality(Rooted(sample)))
    BY <1>17, <1>19, <1>20, <1>22 DEF AtMost
  <2>2. Once(out, PIDs) /\ Range(out) \subseteq Rooted(sample)
    BY <1>17, SampleFacts, OnceWider
  <2> QED
    BY <1>10, <2>1, <2>2 DEF Lists, out, w
<1> QED
  BY <1>21, <1>22

WantedOf(sample, tree, query) ==
  IF query THEN DOMAIN sample \cap Matching
  ELSE IF tree THEN Rooted(sample) ELSE DOMAIN sample

LEMMA ViewLists ==
  ASSUME NEW sample \in Samples, NEW cpuFirst \in BOOLEAN, NEW tree \in BOOLEAN,
         NEW query \in BOOLEAN
  PROVE  Lists(RecomputedView(sample, cpuFirst, tree, query), WantedOf(sample, tree, query))
<1>1. CASE tree /\ ~query
  BY <1>1, ForestLists DEF RecomputedView, WantedOf
<1>2. CASE ~(tree /\ ~query)
  <2>1. Lists(ProcsFlat(sample, cpuFirst, query),
              IF query THEN DOMAIN sample \cap Matching ELSE DOMAIN sample)
    BY FlatLists
  <2> QED
    BY <1>2, <2>1 DEF RecomputedView, WantedOf
<1> QED
  BY <1>1, <1>2

(* Wherever the viewport was, the row drawn is in it.                      *)
Viewport == [height : Nat, offset : Nat, lines : Nat \ {0}]
InView(v, sel) == v.height > 0 => sel \in v.offset .. (v.offset + v.height - 1)

LEMMA MovedViewport ==
  ASSUME NEW v \in Viewport, NEW n \in Int
  PROVE  /\ SetYOffset(v, n) \in Viewport
         /\ SetYOffset(v, n).height = v.height /\ SetYOffset(v, n).lines = v.lines
         /\ SetYOffset(v, n).offset = AtMost(AtLeast(0, v.lines - v.height), AtLeast(0, n))
<1> DEFINE o == AtMost(AtLeast(0, v.lines - v.height), AtLeast(0, n))
<1>1. v.lines \in Nat /\ v.height \in Nat
  BY DEF Viewport
<1>2. o \in Nat
  BY <1>1 DEF AtMost, AtLeast
<1>3. SetYOffset(v, n) = [v EXCEPT !.offset = o]
  BY DEF SetYOffset, PageEnd
<1> HIDE DEF o
<1>4. [v EXCEPT !.offset = o] \in Viewport
  BY <1>2 DEF Viewport
<1>5. /\ [v EXCEPT !.offset = o].height = v.height
      /\ [v EXCEPT !.offset = o].lines = v.lines
      /\ [v EXCEPT !.offset = o].offset = o
  BY DEF Viewport
<1> QED
  BY <1>3, <1>4, <1>5 DEF o

LEMMA FilledViewport ==
  ASSUME NEW v \in Viewport, NEW n \in Nat \ {0}
  PROVE  /\ SetContent(v, n) \in Viewport
         /\ SetContent(v, n).height = v.height /\ SetContent(v, n).lines = n
<1> DEFINE w == [v EXCEPT !.lines = n]
           e == AtLeast(0, n - v.height)
<1>1. w \in Viewport /\ w.lines = n /\ w.height = v.height
  BY DEF Viewport
<1>2. e \in Nat
  BY DEF AtLeast, Viewport
<1>3. SetContent(v, n) = IF w.offset > n - 1 THEN [w EXCEPT !.offset = e] ELSE w
  <2>1. SetContent(v, n) = IF w.offset > n - 1 THEN [w EXCEPT !.offset = PageEnd(w)] ELSE w
    BY Zenon DEF SetContent
  <2>2. PageEnd(w) = e
    BY <1>1, Zenon DEF PageEnd
  <2> QED
    BY <2>1, <2>2, Zenon
<1> HIDE DEF w, e
<1>4. [w EXCEPT !.offset = e] \in Viewport /\ [w EXCEPT !.offset = e].lines = w.lines
        /\ [w EXCEPT !.offset = e].height = w.height
  BY <1>1, <1>2 DEF Viewport
<1> QED
  BY <1>1, <1>3, <1>4

LEMMA RenderedFacts ==
  ASSUME NEW v \in Viewport, NEW n \in Nat, NEW sel \in Nat, sel + 1 < n
  PROVE  /\ EnsureProcVisible(SetContent(v, n), sel) \in Viewport
         /\ EnsureProcVisible(SetContent(v, n), sel).height = v.height
         /\ InView(EnsureProcVisible(SetContent(v, n), sel), sel)
<1> DEFINE w == SetContent(v, n)
<1>1. w \in Viewport /\ w.lines = n /\ w.height = v.height
  BY FilledViewport
<1>2. w.offset \in Nat /\ w.height \in Nat
  BY <1>1 DEF Viewport
<1> HIDE DEF w
<1>3. CASE w.height <= 0
  <2>1. EnsureProcVisible(w, sel) = w
    BY <1>2, <1>3 DEF EnsureProcVisible
  <2>2. InView(w, sel)
    BY <1>2, <1>3 DEF InView
  <2> QED
    BY <1>1, <2>1, <2>2 DEF w
<1>4. CASE w.height > 0 /\ sel < w.offset
  <2>1. EnsureProcVisible(w, sel) = SetYOffset(w, sel)
    BY <1>2, <1>4 DEF EnsureProcVisible
  <2>2. /\ SetYOffset(w, sel) \in Viewport /\ SetYOffset(w, sel).height = w.height
        /\ SetYOffset(w, sel).offset = AtMost(AtLeast(0, n - w.height), AtLeast(0, sel))
    BY SMTT(40), <1>1, MovedViewport
  <2>3. sel \in AtMost(AtLeast(0, n - w.height), AtLeast(0, sel)) ..
                (AtMost(AtLeast(0, n - w.height), AtLeast(0, sel)) + w.height - 1)
    BY <1>2, <1>4 DEF AtMost, AtLeast
  <2> QED
    BY <1>1, <2>1, <2>2, <2>3, Zenon DEF InView, w
<1>5. CASE w.height > 0 /\ ~(sel < w.offset) /\ sel >= w.offset + w.height
  <2> DEFINE m == sel - w.height + 1
  <2>1. EnsureProcVisible(w, sel) = SetYOffset(w, m)
    BY <1>2, <1>5 DEF EnsureProcVisible
  <2>2. m \in Int
    BY <1>2
  <2>3. /\ SetYOffset(w, m) \in Viewport /\ SetYOffset(w, m).height = w.height
        /\ SetYOffset(w, m).offset = AtMost(AtLeast(0, n - w.height), AtLeast(0, m))
    BY <1>1, <2>2, MovedViewport
  <2>4. sel \in AtMost(AtLeast(0, n - w.height), AtLeast(0, m)) ..
                (AtMost(AtLeast(0, n - w.height), AtLeast(0, m)) + w.height - 1)
    BY <1>2, <1>5 DEF AtMost, AtLeast
  <2> QED
    BY <1>1, <2>1, <2>3, <2>4, Zenon DEF InView, w
<1>6. CASE w.height > 0 /\ ~(sel < w.offset) /\ ~(sel >= w.offset + w.height)
  <2>1. EnsureProcVisible(w, sel) = w
    BY <1>2, <1>6 DEF EnsureProcVisible
  <2>2. sel \in w.offset .. (w.offset + w.height - 1)
    BY <1>2, <1>6
  <2> QED
    BY <1>1, <2>1, <2>2 DEF InView, w
<1> QED
  BY <1>2, <1>3, <1>4, <1>5, <1>6

------------------------------------------------------------------------------
RowsInv ==
  /\ procs \in Samples
  /\ byCPU \in BOOLEAN /\ procsTree \in BOOLEAN /\ procsQuery \in BOOLEAN
  /\ searching \in BOOLEAN /\ wheeled \in BOOLEAN
  /\ Lists(procsView, WantedOf(procs, procsTree, procsQuery))
  /\ procsSel \in Nat /\ procsSel <= AtLeast(0, Len(procsView) - 1)
  /\ vp \in Viewport
  /\ drawn = [rows |-> procsView, sel |-> procsSel]
  /\ ~wheeled => InView(vp, procsSel)

LEMMA ListStart == ListInit => RowsInv
<1> SUFFICES ASSUME ListInit PROVE RowsInv
  OBVIOUS
<1>1. procs \in Samples
  <2>1. procs \in [{} -> [ppid : UNION Range(Parents), cpu : CPUs]]
    BY DEF ListInit
  <2> QED
    BY <2>1 DEF Samples
<1>2. DOMAIN procs = {}
  BY DEF ListInit
<1>3. WantedOf(procs, procsTree, procsQuery) = {}
  BY <1>2 DEF WantedOf, ListInit
<1>4. Lists(<<>>, {})
  BY FS_EmptySet, ProcListAssumption DEF Lists, Once, IsInjective, Range, AtMost
<1>5. vp \in Viewport /\ InView(vp, procsSel)
  BY DEF ListInit, Viewport, InView
<1>6. Lists(procsView, WantedOf(procs, procsTree, procsQuery))
  BY <1>3, <1>4 DEF ListInit
<1>7. procsSel \in Nat /\ procsSel <= AtLeast(0, Len(procsView) - 1)
  BY DEF ListInit, AtLeast
<1>8. drawn = [rows |-> procsView, sel |-> procsSel]
  BY DEF ListInit
<1>9. /\ byCPU \in BOOLEAN /\ procsTree \in BOOLEAN /\ procsQuery \in BOOLEAN
      /\ searching \in BOOLEAN /\ wheeled \in BOOLEAN
  BY DEF ListInit
<1> QED
  BY <1>1, <1>5, <1>6, <1>7, <1>8, <1>9 DEF RowsInv

(* What every redraw leaves behind, given a list and a row of it.          *)
LEMMA DrawKeeps ==
  ASSUME NEW v \in Viewport, Draw(v), procsView' \in Seq(PIDs), procsSel' \in Nat,
         procsSel' <= AtLeast(0, Len(procsView') - 1)
  PROVE  /\ vp' \in Viewport /\ InView(vp', procsSel') /\ wheeled' = FALSE
         /\ drawn' = [rows |-> procsView', sel |-> procsSel']
<1> DEFINE n == AtLeast(1, Len(procsView')) + 1
<1>1. Len(procsView') \in Nat
  OBVIOUS
<1>2. n \in Nat /\ procsSel' + 1 < n
  BY <1>1 DEF AtLeast
<1>3. vp' = EnsureProcVisible(SetContent(v, n), procsSel')
  BY DEF Draw, Rendered
<1> HIDE DEF n
<1>4. vp' \in Viewport /\ InView(vp', procsSel')
  BY <1>2, <1>3, RenderedFacts
<1> QED
  BY <1>4 DEF Draw

LEMMA FollowTyped ==
  ASSUME procsSel \in Nat, NEW view \in Seq(PIDs)
  PROVE  Follow(view) \in Nat
<1> DEFINE at == {i \in DOMAIN view : view[i] \in SelectedProc(procsView, procsSel)}
<1>1. at \subseteq Nat \ {0}
  OBVIOUS
<1>2. Follow(view) = IF at # {} THEN (CHOOSE i \in at : TRUE) - 1 ELSE procsSel
  BY DEF Follow
<1> HIDE DEF at
<1>3. at # {} => (CHOOSE i \in at : TRUE) \in Nat \ {0}
  BY <1>1
<1> QED
  BY <1>2, <1>3

LEMMA ClampTyped ==
  ASSUME procsView' \in Seq(PIDs), NEW n \in Nat
  PROVE  ClampSel(n) \in Nat /\ ClampSel(n) <= AtLeast(0, Len(procsView') - 1)
<1>1. Len(procsView') \in Nat
  OBVIOUS
<1> QED
  BY <1>1 DEF ClampSel, AtLeast, AtMost

LEMMA FollowKeeps ==
  ASSUME RowsInv, NEW v \in Viewport, RefreshProcsFollow(v), procs' \in Samples,
         UNCHANGED <<byCPU, procsTree, procsQuery, searching>>
  PROVE  RowsInv'
<1>1. Lists(procsView', WantedOf(procs', procsTree', procsQuery'))
  BY ViewLists DEF RowsInv, RefreshProcsFollow
<1>2. procsView' \in Seq(PIDs)
  BY <1>1 DEF Lists, Once
<1>3. procsSel' \in Nat /\ procsSel' <= AtLeast(0, Len(procsView') - 1)
  <2>1. Follow(procsView') \in Nat
    BY <1>2, FollowTyped DEF RowsInv
  <2> QED
    BY <1>2, <2>1, ClampTyped DEF RefreshProcsFollow
<1>4. Draw(v)
  BY DEF RefreshProcsFollow
<1>5. /\ vp' \in Viewport /\ InView(vp', procsSel') /\ wheeled' = FALSE
      /\ drawn' = [rows |-> procsView', sel |-> procsSel']
  BY <1>2, <1>3, <1>4, DrawKeeps
<1> QED
  BY <1>1, <1>3, <1>5 DEF RowsInv

LEMMA FromTopKeeps ==
  ASSUME RowsInv, RefreshFromTop, byCPU' \in BOOLEAN, procsTree' \in BOOLEAN,
         procsQuery' \in BOOLEAN, searching' \in BOOLEAN
  PROVE  RowsInv'
<1>1. procs' \in Samples
  BY DEF RowsInv, RefreshFromTop
<1>2. Lists(procsView', WantedOf(procs', procsTree', procsQuery'))
  BY <1>1, ViewLists DEF RefreshFromTop
<1>3. Len(procsView') \in Nat
  BY <1>2 DEF Lists, Once
<1>4. procsSel' = 0 /\ 0 <= AtLeast(0, Len(procsView') - 1)
  BY <1>3 DEF RefreshFromTop, AtLeast
<1>5. Rendered(vp, 0) \in Viewport
  <2> DEFINE n == AtLeast(1, Len(procsView')) + 1
  <2>1. n \in Nat /\ 0 + 1 < n
    BY <1>3 DEF AtLeast
  <2>2. Rendered(vp, 0) = EnsureProcVisible(SetContent(vp, n), 0)
    BY DEF Rendered
  <2> HIDE DEF n
  <2> QED
    BY <2>1, <2>2, RenderedFacts DEF RowsInv
<1>6. vp' \in Viewport /\ vp'.offset = 0
  BY <1>5 DEF RefreshFromTop, GotoTop, Viewport
<1>7. InView(vp', 0)
  BY <1>6 DEF InView, Viewport
<1>8. /\ drawn' = [rows |-> procsView', sel |-> procsSel']
      /\ wheeled' \in BOOLEAN /\ InView(vp', procsSel')
  BY <1>4, <1>7 DEF RefreshFromTop
<1> QED
  BY <1>1, <1>2, <1>4, <1>6, <1>8, SMT DEF RowsInv

LEMMA CursorKeeps ==
  ASSUME RowsInv, NEW n \in CursorMoves, MoveCursor(n)
  PROVE  RowsInv'
<1>1. procsView' = procsView /\ procsSel' = n /\ Draw(vp) /\ vp \in Viewport
  BY DEF MoveCursor, RowsInv
<1>2. procsView \in Seq(PIDs) /\ Len(procsView) \in Nat
  BY DEF RowsInv, Lists, Once
<1>3. Page \in Nat /\ procsSel \in Nat /\ procsSel <= AtLeast(0, Len(procsView) - 1)
  BY DEF RowsInv, Page, AtLeast, Viewport
<1> HIDE DEF Page
<1>4. n \in Nat /\ n <= AtLeast(0, Len(procsView) - 1)
  BY <1>2, <1>3 DEF CursorMoves, LastRow, AtLeast, AtMost
<1>5. /\ vp' \in Viewport /\ InView(vp', procsSel') /\ wheeled' = FALSE
      /\ drawn' = [rows |-> procsView', sel |-> procsSel']
  BY <1>1, <1>2, <1>4, DrawKeeps
<1> QED
  BY <1>1, <1>4, <1>5 DEF RowsInv, MoveCursor

LEMMA WheelKeeps ==
  ASSUME RowsInv, NEW n \in Int, Wheel(n)
  PROVE  RowsInv'
<1>1. vp' \in Viewport
  BY MovedViewport DEF RowsInv, Wheel
<1> QED
  BY <1>1 DEF RowsInv, Wheel

LEMMA RowsKeep == RowsInv /\ [ListNext]_listVars => RowsInv'
<1> SUFFICES ASSUME RowsInv, [ListNext]_listVars PROVE RowsInv'
  OBVIOUS
<1>1. ASSUME NEW s \in Walks, ProcMsg(s) PROVE RowsInv'
  BY <1>1, FollowKeeps DEF ProcMsg, Walks, RowsInv
<1>2. ASSUME NEW h \in Heights, WindowSize(h) PROVE RowsInv'
  <2>1. [vp EXCEPT !.height = h] \in Viewport
    BY ProcListAssumption DEF RowsInv, Viewport
  <2> QED
    BY <1>2, <2>1, FollowKeeps DEF WindowSize, RowsInv
<1>3. CASE CycleSort \/ ToggleTree \/ ClearQuery \/ \E q \in BOOLEAN : EnterSearch(q)
  <2>1. /\ RefreshFromTop /\ byCPU' \in BOOLEAN /\ procsTree' \in BOOLEAN
        /\ procsQuery' \in BOOLEAN /\ searching' \in BOOLEAN
    BY <1>3 DEF CycleSort, ToggleTree, ClearQuery, EnterSearch, RowsInv
  <2> QED
    BY <2>1, FromTopKeeps
<1>4. CASE OpenSearch \/ EscSearch
  BY <1>4 DEF OpenSearch, EscSearch, RowsInv
<1>5. ASSUME NEW n \in CursorMoves, MoveCursor(n) PROVE RowsInv'
  BY <1>5, CursorKeeps
<1>6. ASSUME NEW n \in 0..Cardinality(PIDs), Wheel(n) PROVE RowsInv'
  BY <1>6, WheelKeeps
<1>7. CASE UNCHANGED listVars
  BY <1>7 DEF listVars, RowsInv
<1> QED
  BY <1>1, <1>2, <1>3, <1>4, <1>5, <1>6, <1>7 DEF ListNext, ListKey

LEMMA ListInvariance == ListSpec => []RowsInv
  BY ListStart, RowsKeep, PTL DEF ListSpec

(* The list shows what it should, each process once, for any processes,    *)
(* parents and cap: whatever parents a walk of a changing system reports,  *)
(* a tree lists what its roots lead to and the walk of it ends             *)
(* (computeProcsView, computeProcsTree, model.go:2051-2162).               *)
THEOREM ViewDoesListAll == ListSpec => []ViewListsAll
<1>1. RowsInv => ViewListsAll
  BY DEF RowsInv, Lists, Once, WantedOf, Wanted, ViewListsAll
<1> QED
  BY ListInvariance, <1>1, PTL

(* The target of the next key is the marked row, and on screen unless the  *)
(* wheel moved it away (ensureProcVisible, model.go:2193-2232).            *)
THEOREM TargetIsOnScreen == ListSpec => []TargetOnScreen
<1>1. RowsInv => TargetOnScreen
  BY DEF RowsInv, InView, TargetOnScreen, MarkerIsTarget
<1> QED
  BY ListInvariance, <1>1, PTL

(* The view, the cursor and the viewport keep their types.                 *)
THEOREM ListTypeCorrect == ListSpec => []ListTypeOK
<1>1. ASSUME RowsInv PROVE ListTypeOK
  <2>1. procsView \in Seq(PIDs)
    BY <1>1 DEF RowsInv, Lists, Once
  <2>2. {byCPU, procsTree, procsQuery, searching, wheeled} \subseteq BOOLEAN
    BY <1>1, Zenon DEF RowsInv
  <2>3. procsSel \in Nat /\ drawn = [rows |-> procsView, sel |-> procsSel]
    BY <1>1 DEF RowsInv
  <2>4. drawn \in [rows : Seq(PIDs), sel : Nat]
    BY <2>1, <2>3
  <2>5. procs \in Samples /\ vp \in Viewport
    BY <1>1 DEF RowsInv
  <2> QED
    BY <2>1, <2>2, <2>3, <2>4, <2>5, Zenon DEF ListTypeOK, Viewport
<1>2. RowsInv => ListTypeOK
  BY <1>1
<1> QED
  BY <1>2, ListInvariance, PTL

(* A list short enough to show all it should shows each.                   *)
LEMMA AllListed ==
  ASSUME NEW view, NEW W \in SUBSET PIDs, Lists(view, W), Cardinality(W) <= ProcsCap
  PROVE  Range(view) = W
<1>1. IsFiniteSet(W) /\ Cardinality(W) \in Nat
  BY ProcListAssumption, FS_Subset, FS_CardinalityType DEF PIDs
<1>2. Len(view) = Cardinality(W)
  BY <1>1, ProcListAssumption DEF Lists, AtMost
<1>3. Cardinality(Range(view)) = Len(view)
  BY OnceCounts DEF Lists
<1> QED
  BY <1>1, <1>2, <1>3, FS_Subset DEF Lists

LEMMA FollowsTo ==
  ASSUME RowsInv, NEW v \in Viewport, RefreshProcsFollow(v), RowsInv',
         NEW p \in SelectedProc(procsView, procsSel), p \in Wanted',
         Cardinality(Wanted') <= ProcsCap
  PROVE  SelectedProc(procsView', procsSel') = {p}
<1> DEFINE at == {i \in DOMAIN procsView' : procsView'[i] = p}
           k == CHOOSE i \in at : TRUE
<1>1. Lists(procsView', Wanted')
  BY DEF RowsInv, WantedOf, Wanted
<1>2. Wanted' \in SUBSET PIDs
  <2>1. procs' \in Samples
    BY DEF RowsInv
  <2> QED
    BY <2>1, SampleFacts, RootedFacts DEF Wanted
<1>3. Range(procsView') = Wanted'
  BY <1>1, <1>2, AllListed
<1>4. procsView' \in Seq(PIDs) /\ DOMAIN procsView' = 1..Len(procsView')
        /\ Len(procsView') \in Nat
  BY <1>1 DEF Lists, Once
<1>5. at # {}
  BY <1>3 DEF Range
<1>6. k \in 1..Len(procsView') /\ procsView'[k] = p
  BY <1>4, <1>5
<1>7. SelectedProc(procsView, procsSel) = {p}
  BY DEF SelectedProc
<1>8. Follow(procsView') = k - 1
  <2>1. at = {i \in DOMAIN procsView' : procsView'[i] \in SelectedProc(procsView, procsSel)}
    BY <1>7
  <2> HIDE DEF at
  <2> QED
    BY <1>5, <2>1 DEF Follow
<1> HIDE DEF k, at
<1>9. procsSel' = k - 1
  <2>1. procsSel' = ClampSel(k - 1)
    BY <1>8 DEF RefreshProcsFollow
  <2>2. ClampSel(k - 1) = k - 1
    <3>1. \A n \in Nat : \A m \in 1..n : AtLeast(0, AtMost(n - 1, m - 1)) = m - 1
      BY DEF AtLeast, AtMost
    <3> QED
      BY <1>4, <1>6, <3>1, Zenon DEF ClampSel
  <2> QED
    BY <2>1, <2>2
<1>10. (k - 1) + 1 = k
  BY <1>4, <1>6
<1> QED
  BY <1>4, <1>6, <1>9, <1>10 DEF SelectedProc

(* The cursor keeps to its process through samples and resizes, whatever   *)
(* the new order (refreshProcsFollow, model.go:2170-2191).                 *)
THEOREM CursorDoesFollow == ListSpec => CursorFollows
<1> DEFINE Follows ==
      ~ListKey =>
        \A p \in SelectedProc(procsView, procsSel) :
          (p \in Wanted' /\ Cardinality(Wanted') <= ProcsCap)
            => SelectedProc(procsView', procsSel') = {p}
<1>1. ASSUME RowsInv, RowsInv', [ListNext]_listVars PROVE [Follows]_listVars
  <2> SUFFICES ASSUME ListNext, ~ListKey,
                      NEW p \in SelectedProc(procsView, procsSel),
                      p \in Wanted', Cardinality(Wanted') <= ProcsCap
               PROVE  SelectedProc(procsView', procsSel') = {p}
    BY <1>1
  <2>1. ASSUME NEW s \in Walks, ProcMsg(s)
        PROVE  SelectedProc(procsView', procsSel') = {p}
    <3>1. RefreshProcsFollow(vp) /\ vp \in Viewport
      BY <1>1, <2>1 DEF ProcMsg, RowsInv
    <3> QED
      BY <1>1, <3>1, FollowsTo
  <2>2. ASSUME NEW h \in Heights, WindowSize(h)
        PROVE  SelectedProc(procsView', procsSel') = {p}
    <3>1. [vp EXCEPT !.height = h] \in Viewport
      BY <1>1, ProcListAssumption DEF RowsInv, Viewport
    <3>2. RefreshProcsFollow([vp EXCEPT !.height = h])
      BY <2>2 DEF WindowSize
    <3> QED
      BY <1>1, <3>1, <3>2, FollowsTo
  <2>3. ASSUME NEW n \in 0..Cardinality(PIDs), Wheel(n)
        PROVE  SelectedProc(procsView', procsSel') = {p}
    BY <2>3 DEF Wheel, SelectedProc
  <2> QED
    BY <2>1, <2>2, <2>3 DEF ListNext
<1> QED
  BY ListInvariance, <1>1, PTL DEF ListSpec, CursorFollows

------------------------------------------------------------------------------
(* MCSubsystems: the parts side by side.  The spec the run checks picks    *)
(* one of them; that is a behaviour of each of them, so that a theorem     *)
(* about a part holds of what the run explores, and is not about another   *)
(* system.                                                                 *)
AllStart ==
  /\ OomInit /\ KernelLogInit /\ MountsInit /\ SamplersInit /\ TrendsInit
  /\ ListInit /\ HistoryInit /\ BacklightInit /\ GovernorInit /\ ConfigInit

AllStep ==
  /\ [OomNext]_oomVars
  /\ [KernelLogNext]_kernelLogVars
  /\ [MountsNext]_mountsVars
  /\ [SamplersNext]_samplerVars
  /\ [TrendsNext]_trendVars
  /\ [ListNext]_listVars
  /\ [HistoryNext]_historyVars
  /\ [BacklightNext]_backlightVars
  /\ [GovernorNext]_governorVars
  /\ [ConfigNext]_configVars

LEMMA OnePartMoves == [SubsystemsNext]_subsystemsVars => AllStep
<1> SUFFICES ASSUME [SubsystemsNext]_subsystemsVars PROVE AllStep
  OBVIOUS
<1>1. CASE OomNext /\ UNCHANGED <<kernelLogVars, mountsVars, samplerVars,
                                  trendVars, listVars, historyVars,
                                  backlightVars, governorVars, configVars>>
  BY Zenon, <1>1 DEF AllStep
<1>2. CASE KernelLogNext /\ UNCHANGED <<oomVars, mountsVars, samplerVars,
                                        trendVars, listVars, historyVars,
                                        backlightVars, governorVars, configVars>>
  BY Zenon, <1>2 DEF AllStep
<1>3. CASE MountsNext /\ UNCHANGED <<oomVars, kernelLogVars, samplerVars,
                                     trendVars, listVars, historyVars,
                                     backlightVars, governorVars, configVars>>
  BY Zenon, <1>3 DEF AllStep
<1>4. CASE SamplersNext /\ UNCHANGED <<oomVars, kernelLogVars, mountsVars,
                                       trendVars, listVars, historyVars,
                                       backlightVars, governorVars, configVars>>
  BY Zenon, <1>4 DEF AllStep
<1>5. CASE TrendsNext /\ UNCHANGED <<oomVars, kernelLogVars, mountsVars,
                                     samplerVars, listVars, historyVars,
                                     backlightVars, governorVars, configVars>>
  BY Zenon, <1>5 DEF AllStep
<1>6. CASE ListNext /\ UNCHANGED <<oomVars, kernelLogVars, mountsVars,
                                   samplerVars, trendVars, historyVars,
                                   backlightVars, governorVars, configVars>>
  BY Zenon, <1>6 DEF AllStep
<1>7. CASE HistoryNext /\ UNCHANGED <<oomVars, kernelLogVars, mountsVars,
                                      samplerVars, trendVars, listVars,
                                      backlightVars, governorVars, configVars>>
  BY Zenon, <1>7 DEF AllStep
<1>8. CASE BacklightNext /\ UNCHANGED <<oomVars, kernelLogVars, mountsVars,
                                        samplerVars, trendVars, listVars,
                                        historyVars, governorVars, configVars>>
  BY Zenon, <1>8 DEF AllStep
<1>9. CASE GovernorNext /\ UNCHANGED <<oomVars, kernelLogVars, mountsVars,
                                       samplerVars, trendVars, listVars,
                                       historyVars, backlightVars, configVars>>
  BY Zenon, <1>9 DEF AllStep
<1>10. CASE ConfigNext /\ UNCHANGED <<oomVars, kernelLogVars, mountsVars,
                                      samplerVars, trendVars, listVars,
                                      historyVars, backlightVars, governorVars>>
  BY Zenon, <1>10 DEF AllStep
<1>11. CASE UNCHANGED subsystemsVars
  BY Zenon, <1>11 DEF AllStep, subsystemsVars
<1>12. SubsystemsNext \/ UNCHANGED subsystemsVars
  OBVIOUS
<1> QED
  BY Zenon, <1>1, <1>2, <1>3, <1>4, <1>5, <1>6, <1>7, <1>8, <1>9, <1>10, <1>11, <1>12
     DEF SubsystemsNext

(* A behaviour of the ten parts side by side is one of each of them.       *)
THEOREM PartsWithin ==
  SubsystemsSpec =>
    /\ OomSpec /\ KernelLogSpec /\ MountsSpec /\ SamplersSpec /\ TrendsSpec
    /\ ListSpec /\ HistorySpec /\ BacklightSpec /\ GovernorSpec /\ ConfigSpec
<1>1. SubsystemsInit => AllStart
  BY Zenon DEF SubsystemsInit, AllStart
<1>2. (AllStart => OomInit) /\ (AllStep => [OomNext]_oomVars)
  BY Zenon DEF AllStart, AllStep
<1>3. (AllStart => KernelLogInit) /\ (AllStep => [KernelLogNext]_kernelLogVars)
  BY Zenon DEF AllStart, AllStep
<1>4. (AllStart => MountsInit) /\ (AllStep => [MountsNext]_mountsVars)
  BY Zenon DEF AllStart, AllStep
<1>5. (AllStart => SamplersInit) /\ (AllStep => [SamplersNext]_samplerVars)
  BY Zenon DEF AllStart, AllStep
<1>6. (AllStart => TrendsInit) /\ (AllStep => [TrendsNext]_trendVars)
  BY Zenon DEF AllStart, AllStep
<1>7. (AllStart => ListInit) /\ (AllStep => [ListNext]_listVars)
  BY Zenon DEF AllStart, AllStep
<1>8. (AllStart => HistoryInit) /\ (AllStep => [HistoryNext]_historyVars)
  BY Zenon DEF AllStart, AllStep
<1>9. (AllStart => BacklightInit) /\ (AllStep => [BacklightNext]_backlightVars)
  BY Zenon DEF AllStart, AllStep
<1>10. (AllStart => GovernorInit) /\ (AllStep => [GovernorNext]_governorVars)
  BY Zenon DEF AllStart, AllStep
<1>11. (AllStart => ConfigInit) /\ (AllStep => [ConfigNext]_configVars)
  BY Zenon DEF AllStart, AllStep
<1> QED
  BY <1>1, <1>2, <1>3, <1>4, <1>5, <1>6, <1>7, <1>8, <1>9, <1>10, <1>11, OnePartMoves, PTL
     DEF SubsystemsSpec, OomSpec, KernelLogSpec, MountsSpec, SamplersSpec, TrendsSpec,
         ListSpec, HistorySpec, BacklightSpec, GovernorSpec, ConfigSpec

(* Each part keeps its types, for every value of the constants.            *)
THEOREM SubsystemsTypeCorrect == SubsystemsSpec => []SubsystemsTypeOK
<1>1. /\ OomTypeOK /\ KernelLogTypeOK /\ MountsTypeOK /\ SamplersTypeOK /\ TrendsTypeOK
      /\ ListTypeOK /\ HistoryTypeOK /\ BacklightTypeOK /\ GovernorTypeOK /\ ConfigTypeOK
      => SubsystemsTypeOK
  BY Zenon DEF SubsystemsTypeOK
<1> QED
  BY <1>1, PartsWithin, OomTypeCorrect, KernelLogTypeCorrect, MountsTypeCorrect,
     SamplersTypeCorrect, TrendsTypeCorrect, ListTypeCorrect, HistoryTypeCorrect,
     BacklightTypeCorrect, GovernorTypeCorrect, ConfigTypeCorrect, PTL
==============================================================================
