----------------------------- MODULE MCSubsystems -----------------------------
(***************************************************************************)
(* The parts that share no state, checked side by side: a behaviour picks  *)
(* one part at the start and only that part moves, so the states explored  *)
(* are the sum of the parts' and not their product.  Parts selects which   *)
(* of them a run explores.                                                 *)
(***************************************************************************)
EXTENDS OomTracker, KernelLog, Mounts, Samplers, Trends, ProcList, History,
        Backlight, Governor, ConfigFile, TLC

CONSTANT Parts
VARIABLE part

------------------------------------------------------------------------------
(* Two block devices on one disk, an MMC host with a card and one without. *)
MCLines ==
  {[user |-> u, says |-> "uv", name |-> ""] : u \in BOOLEAN} \cup
  {[user |-> FALSE, says |-> "storage", name |-> n] : n \in {"mmcblk0p2", "mmc0", "mmc1"}}
MCDiskOf == [n \in {"mmcblk0p2"} |-> "mmcblk0"]
MCOnHost == [n \in {"mmc0", "mmc1"} |-> IF n = "mmc0" THEN {"mmcblk0"} ELSE {}]

(* A tick stands for two minutes, and a healthy pack loses a percent every *)
(* third; 25 percent an hour is 25 in 30 ticks.                            *)
MCSpans == [batt |-> [window |-> 5, minSpan |-> 3, max |-> 3],
            temp |-> [window |-> 4, minSpan |-> 2, max |-> 1]]
MCDrain == [by |-> 25, per |-> 30]
MCRise == [by |-> 1, per |-> 2]

(* 1 is init; 2 and 3 are children of it, or of each other after a reuse.  *)
MCParents == <<{0}, {1, 3}, {1, 2}>>

MCAvailable == <<"performance", "powersave", "schedutil">>

MCConfigLines ==
  ({"fast", "proc", "slow"} \X {0, 1, 40}) \cup
  ({"warn", "hot", "crit"} \X {-500, 4000, 9500}) \cup
  ({"mem", "disk", "low", "flat", "loss"} \X {-5, 0, 20, 900}) \cup
  ({"wifi", "load", "clear", "histLen"} \X {-70, 5}) \cup
  {<<"crit", Junk>>, <<"fromTrips", FALSE>>, <<"temp_crti", 70>>}
MCTrips ==
  {[passive |-> 0, hot |-> 0, critical |-> 0],
   [passive |-> 0, hot |-> 0, critical |-> 10900],
   [passive |-> 7000, hot |-> 0, critical |-> 0],
   [passive |-> 9500, hot |-> 0, critical |-> 9000],
   [passive |-> 0, hot |-> 8000, critical |-> 10000]}

Symmetry == Permutations(Slots) \cup Permutations(Devices \ ByDesign)

------------------------------------------------------------------------------
(* A part that does not move starts in one of its initial states.          *)
Moves(p) == part = p
SubsystemsInit ==
  /\ part \in Parts
  /\ OomInit /\ KernelLogInit /\ MountsInit /\ SamplersInit /\ TrendsInit
  /\ ListInit /\ HistoryInit /\ BacklightInit /\ GovernorInit /\ ConfigInit
  /\ Moves("samplers") \/ counter = [i \in Items |-> 0]
  /\ Moves("trends") \/ (kind = "batt" /\ rested = 0)
  /\ Moves("backlight") \/ raw = MaxRaw

SubsystemsNext ==
  \/ /\ Moves("oom") /\ OomNext
     /\ UNCHANGED <<part, kernelLogVars, mountsVars, samplerVars, trendVars, listVars,
                    historyVars, backlightVars, governorVars, configVars>>
  \/ /\ Moves("kernel_log") /\ KernelLogNext
     /\ UNCHANGED <<part, oomVars, mountsVars, samplerVars, trendVars, listVars,
                    historyVars, backlightVars, governorVars, configVars>>
  \/ /\ Moves("mounts") /\ MountsNext
     /\ UNCHANGED <<part, oomVars, kernelLogVars, samplerVars, trendVars, listVars,
                    historyVars, backlightVars, governorVars, configVars>>
  \/ /\ Moves("samplers") /\ SamplersNext
     /\ UNCHANGED <<part, oomVars, kernelLogVars, mountsVars, trendVars, listVars,
                    historyVars, backlightVars, governorVars, configVars>>
  \/ /\ Moves("trends") /\ TrendsNext
     /\ UNCHANGED <<part, oomVars, kernelLogVars, mountsVars, samplerVars, listVars,
                    historyVars, backlightVars, governorVars, configVars>>
  \/ /\ Moves("procs") /\ ListNext
     /\ UNCHANGED <<part, oomVars, kernelLogVars, mountsVars, samplerVars, trendVars,
                    historyVars, backlightVars, governorVars, configVars>>
  \/ /\ Moves("history") /\ HistoryNext
     /\ UNCHANGED <<part, oomVars, kernelLogVars, mountsVars, samplerVars, trendVars,
                    listVars, backlightVars, governorVars, configVars>>
  \/ /\ Moves("backlight") /\ BacklightNext
     /\ UNCHANGED <<part, oomVars, kernelLogVars, mountsVars, samplerVars, trendVars,
                    listVars, historyVars, governorVars, configVars>>
  \/ /\ Moves("governor") /\ GovernorNext
     /\ UNCHANGED <<part, oomVars, kernelLogVars, mountsVars, samplerVars, trendVars,
                    listVars, historyVars, backlightVars, configVars>>
  \/ /\ Moves("config") /\ ConfigNext
     /\ UNCHANGED <<part, oomVars, kernelLogVars, mountsVars, samplerVars, trendVars,
                    listVars, historyVars, backlightVars, governorVars>>

subsystemsVars ==
  <<part, oomVars, kernelLogVars, mountsVars, samplerVars, trendVars, listVars,
    historyVars, backlightVars, governorVars, configVars>>
SubsystemsSpec == SubsystemsInit /\ [][SubsystemsNext]_subsystemsVars

(* Every part keeps its types.                                             *)
SubsystemsTypeOK ==
  /\ OomTypeOK /\ KernelLogTypeOK /\ MountsTypeOK /\ SamplersTypeOK /\ TrendsTypeOK
  /\ ListTypeOK /\ HistoryTypeOK /\ BacklightTypeOK /\ GovernorTypeOK /\ ConfigTypeOK
==============================================================================
