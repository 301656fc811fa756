------------------------------- MODULE Governor -------------------------------
(***************************************************************************)
(* The governor key of the CPU tab: cycleGovernor (internal/ui/model.go)   *)
(* writes one cpufreq policy after another (internal/probe/cpufreq.go)     *)
(* from what the last CPU sample showed, while the next sample is reading  *)
(* the same policies one after another.                                    *)
(***************************************************************************)
EXTENDS Naturals, Sequences

CONSTANTS
  Policies,   (* how many cpufreq policies                                 *)
  Available   (* scaling_available_governors, the same for all             *)

ASSUME GovernorAssumption ==
  /\ Policies \in Nat \ {0}
  /\ Available \in Seq(STRING) /\ Available # <<>>

VARIABLES
  governor,   (* per policy, scaling_governor                              *)
  freqs,      (* cpuSnap.Freqs: the governor of each, <<>> before a sample *)
  cpuRound,   (* the sample being taken: the policies read so far          *)
  mixed       (* history: a write failed since the last whole cycle        *)

governorVars == <<governor, freqs, cpuRound, mixed>>

------------------------------------------------------------------------------
GovernorInit ==
  /\ governor = [p \in 1..Policies |-> Available[1]]
  /\ freqs = <<>>
  /\ cpuRound = <<>>
  /\ mixed = FALSE

(* ReadCPUFreq, one policy; the whole snapshot lands at the end.           *)
ReadPolicy ==
  /\ Len(cpuRound) < Policies
  /\ cpuRound' = Append(cpuRound, governor[Len(cpuRound) + 1])
  /\ UNCHANGED <<governor, freqs, mixed>>
CPUMsg ==
  /\ Len(cpuRound) = Policies
  /\ freqs' = cpuRound
  /\ cpuRound' = <<>>
  /\ UNCHANGED <<governor, mixed>>

NextGovernor(cur) ==
  LET i == CHOOSE j \in DOMAIN Available : Available[j] = cur
  IN  Available[(i % Len(Available)) + 1]

(* What each policy is set to: the successor of the first one's governor.  *)
TargetOfEach(p) == NextGovernor(freqs[p])
Target(p) == NextGovernor(freqs[1])

(* cycleGovernor stops at the first policy it cannot write; only a whole   *)
(* cycle is shown at once.                                                 *)
CycleGovernor(refused) ==
  /\ freqs # <<>>
  /\ Len(Available) > 1
  /\ governor' = [p \in 1..Policies |->
       IF \E q \in 1..p : q \in refused THEN governor[p] ELSE Target(p)]
  /\ IF refused = {}
     THEN /\ freqs' = [p \in 1..Policies |-> Target(p)]
          /\ mixed' = FALSE
     ELSE /\ mixed' = TRUE
          /\ UNCHANGED freqs
  /\ UNCHANGED cpuRound

GovernorNext ==
  \/ ReadPolicy \/ CPUMsg
  \/ \E refused \in SUBSET (1..Policies) : CycleGovernor(refused)

GovernorSpec == GovernorInit /\ [][GovernorNext]_governorVars

------------------------------------------------------------------------------
GovernorTypeOK ==
  /\ governor \in [1..Policies -> {Available[i] : i \in DOMAIN Available}]
  /\ Len(freqs) \in {0, Policies}
  /\ Len(cpuRound) <= Policies
  /\ mixed \in BOOLEAN

(* The policies move together: with every write allowed, they all run the  *)
(* same governor whenever a key or a sample is handled, even if a sample   *)
(* that overlapped a cycle shows two different ones; a refused write is    *)
(* repaired by the next whole cycle (cycleGovernor, model.go:2894-2918).   *)
PoliciesTogether ==
  ~mixed => \A p, q \in 1..Policies : governor[p] = governor[q]
==============================================================================
