---------------------------- MODULE DiskPressure ----------------------------
(***************************************************************************)
(* The disk pressure guard: files of its own choice are deleted, kind by   *)
(* kind, while the root file system is almost full.                        *)
(*                                                                         *)
(* A look at the file system is taken every 30 seconds at most, and a      *)
(* sweep every 300; a sweep spends a budget over the kinds in their order  *)
(* and ends early once the pressure is well below the trigger.             *)
(***************************************************************************)
EXTENDS Naturals

CONSTANTS
  Budget,       \* MAX_BATCH_RECLAIM_BYTES
  Trigger,      \* DISK_PRESSURE_THRESHOLD_PCT
  Release,      \* DISK_RELEASE_THRESHOLD_PCT
  Cooldown,     \* COOLDOWN_SEC, in looks
  FileSize,     \* the size of every sweepable file
  Most,         \* a bound on the sweepable files of a kind
  Writes        \* a bound on the growth of what nothing sweeps

ASSUME DiskAssumption ==
  /\ {Budget, Trigger, Release, Cooldown, FileSize, Most, Writes} \subseteq Nat
  /\ FileSize > 0 /\ Budget > 0 /\ Release > 0 /\ Release <= Trigger

(* Old or disposable files.  Files in /tmp younger than seven days, locks,   *)
(* sockets and directories are not among them.                               *)
Kinds == {"journal~", "coredump", "deb", "pkg", "tmp", "vartmp"}

VARIABLES
  files,      \* kind: how many sweepable files there are
  other,      \* everything else on the file system
  looked,     \* m_last_sample_time is less than 30 seconds ago
  rest,       \* looks until m_last_reclaim_time is COOLDOWN_SEC ago
  wrote       \* growth of other so far

diskVars == <<files, other, looked, rest, wrote>>

DiskTypeOK ==
  /\ files \in [Kinds -> 0..Most]
  /\ other \in Nat
  /\ looked \in BOOLEAN
  /\ rest \in 0..Cooldown
  /\ wrote \in 0..Writes

Count(f) == f["journal~"] + f["coredump"] + f["deb"] + f["pkg"] + f["tmp"] + f["vartmp"]

Used(f, o) == o + FileSize * Count(f)

-----------------------------------------------------------------------------
(* A sweep.  Files go while the budget lasts, and the last one may overdraw  *)
(* it: a budget of so many files.                                            *)

Files == (Budget + FileSize - 1) \div FileSize

Smaller(m, n) == IF m < n THEN m ELSE n

(* The two directories of a tier, the second on what the first leaves.       *)
SweepTier(f, budget, first, second) ==
  LET one == Smaller(f[first], budget)
  IN [f EXCEPT ![first] = @ - one, ![second] = @ - Smaller(@, budget - one)]

SweepJournalAndDumps(f, budget) == SweepTier(f, budget, "journal~", "coredump")
SweepPackageCaches(f, budget) == SweepTier(f, budget, "deb", "pkg")
SweepOldTmpFiles(f, budget) == SweepTier(f, budget, "tmp", "vartmp")

(* Deleting n files would be enough.                                         *)
ClearedBy(f, o, n) == Used(f, o) - FileSize * n < Release

(* Deleted by the first tier, and by the first two.                          *)
First(f) == Smaller(Files, f["journal~"] + f["coredump"])
FirstTwo(f) == Smaller(Files, f["journal~"] + f["coredump"] + f["deb"] + f["pkg"])

ReclaimFirstTierOnly(f, o) == SweepJournalAndDumps(f, Files)
ReclaimTieredStorage(f, o) ==
  LET f1 == SweepJournalAndDumps(f, Files)
      f2 == SweepPackageCaches(f1, Files - First(f))
  IN CASE ClearedBy(f, o, First(f)) -> f1
       [] ~ClearedBy(f, o, First(f)) /\ ClearedBy(f, o, FirstTwo(f)) -> f2
       [] OTHER -> SweepOldTmpFiles(f2, Files - FirstTwo(f))

PressureSatisfied == Used(files, other) >= Trigger

EvaluateDisk ==
  /\ ~looked
  /\ looked' = TRUE
  /\ IF PressureSatisfied /\ rest = 0
     THEN files' = ReclaimTieredStorage(files, other) /\ rest' = Cooldown
     ELSE UNCHANGED <<files, rest>>
  /\ UNCHANGED <<other, wrote>>

-----------------------------------------------------------------------------
(* The rest of the world.                                                    *)

HalfMinute ==
  /\ looked
  /\ looked' = FALSE
  /\ rest' = IF rest = 0 THEN 0 ELSE rest - 1
  /\ UNCHANGED <<files, other, wrote>>

(* Nothing remembers the guard's times over a restart.                       *)
RestartGuard ==
  /\ looked \/ rest > 0
  /\ looked' = FALSE /\ rest' = 0
  /\ UNCHANGED <<files, other, wrote>>

DataGrows ==
  /\ wrote < Writes
  /\ wrote' = wrote + 1
  /\ other' = other + 1
  /\ UNCHANGED <<files, looked, rest>>

DiskInit ==
  /\ files \in [Kinds -> 0..Most]
  /\ other \in {Release - 1, Trigger - 1}
  /\ looked = FALSE
  /\ rest = 0
  /\ wrote = 0

DiskNext == EvaluateDisk \/ HalfMinute \/ RestartGuard \/ DataGrows

DiskFairness == WF_diskVars(EvaluateDisk) /\ WF_diskVars(HalfMinute)
DiskSpec == DiskInit /\ [][DiskNext]_diskVars /\ DiskFairness

-----------------------------------------------------------------------------
(* Properties.                                                               *)

(* A sweep overdraws its budget by less than a file (reclaim_tiered_storage  *)
(* hands what is left of it from tier to tier).                              *)
SweepStaysInBudget ==
  [][FileSize * Count(files) < FileSize * Count(files') + Budget + FileSize]_diskVars

(* Old temporary files go only when no journal, dump or package is left, and *)
(* packages only when no journal or dump is: the last thing to lose is what  *)
(* a user may have put there.                                                *)
Journals(f) == f["journal~"] + f["coredump"]
Packages(f) == f["deb"] + f["pkg"]
TmpFiles(f) == f["tmp"] + f["vartmp"]
SweepsInOrder ==
  [][/\ Packages(files') # Packages(files) => Journals(files') = 0
     /\ TmpFiles(files') # TmpFiles(files) => Journals(files') + Packages(files') = 0]_diskVars

(* What PressureIsRelieved rests on: a look that may sweep deletes at least  *)
(* one file.  The early exits are never taken before a file went, although   *)
(* the tiers they look at may have been empty.                               *)
SweepMakesRoom ==
  [][EvaluateDisk /\ PressureSatisfied /\ rest = 0 /\ Count(files) > 0
       => Count(files') < Count(files)]_diskVars

(* The pressure ends, or no sweepable file of any kind is left: neither the  *)
(* budget nor the cooldown, the early exits, a restart or data that grows    *)
(* in between keeps the guard from a kind it comes to last.                  *)
PressureIsRelieved ==
  PressureSatisfied ~> (~PressureSatisfied \/ \A kind \in Kinds : files[kind] = 0)

=============================================================================
