---------------------------- MODULE SwapExpander ----------------------------
(***************************************************************************)
(* The swap files the daemon adds under memory pressure and takes away     *)
(* again.  The daemon's own record of them (m_files, m_pending_pid) and    *)
(* the files on disk change at different moments: a forked child builds a  *)
(* file, the daemon's next tick swaps it on; a detached child swaps a file *)
(* off after the daemon has already forgotten it.  The decisions are       *)
(* operators on the record e that holds both, because the memory guard     *)
(* chains several of them in one call.  Swap is counted in units of which  *)
(* a file holds Increment.                                                 *)
(***************************************************************************)
EXTENDS Integers, FiniteSets, Sequences, SequencesExt, FiniteSetsExt

CONSTANTS
  Base,          \* the distribution's own swap, in units
  Increment,     \* INCREMENT_BYTES, in units
  MaxFiles,      \* MAX_FILES (4)
  ForkOutcomes   \* what fork() may return: TRUE for a child, FALSE for a failure

ASSUME SizesAssumption == Base \in Nat \ {0} /\ Increment \in Nat \ {0}
ASSUME MaxFilesAssumption == MaxFiles \in Nat \ {0}
ASSUME ForkAssumption == ForkOutcomes \subseteq BOOLEAN

VARIABLES
  swap,    \* the files on disk and the daemon's record of them
  used,    \* units of swap in use
  roomy    \* statvfs reports room for one more file above the 20 GiB floor

Index == 1..MaxFiles
None == 0

(* absent; building by the pending child; built or failed once it exited; on; *)
(* leaving while its detached child runs swapoff(); drained once that         *)
(* succeeded, leaked (and still swapped on) once it failed; stray when nobody *)
(* works on it any more.                                                      *)
FileStates == {"absent", "building", "built", "failed", "on", "leaving", "drained",
               "leaked", "stray"}
Active == {"on", "leaving", "leaked"}
Pending == {"building", "built", "failed"}

Expander == [files: [Index -> FileStates], tracked: BoundedSeq(Index, MaxFiles),
             pending: Index \cup {None}]

FilesIn(e, states) == {i \in Index : e.files[i] \in states}

(* A file counts as swap until swapoff() has taken it out. *)
Total(e) == Base + Increment * Cardinality(FilesIn(e, Active))

(* SwapTotal as meminfo shows it: a swapoff() under way takes its file's free *)
(* pages out first.                                                           *)
SeenTotals ==
  {Total(swap) - n : n \in 0..(Increment * Cardinality(FilesIn(swap, {"leaving"})))}

-----------------------------------------------------------------------------
(* The decisions. *)

(* Less than a quarter of the swap is free, or less than 6 of the 8 GiB of an *)
(* increment.                                                                 *)
ShouldExpand(total, free) == total # 0 /\ (free * 4 < total \/ free * 4 < 3 * Increment)

BudgetAllows(e) == Len(e.tracked) < MaxFiles /\ roomy
BudgetExhausted(e) == ~BudgetAllows(e)

(* What is paged out fits into 70% of what remains. *)
SafeToRelease(total, free) ==
  \/ total = 0
  \/ Increment < total /\ (total - free) * 10 < (total - Increment) * 7

(* ensure_headroom: the lowest index without a file, whatever made the file. *)
GrownBlind(e, total, free, forked) ==
  LET open == FilesIn(e, {"absent"}) \cup {MaxFiles + 1} IN
  IF e.pending = None /\ ShouldExpand(total, free) /\ BudgetAllows(e) /\ forked
  THEN [e EXCEPT !.files[Min(open)] = "building", !.pending = Min(open)]
  ELSE e

Grown(e, total, free, forked) ==
  LET open == FilesIn(e, {"absent"}) IN
  IF e.pending = None /\ ShouldExpand(total, free) /\ BudgetAllows(e) /\ open # {} /\ forked
  THEN [e EXCEPT !.files[Min(open)] = "building", !.pending = Min(open)]
  ELSE e

(* poll_pending: a finished child is reaped, and its file swapped on; *)
(* swapon() may refuse it.                                            *)
Polled(e) ==
  IF e.pending = None \/ e.files[e.pending] = "building" THEN {e}
  ELSE LET gone == [e EXCEPT !.files[e.pending] = "absent", !.pending = None]
           active == [e EXCEPT !.files[e.pending] = "on", !.pending = None,
                               !.tracked = Append(@, e.pending)]
       IN  {gone} \cup (IF e.files[e.pending] = "built" THEN {active} ELSE {})

(* maybe_release: the newest file is forgotten as soon as its child runs. *)
TrimmedNeverLast(e, total, free, forked) ==
  IF Len(e.tracked) > 1 /\ e.pending = None /\ SafeToRelease(total, free) /\ forked
  THEN [e EXCEPT !.files[Last(e.tracked)] = "leaving", !.tracked = Front(@)]
  ELSE e

Trimmed(e, total, free, forked) ==
  IF e.tracked # <<>> /\ e.pending = None /\ SafeToRelease(total, free) /\ forked
  THEN [e EXCEPT !.files[Last(e.tracked)] = "leaving", !.tracked = Front(@)]
  ELSE e

(* initialize: one file after another, a file still swapped on is adopted,    *)
(* any other is deleted.                                                      *)
AdoptedNone(e) ==
  [files |-> [i \in Index |-> IF e.files[i] \in Active THEN "on" ELSE "absent"],
   tracked |-> <<>>,
   pending |-> None]

Adopted(e) ==
  LET found[n \in 0..MaxFiles] ==
        IF n = 0 THEN <<>>
        ELSE IF e.files[n] \in Active THEN Append(found[n - 1], n)
        ELSE found[n - 1]
  IN [files |-> [i \in Index |-> IF e.files[i] \in Active THEN "on" ELSE "absent"],
      tracked |-> found[MaxFiles],
      pending |-> None]

(* The daemon's end takes its children with it: the service is stopped by    *)
(* control group.  A swapoff() that is killed leaves its file swapped on.    *)
Orphaned(e) ==
  [e EXCEPT !.files = [i \in Index |->
                         IF @[i] \in Pending \cup {"drained"} THEN "stray"
                         ELSE IF @[i] = "leaving" THEN "on"
                         ELSE @[i]]]

(* Swap files the daemon made are in no fstab. *)
Rebooted(e) ==
  [e EXCEPT !.files = [i \in Index |-> IF @[i] = "absent" THEN "absent" ELSE "stray"]]

-----------------------------------------------------------------------------
(* The children, and the machine. *)

ChildBuilds ==
  \E i \in FilesIn(swap, {"building"}), result \in {"built", "failed"} :
    /\ swap' = [swap EXCEPT !.files[i] = result]
    /\ UNCHANGED <<used, roomy>>

(* What the file held is faulted back into memory. *)
ChildDrains ==
  \E i \in FilesIn(swap, {"leaving"}) :
    /\ swap' = [swap EXCEPT !.files[i] = "drained"]
    /\ used' = Min({used, Total(swap')})
    /\ UNCHANGED roomy

ChildIsRefused ==
  \E i \in FilesIn(swap, {"leaving"}) :
    /\ swap' = [swap EXCEPT !.files[i] = "leaked"]
    /\ UNCHANGED <<used, roomy>>

ChildUnlinks ==
  \E i \in FilesIn(swap, {"drained"}) :
    /\ swap' = [swap EXCEPT !.files[i] = "absent"]
    /\ UNCHANGED <<used, roomy>>

ChildStep == ChildBuilds \/ ChildDrains \/ ChildIsRefused \/ ChildUnlinks

SwapIsUsed ==
  /\ used' \in {used - 1, used + 1} \cap (0..Total(swap))
  /\ UNCHANGED <<swap, roomy>>

DiskFills ==
  /\ roomy' = ~roomy
  /\ UNCHANGED <<swap, used>>

SwapTypeOK ==
  /\ swap \in Expander
  /\ used \in 0..Total(swap)
  /\ roomy \in BOOLEAN

SwapInit ==
  /\ swap = [files |-> [i \in Index |-> "absent"], tracked |-> <<>>, pending |-> None]
  /\ used = 0
  /\ roomy = TRUE
=============================================================================
