--------------------------- MODULE PressureRelief ---------------------------
(***************************************************************************)
(* What the memory pressure guard does beside its CPU brake and its swap   *)
(* files (MemoryPressureGuard): it tells applications over D-Bus how short *)
(* memory is, drops file pages of background workers, pages processes out  *)
(* to ZRAM while that has room, and every 20 minutes at most reclaims the  *)
(* control groups of two large applications.                               *)
(*                                                                         *)
(* The warning is kept by whoever heard it; the daemon may be stopped or   *)
(* killed, and the bus may refuse a signal or break the connection,        *)
(* between any two of them.  A connection that broke is not opened again.  *)
(***************************************************************************)
EXTENDS Naturals, FiniteSets

CONSTANTS
  Apps,          \* processes of the report
  SafetyTier,    \* their ProcessSafetyTier
  ControlGroup,  \* the control group each is in
  MaxReclaimed   \* MAX_RECLAIMED_PER_CYCLE (8)

ASSUME AppsAssumption == IsFiniteSet(Apps) /\ SafetyTier \in [Apps -> 0..5]
ASSUME ReclaimedAssumption == MaxReclaimed \in Nat

VARIABLES
  reliefUp,  \* the daemon process exists
  told,      \* the last LowMemoryWarning that went out
  last,      \* m_last_level
  recent,    \* m_last_emit_sec is less than REPEAT_COOLDOWN_SEC ago
  busUp,     \* the system bus takes connections, and signals over a live one
  conn,      \* m_bus: none (nullptr), open, or lost: broken and still held
  deaf,      \* the daemon ended and left a warning standing (a history)
  shortage,  \* what the samples of the machine amount to
  rung,      \* m_tier
  cooling,   \* m_telemetry.last_reclaim_sec is less than COOLDOWN_SEC ago
  roomy,     \* ZRAM exists and is not saturated, by the last good /proc/swaps
  cache,     \* who holds file pages worth a pass
  inRam      \* whose anonymous pages are in RAM

reliefVars == <<reliefUp, told, last, recent, busUp, conn, deaf, shortage, rung, cooling, roomy,
                cache, inRam>>

Levels == {"normal", "moderate", "critical"}
Rungs == {"Normal", "Advisory", "Throttle"}

(* squeezed asks for the targeted reclaim alone: less than 20 percent        *)
(* available, 35 percent of swap free, or PSI full above 5.                  *)
Shortages == {"none", "squeezed", "Advisory", "Throttle"}

ReliefTypeOK ==
  /\ {reliefUp, recent, busUp, deaf, cooling, roomy} \subseteq BOOLEAN
  /\ {told, last} \subseteq Levels
  /\ conn \in {"none", "open", "lost"}
  /\ shortage \in Shortages
  /\ rung \in Rungs
  /\ cache \subseteq Apps /\ inRam \subseteq Apps

-----------------------------------------------------------------------------
(* LowMemoryNotifier.  A note is what it keeps and what was heard.           *)

Note == [told |-> told, last |-> last, recent |-> recent, conn |-> conn, deaf |-> deaf]

Heard(n, level) ==
  [n EXCEPT !.told = level, !.last = level, !.recent = TRUE, !.deaf = FALSE]

(* initialize: a connection is opened if there is none, and one that broke   *)
(* is taken for an open one.                                                 *)
Connected(n) == IF n.conn = "none" /\ busUp THEN [n EXCEPT !.conn = "open"] ELSE n

(* Nothing is said again: Normal after Normal, anything within 15 seconds.   *)
Suppressed(n, level) == level = n.last /\ (level = "normal" \/ n.recent)

Emits(n) == busUp /\ n.conn = "open"

NotifyAnyway(n, level) ==
  CASE Suppressed(n, level) -> Connected(n)
    [] ~Suppressed(n, level) /\ Emits(Connected(n)) -> Heard(Connected(n), level)
    [] OTHER -> [Connected(n) EXCEPT !.last = level, !.recent = TRUE]
Notify(n, level) ==
  IF Emits(Connected(n)) /\ ~Suppressed(n, level)
  THEN Heard(Connected(n), level) ELSE Connected(n)

(* shutdown: the all-clear, if anything else stands, and a fresh record.     *)
CloseNotifier(n) ==
  LET said == IF n.last = "normal" THEN n ELSE Notify(n, "normal")
  IN [said EXCEPT !.last = "normal", !.recent = FALSE, !.conn = "none",
                  !.deaf = said.told # "normal"]

-----------------------------------------------------------------------------
(* Pages.  A process counts by what it holds in RAM (PSS): 256 MiB for the   *)
(* reclaims, 64 MiB for a page-out.                                          *)

Pages == [cache |-> cache, inRam |-> inRam]
Heavy(m) == m.cache \cup m.inRam

(* memory.reclaim is a file of a control group: a pass for one process takes *)
(* pages of any that share its group, of either kind, anonymous ones if any  *)
(* swap has room.                                                            *)
Siblings(p) == {q \in Apps : ControlGroup[q] = ControlGroup[p]}
LeftOf(held, touched) == {held \ T : T \in SUBSET (held \cap touched)}
ReclaimPages(m, S, swappable) ==
  LET touched == UNION {Siblings(p) : p \in S} IN
  {[cache |-> c, inRam |-> r] :
     c \in LeftOf(m.cache, touched),
     r \in IF swappable THEN LeftOf(m.inRam, touched) ELSE {m.inRam}}

(* With swappiness=0 file pages of the group go.  Where they are fewer than  *)
(* the quarter of the process's size that is asked for, or the kernel is     *)
(* older than 6.4, the write fails and is repeated without the restriction.  *)
ReclaimFiles(m, S, swappable) ==
  {left \in ReclaimPages(m, S, swappable) : \A p \in S : ~ Siblings(p) \subseteq left.cache}

(* The first n of the report's order, which is no matter here, or all.       *)
Picks(W, n) == {S \in SUBSET W : Cardinality(S) = n \/ (S = W /\ Cardinality(W) < n)}

Workers == {p \in Apps : SafetyTier[p] \in {4, 5}}

ActuateAdvisory(m, devices) ==
  UNION {ReclaimFiles(m, S, devices # "nothing") : S \in Picks(Workers \cap Heavy(m), MaxReclaimed)}

(* SwapTierManager.refresh: a /proc/swaps without one device is refused, and *)
(* what was read before stays.                                               *)
SwapStates == {"nothing", "noRoom", "zram"}
Refresh(devices) == IF devices = "nothing" THEN roomy ELSE devices = "zram"

Exempt(p, focus) == p = focus \/ SafetyTier[p] \in 0..2
PageoutCandidates(m, focus) ==
  {p \in Heavy(m) : ~Exempt(p, focus) /\ SafetyTier[p] \in 3..5}

(* process_madvise with MADV_PAGEOUT goes through the private anonymous      *)
(* writable areas of 64 KiB and more; without any swap it moves nothing.     *)
PageoutProcesses(m, S, devices) ==
  [m EXCEPT !.inRam = IF devices = "nothing" THEN @ ELSE @ \ S]

ActuatePageout(m, focus, devices) ==
  IF Refresh(devices) THEN PageoutProcesses(m, PageoutCandidates(m, focus), devices) ELSE m

(* TargetedAppReclaimEngine: two large processes of tiers 3 and up, the      *)
(* focused one included.                                                     *)
EligibleApps(m) == {p \in Heavy(m) : SafetyTier[p] \notin 0..2}
TargetedPressure(next) == next # "Normal" \/ shortage # "none"
TargetedReclaim(m, devices) ==
  UNION {ReclaimPages(m, S, devices # "nothing") : S \in Picks(EligibleApps(m), 2)}

-----------------------------------------------------------------------------
(* evaluate_and_actuate.                                                     *)

(* Up at once; down one rung at a time and only when nothing presses.        *)
Classify ==
  CASE shortage = "Throttle" \/ (rung = "Throttle" /\ shortage = "Advisory") -> "Throttle"
    [] shortage = "Advisory" /\ rung # "Throttle" -> "Advisory"
    [] shortage \in {"none", "squeezed"} /\ rung = "Throttle" -> "Advisory"
    [] OTHER -> "Normal"

LevelOf(next) ==
  CASE next = "Normal" -> "normal"
    [] next = "Advisory" -> "moderate"
    [] next = "Throttle" -> "critical"

RelieveFirstOnly(next, devices) ==
  IF next # "Advisory" THEN {Pages}
  ELSE {ActuatePageout(m, focus, devices) :
          m \in ActuateAdvisory(Pages, devices), focus \in Apps \cup {"none"}}
Relieve(next, devices) ==
  IF next = "Normal" THEN {Pages}
  ELSE {ActuatePageout(m, focus, devices) :
          m \in ActuateAdvisory(Pages, devices), focus \in Apps \cup {"none"}}

SetNote(n) ==
  told' = n.told /\ last' = n.last /\ recent' = n.recent /\ conn' = n.conn /\ deaf' = n.deaf

SetPages(m) == cache' = m.cache /\ inRam' = m.inRam

(* In Performance the critical warning goes out only when the CPU brake is   *)
(* permitted: no swap file can be added any more.                            *)
EvaluateInPerformance ==
  /\ reliefUp
  /\ UNCHANGED <<reliefUp, busUp, shortage, cooling>>
  /\ LET next == Classify
         first == Notify(Note, IF next = "Normal" THEN "normal" ELSE "moderate")
     IN /\ rung' = next
        /\ SetNote(first) \/ (next = "Throttle" /\ SetNote(Notify(first, "critical")))
        /\ \E devices \in SwapStates :
             /\ roomy' = IF next = "Normal" THEN roomy ELSE Refresh(devices)
             /\ \E m \in Relieve(next, devices) : SetPages(m)

(* The other profiles end with the targeted reclaim, which says Moderate     *)
(* whatever was said a moment before.                                        *)
EvaluateRelief ==
  /\ reliefUp
  /\ UNCHANGED <<reliefUp, busUp, shortage>>
  /\ LET next == Classify
         targeted == TargetedPressure(next) /\ ~cooling
         note == Notify(Note, LevelOf(next))
     IN /\ rung' = next
        /\ cooling' = IF targeted THEN TRUE ELSE cooling
        /\ SetNote(IF targeted THEN Notify(note, "moderate") ELSE note)
        /\ \E devices \in SwapStates :
             /\ roomy' = IF next = "Normal" THEN roomy ELSE Refresh(devices)
             /\ \E m \in IF targeted
                         THEN UNION {TargetedReclaim(r, devices) : r \in Relieve(next, devices)}
                         ELSE Relieve(next, devices) : SetPages(m)

StopRelief ==
  /\ reliefUp
  /\ reliefUp' = FALSE
  /\ SetNote(CloseNotifier(Note))
  /\ rung' = "Normal" /\ cooling' = FALSE
  /\ UNCHANGED <<busUp, shortage, roomy, cache, inRam>>

KillRelief ==
  /\ reliefUp
  /\ reliefUp' = FALSE
  /\ rung' = "Normal" /\ last' = "normal" /\ recent' = FALSE /\ cooling' = FALSE
  /\ conn' = "none"
  /\ deaf' = (told # "normal")
  /\ UNCHANGED <<told, busUp, shortage, roomy, cache, inRam>>

StartRelief ==
  /\ ~reliefUp
  /\ reliefUp' = TRUE
  /\ conn' = Connected(Note).conn
  /\ \E devices \in SwapStates : roomy' = (devices = "zram")
  /\ UNCHANGED <<told, last, recent, busUp, deaf, shortage, rung, cooling, cache, inRam>>

-----------------------------------------------------------------------------
(* The rest of the world.                                                    *)

ShortageChanges ==
  /\ shortage' \in Shortages \ {shortage}
  /\ UNCHANGED <<reliefUp, told, last, recent, busUp, conn, deaf, rung, cooling, roomy,
                 cache, inRam>>

(* For a while there is no memory for a signal, or no room in the socket; a  *)
(* bus that goes down takes the connection with it.                          *)
BusChanges ==
  /\ busUp' = ~busUp
  /\ UNCHANGED <<reliefUp, told, last, recent, conn, deaf, shortage, rung, cooling, roomy,
                 cache, inRam>>

BusDisconnects ==
  /\ busUp /\ conn = "open"
  /\ busUp' = FALSE
  /\ conn' = "lost"
  /\ UNCHANGED <<reliefUp, told, last, recent, deaf, shortage, rung, cooling, roomy, cache, inRam>>

(* Fifteen seconds, twenty minutes.                                          *)
QuarterMinute ==
  /\ recent
  /\ recent' = FALSE
  /\ UNCHANGED <<reliefUp, told, last, busUp, conn, deaf, shortage, rung, cooling, roomy,
                 cache, inRam>>

TwentyMinutes ==
  /\ cooling
  /\ cooling' = FALSE
  /\ recent' = FALSE
  /\ UNCHANGED <<reliefUp, told, last, busUp, conn, deaf, shortage, rung, roomy, cache, inRam>>

AppWorks ==
  /\ \E p \in Apps : cache' = cache \cup {p} /\ inRam' = inRam \cup {p}
  /\ <<cache, inRam>>' # <<cache, inRam>>
  /\ UNCHANGED <<reliefUp, told, last, recent, busUp, conn, deaf, shortage, rung, cooling, roomy>>

ReliefInit ==
  /\ reliefUp = FALSE /\ busUp = TRUE /\ conn = "none"
  /\ told = "normal" /\ last = "normal" /\ recent = FALSE /\ deaf = FALSE
  /\ shortage = "none" /\ rung = "Normal"
  /\ cooling = FALSE /\ roomy = FALSE
  /\ cache = Apps /\ inRam = Apps

ReliefNext ==
  \/ EvaluateInPerformance \/ EvaluateRelief
  \/ StopRelief \/ KillRelief \/ StartRelief
  \/ ShortageChanges \/ BusChanges \/ BusDisconnects \/ QuarterMinute \/ TwentyMinutes
  \/ AppWorks

(* A deep sweep ends in an evaluation, whatever the profile.                 *)
ReliefFairness == WF_reliefVars(EvaluateRelief \/ EvaluateInPerformance)
ReliefSpec == ReliefInit /\ [][ReliefNext]_reliefVars /\ ReliefFairness

-----------------------------------------------------------------------------
(* Properties.                                                               *)

(* A daemon that did not end in between knows which warning applications     *)
(* heard last: a refused signal is not taken for a sent one, a suppressed    *)
(* one not for a new one, whichever of the three callers asked for it.       *)
OwedIsRemembered == ~deaf => told = last

(* What AppsHearTheEnd rests on: the first look that finds the shortage over *)
(* and the bus open announces it, or has lost its connection for good.       *)
EndIsAnnounced ==
  [][(EvaluateRelief \/ EvaluateInPerformance) /\ busUp /\ shortage = "none" /\ rung # "Throttle"
       => told' = "normal" \/ deaf' \/ conn' = "lost"]_reliefVars

(* A process of tiers 0 to 2 (the session, audio, the desktop) loses pages   *)
(* only to a pass meant for one it shares its control group with: the        *)
(* advisory, the page-out and the targeted pass never choose it themselves.  *)
Shielded(p) == SafetyTier[p] \in 0..2
ShieldedKeepPages ==
  [][\A p \in Apps : (\A q \in Siblings(p) : Shielded(q)) =>
       (p \in cache => p \in cache') /\ (p \in inRam => p \in inRam')]_reliefVars

(* What WorkersMakeRoom rests on: one look under pressure is enough, for     *)
(* no more workers than a pass takes.                                        *)
LookDropsWorkers ==
  [][(EvaluateRelief \/ EvaluateInPerformance) /\ shortage \in {"Advisory", "Throttle"}
       /\ Cardinality(Workers) <= MaxReclaimed
       => \A p \in Workers : ~ Siblings(p) \subseteq cache']_reliefVars

(* Once the shortage is over for good, the daemon runs and the bus takes     *)
(* signals, the last warning applications heard is the all-clear, however    *)
(* the warnings of the tiers, of the targeted reclaim and of a shutdown were *)
(* suppressed or refused before.  Two daemons never give it: one that was    *)
(* killed, or stopped while the bus refused, has forgotten that it owes one  *)
(* (deaf), and one whose connection broke never opens another (lost).        *)
AppsHearTheEnd ==
  <>[](reliefUp /\ busUp /\ shortage = "none") =>
    <>[](told = "normal" \/ deaf \/ conn = "lost")

(* While pressure lasts the control group of every background worker loses   *)
(* file pages again and again, in every profile and on every rung, as long   *)
(* as there are no more workers than a pass takes.                           *)
UnderPressure == reliefUp /\ shortage \in {"Advisory", "Throttle"}
WorkersMakeRoom ==
  \A p \in Workers :
    (Cardinality(Workers) <= MaxReclaimed /\ UnderPressure /\ Siblings(p) \subseteq cache)
      ~> (~UnderPressure \/ ~ Siblings(p) \subseteq cache)

=============================================================================
