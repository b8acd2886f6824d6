--------------------------- MODULE WindowGovernor ---------------------------
(***************************************************************************)
(* WindowAwareGovernor: the part of the daemon that boosts the process of  *)
(* the focused window and progressively throttles the processes of         *)
(* minimized ones.  It owns two kinds of records about a process - the     *)
(* snapshot of the boosted one and an entry per window ever minimized -    *)
(* and both remember "original" scheduling values to write back later.     *)
(* The kernel's copy of those values is a variable of its own, because     *)
(* what the governor believes and what a process has can drift apart.      *)
(***************************************************************************)
EXTENDS Integers, FiniteSets

CONSTANTS
  Procs,          \* processes the compositor reports windows of (never pid 1, the daemon or its parent)
  NoProc,         \* "no focused process"
  Base,           \* the scheduling values each process has before the daemon touches it
  IdleShielded,   \* processes apply_sched_idle refuses to demote
  SlackShielded,  \* processes apply_timer_slack refuses to relax beyond 50us
  MaxWindows,     \* MAX_TRACKED_WINDOWS
  Profiles,       \* the effective power profiles
  Threshold,      \* per profile, the wait before stage 2 (600, 60 and 0 s)
  Times           \* the values the wall clock takes

Default == "50us"
SlackValues == {"10us", Default, "100ms", "1s"}
Nices == -20..19
Policies == {"OTHER", "IDLE"}
Masks == {"all", "c1"}

(* A process's kernel-side scheduling state. *)
Knobs == [nice: Nices, policy: Policies, mask: Masks, slack: SlackValues]

ASSUME ConstantsAssumption ==
  /\ NoProc \notin Procs
  /\ MaxWindows \in Nat
  /\ Times \subseteq Nat
  /\ Threshold \in [Profiles -> Nat]
  /\ SlackShielded \subseteq IdleShielded
  /\ IdleShielded \subseteq Procs

(* A window's process starts in the normal class on all cores.  It may have *)
(* chosen its own nice value and timer slack.                               *)
ASSUME BaseAssumption ==
  /\ Base \in [Procs -> Knobs]
  /\ \A p \in Procs : Base[p].policy = "OTHER" /\ Base[p].mask = "all"

VARIABLES
  running,   \* the daemon process is up
  entry,     \* m_windows, by pid: NoEntry or a WindowStateEntry
  snap,      \* m_active_snapshot
  pinned,    \* the PM QoS descriptor is open and holds C0
  knobs,     \* the kernel's scheduling state of every process
  profile,   \* MitigationEngine::effective_profile(), set elsewhere
  now,       \* std::time
  tainted    \* history: processes whose recorded originals may be wrong

vars == <<running, entry, snap, pinned, knobs, profile, now, tainted>>

NoEntry == [state |-> "none"]
Entries == [state: {"active", "C1", "C2"}, since: Times, audio: BOOLEAN,
            nice: Nices, policy: Policies]
NoSnap == [pid |-> NoProc]
Snaps == [pid: Procs, nice: Nices, policy: Policies, mask: Masks, slack: SlackValues]

Tracked == {p \in Procs : entry[p] # NoEntry}
Engaged == snap # NoSnap
Boosted(p) == snap.pid = p
Throttled(p) == entry[p].state \in {"C1", "C2"}
Managed(p) == Boosted(p) \/ Throttled(p)

TypeOK ==
  /\ running \in BOOLEAN
  /\ entry \in [Procs -> Entries \cup {NoEntry}]
  /\ snap \in Snaps \cup {NoSnap}
  /\ pinned \in BOOLEAN
  /\ knobs \in [Procs -> Knobs]
  /\ profile \in Profiles
  /\ now \in Times
  /\ tainted \subseteq Procs

-----------------------------------------------------------------------------
(* The primitives: what one call does to the knobs k of process p.          *)

SchedIdleUnshielded(p, k) == [k EXCEPT !.policy = "IDLE"]

(* MitigationEngine::apply_sched_idle *)
SchedIdle(p, k) ==
  IF p \in IdleShielded THEN k ELSE [k EXCEPT !.policy = "IDLE"]

(* MitigationEngine::apply_timer_slack: only relaxing is gated. *)
TimerSlack(p, k, slack) ==
  IF slack \in {"100ms", "1s"} /\ p \in SlackShielded THEN k
  ELSE [k EXCEPT !.slack = slack]

DeepThrottle(p, k) == TimerSlack(p, SchedIdle(p, k), "1s")

SoftNiceUncapped(nice) == nice + 10

SoftNice(nice) == IF nice + 10 > 19 THEN 19 ELSE nice + 10

SoftThrottle(p, k, nice) == TimerSlack(p, [k EXCEPT !.nice = SoftNice(nice)], "100ms")

UnthrottleNiceOnly(p, k, e) ==
  IF e.state \in {"C1", "C2"}
  THEN TimerSlack(p, [k EXCEPT !.nice = e.nice], Default)
  ELSE k

(* unthrottle_immediate on entry e: to the recorded class and nice value,   *)
(* and to the 50us every entry records as its original slack.               *)
Unthrottle(p, k, e) ==
  IF e.state \in {"C1", "C2"}
  THEN TimerSlack(p, [k EXCEPT !.policy = e.policy, !.nice = e.nice], Default)
  ELSE k

Woken(e) == IF e.state \in {"C1", "C2"} THEN [e EXCEPT !.state = "active"] ELSE e

(* engage_active_window, steps 2 to 5 *)
Boost(p, k) ==
  TimerSlack(p, [k EXCEPT !.nice = -10, !.mask = "c1"], "10us")

(* release_active_window: the snapshot written back to process s.pid. *)
WriteBack(s, k) ==
  TimerSlack(s.pid, [k EXCEPT !.nice = s.nice, !.policy = s.policy, !.mask = s.mask],
             s.slack)

ReleasedNever == knobs

(* Every process's knobs after the boosted one, if any, is released. *)
Released == [p \in Procs |-> IF Boosted(p) THEN WriteBack(snap, knobs[p]) ELSE knobs[p]]

Capture(p, k) == [pid |-> p, nice |-> k.nice, policy |-> k.policy,
                  mask |-> k.mask, slack |-> k.slack]

-----------------------------------------------------------------------------
(* The operations. *)

(* pin_c0_latency: opening or writing /dev/cpu_dma_latency can fail.  The   *)
(* descriptor of an earlier engagement was closed by release.               *)
Pin == pinned' \in IF pinned THEN {TRUE} ELSE BOOLEAN

ReaffirmFocus(p) ==
  /\ Boosted(p)
  /\ Pin
  /\ UNCHANGED <<entry, snap, knobs, tainted>>

(* The focused process changes: release the previous one, snapshot and      *)
(* boost the new one, then lift its throttle.  The history variable notes   *)
(* an engagement whose snapshot is taken while the process is throttled.    *)
ChangeFocus(p) ==
  /\ ~Boosted(p)
  /\ snap' = Capture(p, knobs[p])
  /\ knobs' = [Released EXCEPT ![p] = Unthrottle(p, Boost(p, knobs[p]), entry[p])]
  /\ entry' = [entry EXCEPT ![p] = Woken(@)]
  /\ pinned' \in BOOLEAN
  /\ tainted' = IF Throttled(p) THEN tainted \cup {p} ELSE tainted

(* ACTIVE_WINDOW, WINDOW_RESTORED and WINDOW_STATE with active = 1 *)
Engage(p) ==
  /\ running
  /\ ReaffirmFocus(p) \/ ChangeFocus(p)
  /\ UNCHANGED <<running, profile, now>>

ReleaseIfKeepsPin(p) ==
  IF Boosted(p) THEN snap' = NoSnap /\ UNCHANGED pinned ELSE UNCHANGED <<snap, pinned>>

(* release_active_window as the first step of the unfocused paths *)
ReleaseIf(p) ==
  IF Boosted(p) THEN snap' = NoSnap /\ pinned' = FALSE ELSE UNCHANGED <<snap, pinned>>

KnobsIfReleased(p) == IF Boosted(p) THEN WriteBack(snap, knobs[p]) ELSE knobs[p]

(* WINDOW_STATE with minimized = 0 and active = 0 *)
Unfocus(p) ==
  /\ running
  /\ ReleaseIf(p)
  /\ knobs' = [knobs EXCEPT ![p] = Unthrottle(p, KnobsIfReleased(p), entry[p])]
  /\ entry' = [entry EXCEPT ![p] = Woken(@)]
  /\ UNCHANGED <<running, profile, now, tainted>>

(* The entry a minimized window has before the stage is chosen. *)
EntryFor(p, k, audio) ==
  IF entry[p] = NoEntry
  THEN [state |-> "active", since |-> now, audio |-> audio, nice |-> k.nice, policy |-> k.policy]
  ELSE [entry[p] EXCEPT !.audio = audio,
                        !.since = IF entry[p].state = "active" THEN now ELSE @]

(* The stage an entry is in once its window is minimized: straight to C2 in *)
(* a profile without a wait, unless audio plays; C1 otherwise.              *)
StageOnMinimize(e) ==
  IF Threshold[profile] = 0 /\ ~e.audio THEN "C2"
  ELSE IF e.state = "active" THEN "C1" ELSE e.state

(* The knobs after the entry e moved to the given stage. *)
Throttle(p, k, e, stage) ==
  IF stage = e.state THEN k
  ELSE IF stage = "C2" THEN DeepThrottle(p, k)
  ELSE SoftThrottle(p, k, e.nice)

(* WINDOW_MINIMIZED and WINDOW_STATE with minimized = 1 and active = 0: a   *)
(* full table leaves the window alone, after releasing its boost.           *)
MinimizeUntracked(p) ==
  /\ running
  /\ entry[p] = NoEntry
  /\ Cardinality(Tracked) >= MaxWindows
  /\ ReleaseIf(p)
  /\ knobs' = [knobs EXCEPT ![p] = KnobsIfReleased(p)]
  /\ UNCHANGED <<running, entry, profile, now, tainted>>

Minimize(p, audio) ==
  /\ running
  /\ entry[p] = NoEntry => Cardinality(Tracked) < MaxWindows
  /\ ReleaseIf(p)
  /\ LET k == KnobsIfReleased(p)
         e == EntryFor(p, k, audio)
         stage == StageOnMinimize(e)
     IN  /\ entry' = [entry EXCEPT ![p] = [e EXCEPT !.state = stage]]
         /\ knobs' = [knobs EXCEPT ![p] = Throttle(p, k, e, stage)]
  /\ UNCHANGED <<running, profile, now, tainted>>

(* handle_ipc_datagram: what ACTIVE_WINDOW, WINDOW_MINIMIZED,               *)
(* WINDOW_RESTORED and WINDOW_STATE ask of the governor, in any order and   *)
(* for any process.  A datagram that does not parse changes nothing.        *)
WindowCommand(p) ==
  \/ Engage(p)
  \/ Unfocus(p)
  \/ MinimizeUntracked(p)
  \/ \E audio \in BOOLEAN : Minimize(p, audio)

(* evaluate_hysteresis: the C1 windows that have waited long enough.  The   *)
(* clock may have been set back since the window was minimized.             *)
Due(p) ==
  /\ entry[p].state = "C1"
  /\ ~entry[p].audio
  /\ now >= entry[p].since
  /\ now - entry[p].since >= Threshold[profile]

EvaluateHysteresisLater ==
  LET due(p) == Due(p) /\ now > entry[p].since IN
  /\ running
  /\ entry' = [p \in Procs |-> IF due(p) THEN [entry[p] EXCEPT !.state = "C2"] ELSE entry[p]]
  /\ knobs' = [p \in Procs |-> IF due(p) THEN DeepThrottle(p, knobs[p]) ELSE knobs[p]]
  /\ UNCHANGED <<running, snap, pinned, profile, now, tainted>>

EvaluateHysteresis ==
  /\ running
  /\ entry' = [p \in Procs |-> IF Due(p) THEN [entry[p] EXCEPT !.state = "C2"] ELSE entry[p]]
  /\ knobs' = [p \in Procs |-> IF Due(p) THEN DeepThrottle(p, knobs[p]) ELSE knobs[p]]
  /\ UNCHANGED <<running, snap, pinned, profile, now, tainted>>

(* stop and the destructor: release, unthrottle every entry, forget all. *)
RollbackAll ==
  /\ knobs' = [p \in Procs |-> Unthrottle(p, Released[p], entry[p])]
  /\ entry' = [p \in Procs |-> NoEntry]
  /\ snap' = NoSnap
  /\ pinned' = FALSE

Stop ==
  /\ running
  /\ running' = FALSE
  /\ RollbackAll
  /\ UNCHANGED <<profile, now, tainted>>

(* Killed: the records are gone, the kernel closes the PM QoS descriptor    *)
(* and every other change to the processes stays.                           *)
Crash ==
  /\ running
  /\ running' = FALSE
  /\ entry' = [p \in Procs |-> NoEntry]
  /\ snap' = NoSnap
  /\ pinned' = FALSE
  /\ tainted' = tainted \cup {p \in Procs : Managed(p)}
  /\ UNCHANGED <<knobs, profile, now>>

(* repair_orphaned_affinity_masks, run once by initialize *)
RepairMasks == [p \in Procs |-> [knobs[p] EXCEPT !.mask = "all"]]

Start ==
  /\ ~running
  /\ running' = TRUE
  /\ knobs' = RepairMasks
  /\ UNCHANGED <<entry, snap, pinned, profile, now, tainted>>

-----------------------------------------------------------------------------
(* The environment. *)

SetProfile ==
  /\ profile' \in Profiles \ {profile}
  /\ UNCHANGED <<running, entry, snap, pinned, knobs, now, tainted>>

(* The wall clock advances or is stepped. *)
ClockStep ==
  /\ now' \in Times \ {now}
  /\ UNCHANGED <<running, entry, snap, pinned, knobs, profile, tainted>>

(* The process exits and its pid comes back as a fresh process with the     *)
(* same baseline.  The governor is not told.                                *)
Recycle(p) ==
  /\ knobs' = [knobs EXCEPT ![p] = Base[p]]
  /\ tainted' = IF Boosted(p) \/ entry[p] # NoEntry THEN tainted \cup {p} ELSE tainted \ {p}
  /\ UNCHANGED <<running, entry, snap, pinned, profile, now>>

Init ==
  /\ running = TRUE
  /\ entry = [p \in Procs |-> NoEntry]
  /\ snap = NoSnap
  /\ pinned = FALSE
  /\ knobs = Base
  /\ profile \in Profiles
  /\ now \in Times
  /\ tainted = {}

Next ==
  \/ \E p \in Procs : WindowCommand(p) \/ Recycle(p)
  \/ EvaluateHysteresis
  \/ Stop
  \/ Crash
  \/ Start
  \/ SetProfile
  \/ ClockStep

(* The observation timer keeps firing while the daemon runs. *)
Spec == Init /\ [][Next]_vars /\ WF_vars(EvaluateHysteresis)

-----------------------------------------------------------------------------
(* Properties. *)

(* The knobs k are those p came with. *)
AtBase(p, k) ==
  /\ k.nice = Base[p].nice
  /\ k.policy = Base[p].policy
  /\ k.mask = Base[p].mask
  /\ Base[p].slack = Default => k.slack = Default

(* While the daemon runs, only the process the snapshot names is confined   *)
(* to the boost cores, whatever crashes and restarts came before: no        *)
(* earlier focus owner keeps the mask.                                      *)
MaskOnlyOnFocus == running => \A p \in Procs : knobs[p].mask = "c1" => Boosted(p)

(* The CPU latency clamp is held only while a window is engaged: no path    *)
(* that drops the focus leaves the package out of deep C-states.            *)
PinOnlyWhileEngaged == pinned => Engaged

(* A process the governor is not managing has the class, nice value, mask   *)
(* and slack it came with, in every state and also after the daemon         *)
(* stopped - unless it was engaged while throttled, was managed when the    *)
(* daemon was killed, or its pid was reused while on record.  Those three   *)
(* are the only ways to lose an original.  (A slack the process chose       *)
(* itself is not covered: entries assume 50us.)                             *)
UnmanagedAtBase ==
  \A p \in Procs : p \notin tainted /\ ~Managed(p) => AtBase(p, knobs[p])

(* REQ-085 2.3 as written: when the focus moves away from a window, its     *)
(* process gets its own nice value back - unless the same event throttles   *)
(* it because the window was minimized.                                     *)
FocusLossRestoresNice ==
  [][\A p \in Procs :
       Boosted(p) /\ ~Managed(p)' /\ running' => knobs'[p].nice = Base[p].nice]_vars

(* A shielded process is never in the idle class: neither a stage nor a     *)
(* write-back of recorded values puts it there.                             *)
ShieldedNeverIdle == \A p \in IdleShielded : knobs[p].policy # "IDLE"

(* A window goes one stage deeper only on evidence: to C2 from C1 after the *)
(* wait of the profile in force and never with audio playing, to C2 at once *)
(* only in a profile that has no wait.                                      *)
DeepensOnlyWhenDue ==
  [][\A p \in Procs :
       entry[p].state # "C2" /\ entry'[p].state = "C2" =>
         /\ ~entry'[p].audio
         /\ Due(p) \/ Threshold[profile] = 0]_vars

(* What makes the invariants above inductive: a stopped daemon remembers     *)
(* nothing, a snapshot never holds the boost mask, the focused process is   *)
(* not throttled, no record of a shielded process says idle, and the        *)
(* records of an untainted process hold what it came with.                  *)
DownIsEmpty == ~running => snap = NoSnap /\ \A p \in Procs : entry[p] = NoEntry
SnapMask == Engaged => snap.mask = "all"
FocusIsWoken == \A p \in Procs : Boosted(p) => ~Throttled(p)
ShieldedRecords ==
  \A p \in IdleShielded :
    /\ entry[p] # NoEntry => entry[p].policy # "IDLE"
    /\ Boosted(p) => snap.policy # "IDLE"
OriginalsAreBase ==
  \A p \in Procs \ tainted :
    /\ entry[p] # NoEntry =>
         entry[p].nice = Base[p].nice /\ entry[p].policy = Base[p].policy
    /\ Boosted(p) =>
         /\ snap.nice = Base[p].nice
         /\ snap.policy = Base[p].policy
         /\ Base[p].slack = Default => snap.slack = Default

Inv ==
  /\ TypeOK
  /\ DownIsEmpty
  /\ SnapMask
  /\ FocusIsWoken
  /\ ShieldedRecords
  /\ OriginalsAreBase
  /\ MaskOnlyOnFocus
  /\ PinOnlyWhileEngaged
  /\ ShieldedNeverIdle
  /\ UnmanagedAtBase

(* No window stays due for stage 2 forever: the observation cycle escalates *)
(* it, or an event made it not due.                                         *)
DueIsServed == \A p \in Procs : []<>(~Due(p) \/ ~running)
=============================================================================
