------------------------ MODULE WindowGovernor_proofs ------------------------
(***************************************************************************)
(* Proofs about WindowGovernor, for any set of processes and baselines, any *)
(* table size, waits and clock.  The primitives that rewrite a process's    *)
(* scheduling state are summed up once by lemmas; the invariant is then     *)
(* proved action by action.                                                 *)
(***************************************************************************)
EXTENDS WindowGovernor, TLAPS

(* A knob record after each primitive: what it may change, and that it is  *)
(* a knob record again.                                                     *)
LEMMA TimerSlackLemma ==
  ASSUME NEW p \in Procs, NEW k \in Knobs, NEW slack \in SlackValues
  PROVE  /\ TimerSlack(p, k, slack) \in Knobs
         /\ TimerSlack(p, k, slack).nice = k.nice
         /\ TimerSlack(p, k, slack).policy = k.policy
         /\ TimerSlack(p, k, slack).mask = k.mask
         /\ slack = Default => TimerSlack(p, k, slack).slack = Default
<1>1. CASE slack \in {"100ms", "1s"} /\ p \in SlackShielded
  BY <1>1 DEF TimerSlack, Default
<1>2. CASE ~(slack \in {"100ms", "1s"} /\ p \in SlackShielded)
  <2>1. TimerSlack(p, k, slack) = [k EXCEPT !.slack = slack]
    BY <1>2 DEF TimerSlack
  <2> QED  BY <2>1 DEF Knobs
<1> QED  BY <1>1, <1>2

LEMMA DeepThrottleLemma ==
  ASSUME NEW p \in Procs, NEW k \in Knobs
  PROVE  /\ DeepThrottle(p, k) \in Knobs
         /\ DeepThrottle(p, k).mask = k.mask
         /\ p \in IdleShielded => DeepThrottle(p, k).policy = k.policy
<1>1. /\ SchedIdle(p, k) \in Knobs
      /\ SchedIdle(p, k).mask = k.mask
      /\ p \in IdleShielded => SchedIdle(p, k).policy = k.policy
  BY DEF SchedIdle, Knobs, Policies
<1>2. "1s" \in SlackValues
  BY DEF SlackValues
<1> QED  BY <1>1, <1>2, TimerSlackLemma DEF DeepThrottle

LEMMA SoftThrottleLemma ==
  ASSUME NEW p \in Procs, NEW k \in Knobs, NEW nice \in Nices
  PROVE  /\ SoftThrottle(p, k, nice) \in Knobs
         /\ SoftThrottle(p, k, nice).mask = k.mask
         /\ SoftThrottle(p, k, nice).policy = k.policy
<1>1. SoftNice(nice) \in Nices
  BY DEF SoftNice, Nices
<1> DEFINE k2 == [k EXCEPT !.nice = SoftNice(nice)]
<1>2. k2 \in Knobs /\ k2.mask = k.mask /\ k2.policy = k.policy
  BY <1>1 DEF Knobs
<1>3. "100ms" \in SlackValues
  BY DEF SlackValues
<1> HIDE DEF k2
<1>4. SoftThrottle(p, k, nice) = TimerSlack(p, k2, "100ms")
  BY DEF SoftThrottle, k2
<1> QED  BY <1>2, <1>3, <1>4, TimerSlackLemma

(* Lifting the throttle of entry e writes back e's values and the default   *)
(* slack, and does nothing to a process whose entry is not throttled.       *)
LEMMA UnthrottleLemma ==
  ASSUME NEW p \in Procs, NEW k \in Knobs, NEW e \in Entries \cup {NoEntry}
  PROVE  /\ Unthrottle(p, k, e) \in Knobs
         /\ Unthrottle(p, k, e).mask = k.mask
         /\ e.state \notin {"C1", "C2"} => Unthrottle(p, k, e) = k
         /\ e.state \in {"C1", "C2"} =>
              /\ e \in Entries
              /\ Unthrottle(p, k, e).nice = e.nice
              /\ Unthrottle(p, k, e).policy = e.policy
              /\ Unthrottle(p, k, e).slack = Default
<1>1. CASE e.state \in {"C1", "C2"}
  <2> DEFINE k2 == [k EXCEPT !.policy = e.policy, !.nice = e.nice]
  <2>1. e \in Entries
    BY <1>1 DEF NoEntry
  <2>2. k2 \in Knobs /\ k2.mask = k.mask /\ k2.nice = e.nice /\ k2.policy = e.policy
    BY <2>1 DEF Knobs, Entries
  <2>3. Unthrottle(p, k, e) = TimerSlack(p, k2, Default)
    BY <1>1 DEF Unthrottle
  <2> HIDE DEF k2
  <2>4. Default \in SlackValues
    BY DEF SlackValues
  <2> QED  BY <1>1, <2>1, <2>2, <2>3, <2>4, TimerSlackLemma
<1>2. CASE e.state \notin {"C1", "C2"}
  BY <1>2 DEF Unthrottle
<1> QED  BY <1>1, <1>2

LEMMA WokenLemma ==
  ASSUME NEW e \in Entries \cup {NoEntry}
  PROVE  /\ Woken(e) \in Entries \cup {NoEntry}
         /\ Woken(e).state \notin {"C1", "C2"}
         /\ Woken(e) = NoEntry <=> e = NoEntry
         /\ e # NoEntry => Woken(e).nice = e.nice /\ Woken(e).policy = e.policy
<1>1. CASE e.state \in {"C1", "C2"}
  <2>1. e \in Entries /\ e # NoEntry
    BY <1>1 DEF NoEntry
  <2>2. Woken(e) = [e EXCEPT !.state = "active"]
    BY <1>1 DEF Woken
  <2>3. Woken(e) \in Entries /\ Woken(e).state = "active"
    BY <2>1, <2>2 DEF Entries
  <2>4. Woken(e) # NoEntry
    BY <2>3 DEF NoEntry
  <2>5. Woken(e).nice = e.nice /\ Woken(e).policy = e.policy
    BY <2>1, <2>2 DEF Entries
  <2> QED  BY <2>1, <2>3, <2>4, <2>5
<1>2. CASE e.state \notin {"C1", "C2"}
  BY <1>2 DEF Woken
<1> QED  BY <1>1, <1>2

LEMMA BoostLemma ==
  ASSUME NEW p \in Procs, NEW k \in Knobs
  PROVE  Boost(p, k) \in Knobs /\ Boost(p, k).policy = k.policy
<1> DEFINE k2 == [k EXCEPT !.nice = -10, !.mask = "c1"]
<1>0. -10 \in Nices /\ "c1" \in Masks
  BY DEF Nices, Masks
<1>1. k2 \in Knobs /\ k2.policy = k.policy
  BY <1>0 DEF Knobs
<1>2. "10us" \in SlackValues
  BY DEF SlackValues
<1>3. Boost(p, k) = TimerSlack(p, k2, "10us")
  BY DEF Boost
<1> HIDE DEF k2
<1> QED  BY <1>1, <1>2, <1>3, TimerSlackLemma

LEMMA WriteBackLemma ==
  ASSUME NEW s \in Snaps, NEW k \in Knobs
  PROVE  /\ WriteBack(s, k) \in Knobs
         /\ WriteBack(s, k).nice = s.nice
         /\ WriteBack(s, k).policy = s.policy
         /\ WriteBack(s, k).mask = s.mask
         /\ s.slack = Default => WriteBack(s, k).slack = Default
<1> DEFINE k2 == [k EXCEPT !.nice = s.nice, !.policy = s.policy, !.mask = s.mask]
<1>1. /\ k2 \in Knobs
      /\ k2.nice = s.nice /\ k2.policy = s.policy /\ k2.mask = s.mask
  BY DEF Knobs, Snaps
<1>2. s.slack \in SlackValues /\ s.pid \in Procs
  BY DEF Snaps
<1>3. WriteBack(s, k) = TimerSlack(s.pid, k2, s.slack)
  BY DEF WriteBack
<1> HIDE DEF k2
<1> QED  BY <1>1, <1>2, <1>3, TimerSlackLemma

LEMMA CaptureLemma ==
  ASSUME NEW p \in Procs, NEW k \in Knobs
  PROVE  /\ Capture(p, k) \in Snaps
         /\ Capture(p, k) # NoSnap
         /\ Capture(p, k).pid = p
         /\ Capture(p, k).nice = k.nice /\ Capture(p, k).policy = k.policy
         /\ Capture(p, k).mask = k.mask /\ Capture(p, k).slack = k.slack
<1>1. /\ Capture(p, k) \in Snaps /\ Capture(p, k).pid = p
      /\ Capture(p, k).nice = k.nice /\ Capture(p, k).policy = k.policy
      /\ Capture(p, k).mask = k.mask /\ Capture(p, k).slack = k.slack
  BY DEF Capture, Snaps, Knobs
<1>2. NoSnap.pid # p
  BY ConstantsAssumption DEF NoSnap
<1> QED  BY <1>1, <1>2
-----------------------------------------------------------------------------
(* Boosted processes, and the knobs after a release. *)

LEMMA NoSnapBoostsNone ==
  ASSUME NEW p \in Procs
  PROVE  NoSnap.pid # p
BY ConstantsAssumption DEF NoSnap

LEMMA ReleasedLemma ==
  ASSUME Inv, NEW q \in Procs
  PROVE  /\ Released[q] \in Knobs
         /\ Released[q] = KnobsIfReleased(q)
         /\ ~Boosted(q) => Released[q] = knobs[q]
         /\ running => Released[q].mask = "all"
         /\ q \in IdleShielded => Released[q].policy # "IDLE"
         /\ q \notin tainted /\ ~Throttled(q) => AtBase(q, Released[q])
<1>1. knobs[q] \in Knobs
  BY DEF Inv, TypeOK
<1>2. CASE Boosted(q)
  <2>1. snap \in Snaps /\ snap.mask = "all"
    BY <1>2, NoSnapBoostsNone DEF Inv, TypeOK, SnapMask, Engaged, Boosted
  <2>2. Released[q] = WriteBack(snap, knobs[q]) /\ KnobsIfReleased(q) = WriteBack(snap, knobs[q])
    BY <1>2 DEF Released, KnobsIfReleased
  <2>3. /\ Released[q] \in Knobs
        /\ Released[q].mask = "all"
        /\ Released[q].policy = snap.policy
        /\ Released[q].nice = snap.nice
        /\ snap.slack = Default => Released[q].slack = Default
    BY <1>1, <2>1, <2>2, WriteBackLemma
  <2>4. q \in IdleShielded => Released[q].policy # "IDLE"
    BY <1>2, <2>3 DEF Inv, ShieldedRecords
  <2>5. ASSUME q \notin tainted
        PROVE  AtBase(q, Released[q])
    <3>1. /\ snap.nice = Base[q].nice /\ snap.policy = Base[q].policy
          /\ Base[q].slack = Default => snap.slack = Default
      BY <1>2, <2>5 DEF Inv, OriginalsAreBase
    <3> QED  BY <2>3, <3>1, BaseAssumption DEF AtBase
  <2> QED  BY <1>2, <2>2, <2>3, <2>4, <2>5
<1>3. CASE ~Boosted(q)
  <2>1. Released[q] = knobs[q] /\ KnobsIfReleased(q) = knobs[q]
    BY <1>3 DEF Released, KnobsIfReleased
  <2>2. running => knobs[q].mask = "all"
    BY <1>1, <1>3 DEF Inv, MaskOnlyOnFocus, Knobs, Masks
  <2>3. q \in IdleShielded => knobs[q].policy # "IDLE"
    BY DEF Inv, ShieldedNeverIdle
  <2>4. q \notin tainted /\ ~Throttled(q) => AtBase(q, knobs[q])
    BY <1>3 DEF Inv, UnmanagedAtBase, Managed
  <2> QED  BY <1>1, <2>1, <2>2, <2>3, <2>4
<1> QED  BY <1>2, <1>3

(* After ReleaseIf(p), p is not boosted and the focus of others is as it    *)
(* was.                                                                     *)
LEMMA ReleaseIfLemma ==
  ASSUME Inv, NEW p \in Procs, ReleaseIf(p)
  PROVE  /\ snap' \in {NoSnap, snap}
         /\ pinned' \in BOOLEAN
         /\ ~Boosted(p)'
         /\ \A q \in Procs \ {p} : Boosted(q)' = Boosted(q)
         /\ (pinned => Engaged)'
<1>1. CASE Boosted(p)
  BY <1>1, NoSnapBoostsNone DEF ReleaseIf, Boosted
<1>2. CASE ~Boosted(p)
  BY <1>2 DEF ReleaseIf, Boosted, Inv, TypeOK, PinOnlyWhileEngaged, Engaged
<1> QED  BY <1>1, <1>2

-----------------------------------------------------------------------------
(* The invariant split into what concerns the governor and what concerns    *)
(* one process, so that an action that touches one process says so.         *)
Global ==
  /\ running \in BOOLEAN
  /\ entry \in [Procs -> Entries \cup {NoEntry}]
  /\ snap \in Snaps \cup {NoSnap}
  /\ pinned \in BOOLEAN
  /\ knobs \in [Procs -> Knobs]
  /\ profile \in Profiles
  /\ now \in Times
  /\ tainted \subseteq Procs
  /\ ~running => snap = NoSnap
  /\ SnapMask
  /\ PinOnlyWhileEngaged

Local(q) ==
  /\ ~running => entry[q] = NoEntry
  /\ Boosted(q) => ~Throttled(q)
  /\ q \in IdleShielded =>
       /\ entry[q] # NoEntry => entry[q].policy # "IDLE"
       /\ Boosted(q) => snap.policy # "IDLE"
       /\ knobs[q].policy # "IDLE"
  /\ q \notin tainted =>
       /\ entry[q] # NoEntry =>
            entry[q].nice = Base[q].nice /\ entry[q].policy = Base[q].policy
       /\ Boosted(q) =>
            /\ snap.nice = Base[q].nice
            /\ snap.policy = Base[q].policy
            /\ Base[q].slack = Default => snap.slack = Default
       /\ ~Managed(q) => AtBase(q, knobs[q])
  /\ running => (knobs[q].mask = "c1" => Boosted(q))

LEMMA InvSplit == Inv <=> Global /\ \A q \in Procs : Local(q)
<1>1. Inv => Global /\ \A q \in Procs : Local(q)
  BY DEF Inv, Global, Local, TypeOK, DownIsEmpty, FocusIsWoken, ShieldedRecords,
         OriginalsAreBase, MaskOnlyOnFocus, ShieldedNeverIdle, UnmanagedAtBase
<1>2. Global /\ (\A q \in Procs : Local(q)) => Inv
  BY ConstantsAssumption
     DEF Inv, Global, Local, TypeOK, DownIsEmpty, FocusIsWoken, ShieldedRecords,
         OriginalsAreBase, MaskOnlyOnFocus, ShieldedNeverIdle, UnmanagedAtBase
<1> QED  BY <1>1, <1>2

LEMMA InvJoinNext == Global' /\ (\A q \in Procs : Local(q)') => Inv'
BY ConstantsAssumption
   DEF Inv, Global, Local, TypeOK, DownIsEmpty, FocusIsWoken, ShieldedRecords,
       OriginalsAreBase, MaskOnlyOnFocus, ShieldedNeverIdle, UnmanagedAtBase

LEMMA InitInv == Init => Inv
<1> SUFFICES ASSUME Init PROVE Inv
  OBVIOUS
<1>1. Global
  BY BaseAssumption DEF Init, Global, SnapMask, PinOnlyWhileEngaged, Engaged
<1>2. ASSUME NEW q \in Procs PROVE Local(q)
  <2>1. ~Boosted(q) /\ entry[q] = NoEntry /\ knobs[q] = Base[q]
    BY NoSnapBoostsNone DEF Init, Boosted
  <2>2. Base[q].policy = "OTHER" /\ Base[q].mask = "all"
    BY BaseAssumption
  <2> QED  BY <2>1, <2>2 DEF Init, Local, AtBase
<1> QED  BY <1>1, <1>2, InvSplit

(* Actions that change nothing the invariant speaks of but the pin.         *)
LEMMA ReaffirmFocusStep ==
  ASSUME Inv, NEW p \in Procs, Engage(p), ReaffirmFocus(p)
  PROVE  Inv'
<1>1. Global'
  BY InvSplit, NoSnapBoostsNone
     DEF Global, Engage, ReaffirmFocus, Pin, Boosted, SnapMask, PinOnlyWhileEngaged, Engaged
<1>2. ASSUME NEW q \in Procs PROVE Local(q)'
  BY InvSplit DEF Local, Engage, ReaffirmFocus, Boosted, Throttled, Managed, AtBase
<1> QED  BY <1>1, <1>2, InvJoinNext

LEMMA ChangeFocusStep ==
  ASSUME Inv, NEW p \in Procs, Engage(p), ChangeFocus(p)
  PROVE  Inv'
<1> DEFINE k == Boost(p, knobs[p])
<1>1. /\ knobs \in [Procs -> Knobs] /\ knobs[p] \in Knobs
      /\ entry \in [Procs -> Entries \cup {NoEntry}] /\ entry[p] \in Entries \cup {NoEntry}
      /\ Released \in [Procs -> Knobs]
      /\ running /\ ~Boosted(p)
  BY ReleasedLemma DEF Inv, TypeOK, Released, Engage, ChangeFocus
<1>2. /\ snap' \in Snaps /\ snap' # NoSnap /\ snap'.pid = p
      /\ snap'.nice = knobs[p].nice /\ snap'.policy = knobs[p].policy
      /\ snap'.mask = knobs[p].mask /\ snap'.slack = knobs[p].slack
  BY <1>1, CaptureLemma DEF ChangeFocus
<1>3. k \in Knobs /\ k.policy = knobs[p].policy
  BY <1>1, BoostLemma
<1>4. /\ Unthrottle(p, k, entry[p]) \in Knobs
      /\ entry[p].state \notin {"C1", "C2"} => Unthrottle(p, k, entry[p]) = k
      /\ entry[p].state \in {"C1", "C2"} => Unthrottle(p, k, entry[p]).policy = entry[p].policy
  <2> HIDE DEF k
  <2> QED  BY <1>1, <1>3, UnthrottleLemma
<1>5. /\ knobs' \in [Procs -> Knobs]
      /\ knobs'[p] = Unthrottle(p, k, entry[p])
      /\ \A q \in Procs \ {p} : knobs'[q] = Released[q]
  BY <1>1, <1>4 DEF ChangeFocus
<1>6. /\ entry' \in [Procs -> Entries \cup {NoEntry}]
      /\ entry'[p] = Woken(entry[p])
      /\ \A q \in Procs \ {p} : entry'[q] = entry[q]
  BY <1>1, WokenLemma DEF ChangeFocus
<1>7. Global'
  <2>1. knobs[p].mask = "all"
    BY <1>1, ReleasedLemma
  <2>2. tainted' \subseteq Procs /\ pinned' \in BOOLEAN
    BY DEF ChangeFocus, Inv, TypeOK
  <2> QED  BY <1>1, <1>2, <1>5, <1>6, <2>1, <2>2, InvSplit
           DEF Global, Engage, SnapMask, PinOnlyWhileEngaged, Engaged
<1>8. Local(p)'
  <2> HIDE DEF k
  <2>1. Boosted(p)' /\ ~Throttled(p)' /\ running'
    BY <1>1, <1>2, <1>6, WokenLemma DEF Boosted, Throttled, Engage
  <2>2. ASSUME p \in IdleShielded
        PROVE  /\ knobs[p].policy # "IDLE"
               /\ knobs'[p].policy # "IDLE"
               /\ entry'[p] # NoEntry => entry'[p].policy # "IDLE"
    <3>1. knobs[p].policy # "IDLE" /\ (entry[p] # NoEntry => entry[p].policy # "IDLE")
      BY <2>2, InvSplit DEF Local
    <3>2. entry[p].state \in {"C1", "C2"} => entry[p] # NoEntry
      BY DEF NoEntry
    <3> QED  BY <1>1, <1>3, <1>4, <1>5, <1>6, <3>1, <3>2, WokenLemma
  <2>3. ASSUME p \notin tainted'
        PROVE  /\ AtBase(p, knobs[p])
               /\ entry'[p] # NoEntry =>
                    entry'[p].nice = Base[p].nice /\ entry'[p].policy = Base[p].policy
    <3>1. p \notin tainted /\ ~Throttled(p)
      BY <2>3 DEF ChangeFocus
    <3> QED  BY <1>1, <1>6, <3>1, InvSplit, WokenLemma DEF Local, Managed
  <2> QED  BY <1>2, <2>1, <2>2, <2>3 DEF Local, Managed, AtBase
<1>9. ASSUME NEW q \in Procs, q # p
      PROVE  Local(q)'
  <2>1. ~Boosted(q)' /\ Throttled(q)' = Throttled(q) /\ running'
    BY <1>1, <1>2, <1>6, <1>9 DEF Boosted, Throttled, Engage
  <2>2. q \notin tainted' => q \notin tainted
    BY DEF ChangeFocus
  <2>3. knobs'[q] = Released[q] /\ entry'[q] = entry[q]
    BY <1>5, <1>6, <1>9
  <2>4. /\ knobs'[q].mask = "all"
        /\ q \in IdleShielded => knobs'[q].policy # "IDLE"
        /\ q \notin tainted /\ ~Throttled(q) => AtBase(q, knobs'[q])
    BY <1>1, <2>3, ReleasedLemma
  <2>5. Local(q)
    BY InvSplit
  <2> QED  BY <2>1, <2>2, <2>3, <2>4, <2>5 DEF Local, Managed, AtBase
<1> QED  BY <1>7, <1>8, <1>9, InvJoinNext

(* Unfocus and the two minimize actions share a shape: p is released if it  *)
(* was boosted, then its knobs and its entry change, and no other's do.     *)
LEMMA OneProcessStep ==
  ASSUME Inv, NEW p \in Procs,
         running, UNCHANGED <<running, profile, now, tainted>>,
         ReleaseIf(p),
         NEW k \in Knobs, knobs' = [knobs EXCEPT ![p] = k],
         NEW e \in Entries \cup {NoEntry}, entry' = [entry EXCEPT ![p] = e],
         k.mask = "all",
         p \in IdleShielded => k.policy # "IDLE",
         p \in IdleShielded /\ e # NoEntry => e.policy # "IDLE",
         p \notin tainted /\ e # NoEntry =>
           e.nice = Base[p].nice /\ e.policy = Base[p].policy,
         p \notin tainted /\ e.state \notin {"C1", "C2"} => AtBase(p, k)
  PROVE  Inv'
<1>1. /\ knobs' \in [Procs -> Knobs] /\ knobs'[p] = k
      /\ entry' \in [Procs -> Entries \cup {NoEntry}] /\ entry'[p] = e
      /\ \A q \in Procs \ {p} : knobs'[q] = knobs[q] /\ entry'[q] = entry[q]
  BY DEF Inv, TypeOK
<1>2. /\ snap' \in {NoSnap, snap}
      /\ pinned' \in BOOLEAN
      /\ ~Boosted(p)'
      /\ \A q \in Procs \ {p} : Boosted(q)' = Boosted(q)
      /\ (pinned => Engaged)'
  BY ReleaseIfLemma
<1>3. Global'
  BY <1>1, <1>2, InvSplit DEF Global, SnapMask, PinOnlyWhileEngaged, Engaged
<1>4. Local(p)'
  BY <1>1, <1>2 DEF Local, Managed, Throttled, AtBase
<1>5. ASSUME NEW q \in Procs, q # p
      PROVE  Local(q)'
  <2>1. Boosted(q)' => snap' = snap
    BY <1>2, NoSnapBoostsNone DEF Boosted
  <2>2. /\ knobs'[q] = knobs[q] /\ entry'[q] = entry[q] /\ Boosted(q)' = Boosted(q)
        /\ Throttled(q)' = Throttled(q)
    BY <1>1, <1>2, <1>5 DEF Throttled
  <2>3. Local(q)
    BY InvSplit
  <2> QED  BY <2>1, <2>2, <2>3 DEF Local, Managed, AtBase
<1> QED  BY <1>3, <1>4, <1>5, InvJoinNext

LEMMA UnfocusStep ==
  ASSUME Inv, NEW p \in Procs, Unfocus(p)
  PROVE  Inv'
<1> DEFINE k0 == KnobsIfReleased(p)
           k == Unthrottle(p, k0, entry[p])
           e == Woken(entry[p])
<1>1. entry[p] \in Entries \cup {NoEntry} /\ running
  BY DEF Inv, TypeOK, Unfocus
<1>2. /\ k0 \in Knobs /\ k0.mask = "all"
      /\ p \in IdleShielded => k0.policy # "IDLE"
      /\ p \notin tainted /\ ~Throttled(p) => AtBase(p, k0)
  BY <1>1, ReleasedLemma
<1>3. knobs' = [knobs EXCEPT ![p] = k] /\ entry' = [entry EXCEPT ![p] = e]
  BY DEF Unfocus
<1> HIDE DEF k0
<1>4. /\ k \in Knobs /\ k.mask = "all"
      /\ ~Throttled(p) => k = k0
      /\ Throttled(p) => /\ entry[p] \in Entries /\ entry[p] # NoEntry
                         /\ k.nice = entry[p].nice /\ k.policy = entry[p].policy
                         /\ k.slack = Default
  BY <1>1, <1>2, UnthrottleLemma DEF Throttled, NoEntry
<1>5. /\ e \in Entries \cup {NoEntry} /\ e.state \notin {"C1", "C2"}
      /\ e = NoEntry <=> entry[p] = NoEntry
      /\ e # NoEntry => e.nice = entry[p].nice /\ e.policy = entry[p].policy
  BY <1>1, WokenLemma
<1> HIDE DEF k, e
<1>6. p \in IdleShielded =>
        k.policy # "IDLE" /\ (e # NoEntry => e.policy # "IDLE")
  BY <1>2, <1>4, <1>5, InvSplit DEF Local
<1>7. p \notin tainted /\ e # NoEntry => e.nice = Base[p].nice /\ e.policy = Base[p].policy
  BY <1>5, InvSplit DEF Local
<1>8. p \notin tainted => AtBase(p, k)
  <2>1. CASE ~Throttled(p)
    BY <1>2, <1>4, <2>1
  <2>2. CASE Throttled(p)
    BY <1>4, <2>2, InvSplit, BaseAssumption DEF Local, AtBase
  <2> QED  BY <2>1, <2>2
<1>9. ReleaseIf(p) /\ UNCHANGED <<running, profile, now, tainted>>
  BY DEF Unfocus
<1> QED  BY <1>1, <1>3, <1>4, <1>5, <1>6, <1>7, <1>8, <1>9, OneProcessStep

LEMMA MinimizeUntrackedStep ==
  ASSUME Inv, NEW p \in Procs, MinimizeUntracked(p)
  PROVE  Inv'
<1>1. running /\ entry[p] = NoEntry /\ ~Throttled(p)
  BY DEF MinimizeUntracked, Throttled, NoEntry
<1>2. /\ KnobsIfReleased(p) \in Knobs /\ KnobsIfReleased(p).mask = "all"
      /\ p \in IdleShielded => KnobsIfReleased(p).policy # "IDLE"
      /\ p \notin tainted => AtBase(p, KnobsIfReleased(p))
  BY <1>1, ReleasedLemma
<1>3. entry' = [entry EXCEPT ![p] = NoEntry]
  BY <1>1 DEF MinimizeUntracked, Inv, TypeOK
<1>4. /\ knobs' = [knobs EXCEPT ![p] = KnobsIfReleased(p)]
      /\ ReleaseIf(p) /\ UNCHANGED <<running, profile, now, tainted>>
  BY DEF MinimizeUntracked
<1> QED  BY <1>1, <1>2, <1>3, <1>4, OneProcessStep

LEMMA MinimizeStep ==
  ASSUME Inv, NEW p \in Procs, NEW audio \in BOOLEAN, Minimize(p, audio)
  PROVE  Inv'
<1> DEFINE k0 == KnobsIfReleased(p)
           e0 == EntryFor(p, k0, audio)
           stage == StageOnMinimize(e0)
           k == Throttle(p, k0, e0, stage)
           e == [e0 EXCEPT !.state = stage]
<1>1. entry[p] \in Entries \cup {NoEntry} /\ now \in Times /\ running
  BY DEF Inv, TypeOK, Minimize
<1>2. /\ k0 \in Knobs /\ k0.mask = "all"
      /\ p \in IdleShielded => k0.policy # "IDLE"
      /\ p \notin tainted /\ ~Throttled(p) => AtBase(p, k0)
  BY <1>1, ReleasedLemma
<1>3. knobs' = [knobs EXCEPT ![p] = k] /\ entry' = [entry EXCEPT ![p] = e]
  BY DEF Minimize
<1> HIDE DEF k0
<1>4. /\ e0 \in Entries
      /\ p \in IdleShielded => e0.policy # "IDLE"
      /\ p \notin tainted => e0.nice = Base[p].nice /\ e0.policy = Base[p].policy
  <2>1. CASE entry[p] = NoEntry
    <3>1. ~Throttled(p)
      BY <2>1 DEF Throttled, NoEntry
    <3>2. /\ e0 \in Entries
          /\ e0.nice = k0.nice /\ e0.policy = k0.policy
      BY <1>1, <1>2, <2>1 DEF EntryFor, Entries, Knobs
    <3> QED  BY <1>2, <3>1, <3>2 DEF AtBase
  <2>2. CASE entry[p] # NoEntry
    <3>1. entry[p] \in Entries
      BY <1>1, <2>2
    <3>2. /\ e0 \in Entries
          /\ e0.nice = entry[p].nice /\ e0.policy = entry[p].policy
      BY <1>1, <2>2, <3>1 DEF EntryFor, Entries
    <3> QED  BY <2>2, <3>2, InvSplit DEF Local
  <2> QED  BY <2>1, <2>2
<1> HIDE DEF e0
<1>5. stage \in {"C1", "C2"}
  BY <1>4 DEF StageOnMinimize, Entries
<1> HIDE DEF stage
<1>6. /\ e \in Entries /\ e # NoEntry /\ e.state \in {"C1", "C2"}
      /\ e.nice = e0.nice /\ e.policy = e0.policy
  BY <1>4, <1>5 DEF Entries, NoEntry
<1>7. /\ k \in Knobs /\ k.mask = "all"
      /\ p \in IdleShielded => k.policy # "IDLE"
  <2>1. CASE stage = e0.state
    BY <1>2, <2>1 DEF Throttle
  <2>2. CASE stage # e0.state /\ stage = "C2"
    BY <1>2, <2>2, DeepThrottleLemma DEF Throttle
  <2>3. CASE stage # e0.state /\ stage = "C1"
    <3>1. e0.nice \in Nices
      BY <1>4 DEF Entries
    <3> QED  BY <1>2, <2>3, <3>1, SoftThrottleLemma DEF Throttle
  <2> QED  BY <1>5, <2>1, <2>2, <2>3
<1>8. ReleaseIf(p) /\ UNCHANGED <<running, profile, now, tainted>>
  BY DEF Minimize
<1> HIDE DEF k, e
<1> QED  BY <1>1, <1>3, <1>4, <1>6, <1>7, <1>8, OneProcessStep

LEMMA EvaluateHysteresisStep ==
  ASSUME Inv, EvaluateHysteresis
  PROVE  Inv'
<1>1. ASSUME NEW q \in Procs, Due(q)
      PROVE  /\ entry[q] \in Entries /\ Throttled(q)
             /\ [entry[q] EXCEPT !.state = "C2"] \in Entries
             /\ DeepThrottle(q, knobs[q]) \in Knobs
             /\ DeepThrottle(q, knobs[q]).mask = knobs[q].mask
             /\ q \in IdleShielded => DeepThrottle(q, knobs[q]).policy = knobs[q].policy
  <2>1. entry[q] \in Entries \cup {NoEntry} /\ entry[q].state = "C1" /\ knobs[q] \in Knobs
    BY <1>1 DEF Inv, TypeOK, Due
  <2>2. entry[q] \in Entries
    BY <2>1 DEF NoEntry
  <2> QED  BY <2>1, <2>2, DeepThrottleLemma DEF Throttled, Entries
<1>2. Global'
  <2>1. entry' \in [Procs -> Entries \cup {NoEntry}] /\ knobs' \in [Procs -> Knobs]
    BY <1>1 DEF EvaluateHysteresis, Inv, TypeOK
  <2> QED  BY <2>1, InvSplit
           DEF EvaluateHysteresis, Global, SnapMask, PinOnlyWhileEngaged, Engaged
<1>3. ASSUME NEW q \in Procs
      PROVE  Local(q)'
  <2>1. Local(q) /\ Boosted(q)' = Boosted(q) /\ running' = running /\ tainted' = tainted
        /\ snap' = snap
    BY InvSplit DEF EvaluateHysteresis, Boosted
  <2>2. CASE ~Due(q)
    <3>1. knobs'[q] = knobs[q] /\ entry'[q] = entry[q]
      BY <2>2 DEF EvaluateHysteresis
    <3> QED  BY <2>1, <3>1 DEF Local, Managed, Throttled, AtBase
  <2>3. CASE Due(q)
    <3>1. /\ knobs'[q] = DeepThrottle(q, knobs[q])
          /\ entry'[q] = [entry[q] EXCEPT !.state = "C2"]
      BY <2>3 DEF EvaluateHysteresis
    <3>2. /\ Throttled(q) /\ Throttled(q)' /\ entry[q] # NoEntry
          /\ entry'[q].nice = entry[q].nice /\ entry'[q].policy = entry[q].policy
          /\ knobs'[q].mask = knobs[q].mask
          /\ q \in IdleShielded => knobs'[q].policy = knobs[q].policy
      BY <1>1, <2>3, <3>1 DEF Throttled, Entries, NoEntry
    <3>3. running
      BY DEF EvaluateHysteresis
    <3> QED  BY <2>1, <3>2, <3>3 DEF Local, Managed
  <2> QED  BY <2>2, <2>3
<1> QED  BY <1>2, <1>3, InvJoinNext

LEMMA StopStep ==
  ASSUME Inv, Stop
  PROVE  Inv'
<1>1. ASSUME NEW q \in Procs
      PROVE  /\ knobs'[q] \in Knobs
             /\ q \in IdleShielded => knobs'[q].policy # "IDLE"
             /\ q \notin tainted => AtBase(q, knobs'[q])
  <2>1. /\ knobs'[q] = Unthrottle(q, Released[q], entry[q])
        /\ running /\ entry[q] \in Entries \cup {NoEntry} /\ Local(q)
    BY InvSplit DEF Stop, RollbackAll, Inv, TypeOK
  <2>2. /\ Released[q] \in Knobs
        /\ Released[q].mask = "all"
        /\ q \in IdleShielded => Released[q].policy # "IDLE"
        /\ q \notin tainted /\ ~Throttled(q) => AtBase(q, Released[q])
    BY <2>1, ReleasedLemma
  <2>3. CASE ~Throttled(q)
    BY <2>1, <2>2, <2>3, UnthrottleLemma DEF Throttled
  <2>4. CASE Throttled(q)
    <3>1. entry[q] # NoEntry
      BY <2>4 DEF Throttled, NoEntry
    <3> QED  BY <2>1, <2>2, <2>4, <3>1, UnthrottleLemma, BaseAssumption
             DEF Throttled, Local, AtBase
  <2> QED  BY <2>3, <2>4
<1>2. /\ snap' = NoSnap /\ pinned' = FALSE /\ running' = FALSE
      /\ entry' = [p \in Procs |-> NoEntry]
      /\ tainted' = tainted /\ profile' = profile /\ now' = now
  BY DEF Stop, RollbackAll
<1>3. Global'
  <2>1. knobs' \in [Procs -> Knobs]
    BY <1>1 DEF Stop, RollbackAll
  <2> QED  BY <1>2, <2>1, InvSplit DEF Global, SnapMask, PinOnlyWhileEngaged, Engaged
<1>4. ASSUME NEW q \in Procs
      PROVE  Local(q)'
  <2>1. ~Boosted(q)' /\ entry'[q] = NoEntry
    BY <1>2, NoSnapBoostsNone DEF Boosted
  <2> QED  BY <1>1, <1>2, <2>1 DEF Local, AtBase
<1> QED  BY <1>3, <1>4, InvJoinNext

LEMMA CrashStep ==
  ASSUME Inv, Crash
  PROVE  Inv'
<1>1. Global'
  BY InvSplit DEF Crash, Global, SnapMask, PinOnlyWhileEngaged, Engaged
<1>2. ASSUME NEW q \in Procs
      PROVE  Local(q)'
  <2>1. ~Boosted(q)' /\ entry'[q] = NoEntry /\ ~running' /\ knobs' = knobs
    BY NoSnapBoostsNone DEF Crash, Boosted
  <2>2. q \notin tainted' => q \notin tainted /\ ~Managed(q)
    BY DEF Crash
  <2> QED  BY <2>1, <2>2, InvSplit DEF Local, AtBase
<1> QED  BY <1>1, <1>2, InvJoinNext

LEMMA StartStep ==
  ASSUME Inv, Start
  PROVE  Inv'
<1>1. ASSUME NEW q \in Procs
      PROVE  /\ knobs'[q] \in Knobs /\ knobs'[q].mask = "all"
             /\ knobs'[q].nice = knobs[q].nice /\ knobs'[q].policy = knobs[q].policy
             /\ knobs'[q].slack = knobs[q].slack
  <2>1. knobs[q] \in Knobs /\ knobs'[q] = [knobs[q] EXCEPT !.mask = "all"]
    BY DEF Start, RepairMasks, Inv, TypeOK
  <2> QED  BY <2>1 DEF Knobs, Masks
<1>2. Global'
  <2>1. knobs' \in [Procs -> Knobs]
    BY <1>1 DEF Start, RepairMasks
  <2> QED  BY <2>1, InvSplit DEF Start, Global, SnapMask, PinOnlyWhileEngaged, Engaged
<1>3. ASSUME NEW q \in Procs
      PROVE  Local(q)'
  <2>1. /\ ~Boosted(q) /\ ~Boosted(q)' /\ entry[q] = NoEntry /\ entry'[q] = NoEntry
        /\ tainted' = tainted /\ Local(q)
    BY InvSplit, NoSnapBoostsNone DEF Start, Global, Local, Boosted
  <2>2. ~Managed(q)
    BY <2>1 DEF Managed, Throttled, NoEntry
  <2> QED  BY <1>1, <2>1, <2>2, BaseAssumption DEF Local, AtBase
<1> QED  BY <1>2, <1>3, InvJoinNext

LEMMA RecycleStep ==
  ASSUME Inv, NEW p \in Procs, Recycle(p)
  PROVE  Inv'
<1>1. /\ knobs' \in [Procs -> Knobs] /\ knobs'[p] = Base[p]
      /\ \A q \in Procs \ {p} : knobs'[q] = knobs[q]
  BY BaseAssumption DEF Recycle, Inv, TypeOK
<1>2. UNCHANGED <<running, entry, snap, pinned, profile, now>>
  BY DEF Recycle
<1>3. Global'
  BY <1>1, <1>2, InvSplit DEF Recycle, Global, SnapMask, PinOnlyWhileEngaged, Engaged
<1>4. Local(p)'
  <2>1. Base[p].policy = "OTHER" /\ Base[p].mask = "all"
    BY BaseAssumption
  <2>2. p \notin tainted' => ~Boosted(p) /\ entry[p] = NoEntry
    BY DEF Recycle
  <2>3. Boosted(p)' = Boosted(p) /\ Throttled(p)' = Throttled(p)
    BY <1>2 DEF Boosted, Throttled
  <2> QED  BY <1>1, <1>2, <2>1, <2>2, <2>3, InvSplit DEF Local, AtBase
<1>5. ASSUME NEW q \in Procs, q # p
      PROVE  Local(q)'
  <2>1. q \notin tainted' => q \notin tainted
    BY <1>5 DEF Recycle
  <2>2. /\ Boosted(q)' = Boosted(q) /\ Throttled(q)' = Throttled(q)
        /\ knobs'[q] = knobs[q]
    BY <1>1, <1>2, <1>5 DEF Boosted, Throttled
  <2> QED  BY <1>2, <2>1, <2>2, InvSplit DEF Local, Managed, AtBase
<1> QED  BY <1>3, <1>4, <1>5, InvJoinNext

(* Nothing the invariant relates changes: the profile, the clock, or a      *)
(* stutter.                                                                 *)
LEMMA QuietStep ==
  ASSUME Inv, SetProfile \/ ClockStep \/ UNCHANGED vars
  PROVE  Inv'
<1>1. /\ UNCHANGED <<running, entry, snap, pinned, knobs, tainted>>
      /\ profile' \in Profiles /\ now' \in Times
  BY DEF Inv, TypeOK, SetProfile, ClockStep, vars
<1>2. Global'
  BY <1>1, InvSplit DEF Global, SnapMask, PinOnlyWhileEngaged, Engaged
<1>3. ASSUME NEW q \in Procs PROVE Local(q)'
  BY <1>1, InvSplit DEF Local, Managed, Boosted, Throttled, AtBase
<1> QED  BY <1>2, <1>3, InvJoinNext

LEMMA NextInv == Inv /\ [Next]_vars => Inv'
<1> SUFFICES ASSUME Inv, [Next]_vars PROVE Inv'
  OBVIOUS
<1>1. ASSUME NEW p \in Procs, Engage(p) PROVE Inv'
  BY <1>1, ReaffirmFocusStep, ChangeFocusStep DEF Engage
<1>2. ASSUME NEW p \in Procs, Unfocus(p) PROVE Inv'
  BY <1>2, UnfocusStep
<1>3. ASSUME NEW p \in Procs, MinimizeUntracked(p) PROVE Inv'
  BY <1>3, MinimizeUntrackedStep
<1>4. ASSUME NEW p \in Procs, NEW audio \in BOOLEAN, Minimize(p, audio) PROVE Inv'
  BY <1>4, MinimizeStep
<1>5. ASSUME NEW p \in Procs, Recycle(p) PROVE Inv'
  BY <1>5, RecycleStep
<1>6. CASE EvaluateHysteresis
  BY <1>6, EvaluateHysteresisStep
<1>7. CASE Stop
  BY <1>7, StopStep
<1>8. CASE Crash
  BY <1>8, CrashStep
<1>9. CASE Start
  BY <1>9, StartStep
<1>10. CASE SetProfile \/ ClockStep \/ UNCHANGED vars
  BY <1>10, QuietStep
<1> QED  BY <1>1, <1>2, <1>3, <1>4, <1>5, <1>6, <1>7, <1>8, <1>9, <1>10 DEF Next, WindowCommand

-----------------------------------------------------------------------------
(* The inductive invariant holds in every reachable state. *)
LEMMA InvHolds == Spec => []Inv
BY InitInv, NextInv, PTL DEF Spec

(* Every variable keeps its type: in particular no nice value leaves        *)
(* -20..19, whatever nice value a process came with.                        *)
THEOREM TypeCorrect == Spec => []TypeOK
<1>1. Inv => TypeOK
  BY DEF Inv
<1> QED  BY <1>1, InvHolds, PTL

(* A running daemon leaves the boost mask on no process but the focused     *)
(* one, across focus changes, kills and restarts.                           *)
THEOREM MaskIsExclusive == Spec => []MaskOnlyOnFocus
<1>1. Inv => MaskOnlyOnFocus
  BY DEF Inv
<1> QED  BY <1>1, InvHolds, PTL

(* The latency clamp never outlives the engagement.                         *)
THEOREM PinIsScoped == Spec => []PinOnlyWhileEngaged
<1>1. Inv => PinOnlyWhileEngaged
  BY DEF Inv
<1> QED  BY <1>1, InvHolds, PTL

(* A process that was not engaged while throttled, orphaned by a kill or    *)
(* recycled on record gets back exactly what it came with once the governor *)
(* lets go of it.                                                           *)
THEOREM OriginalsAreRestored == Spec => []UnmanagedAtBase
<1>1. Inv => UnmanagedAtBase
  BY DEF Inv
<1> QED  BY <1>1, InvHolds, PTL

(* No sequence of events demotes a shielded process to the idle class.      *)
THEOREM ShieldHolds == Spec => []ShieldedNeverIdle
<1>1. Inv => ShieldedNeverIdle
  BY DEF Inv
<1> QED  BY <1>1, InvHolds, PTL

(* A step that puts a window in C2 found its wait over, or the profile      *)
(* without a wait, and no audio.                                            *)
LEMMA DeepenStep ==
  ASSUME Inv, [Next]_vars, NEW p \in Procs,
         entry[p].state # "C2", entry'[p].state = "C2"
  PROVE  ~entry'[p].audio /\ (Due(p) \/ Threshold[profile] = 0)
<1>1. entry \in [Procs -> Entries \cup {NoEntry}] /\ entry[p] \in Entries \cup {NoEntry}
  BY DEF Inv, TypeOK
<1>2. ASSUME NEW q \in Procs, NEW audio \in BOOLEAN, Minimize(q, audio)
      PROVE  ~entry'[p].audio /\ Threshold[profile] = 0
  <2> DEFINE e0 == EntryFor(q, KnobsIfReleased(q), audio)
  <2>1. entry' = [entry EXCEPT ![q] = [e0 EXCEPT !.state = StageOnMinimize(e0)]]
    BY <1>2 DEF Minimize
  <2>2. p = q
    BY <1>1, <2>1
  <2>3. e0 \in Entries /\ e0.state # "C2"
    <3>1. KnobsIfReleased(q) \in Knobs /\ now \in Times
      BY ReleasedLemma DEF Inv, TypeOK
    <3> HIDE DEF e0
    <3>2. CASE entry[q] = NoEntry
      <4>1. e0 = [state |-> "active", since |-> now, audio |-> audio,
                  nice |-> KnobsIfReleased(q).nice, policy |-> KnobsIfReleased(q).policy]
        BY <3>2 DEF e0, EntryFor
      <4> QED  BY <3>1, <4>1 DEF Entries, Knobs
    <3>3. CASE entry[q] # NoEntry
      <4>1. e0 = [entry[q] EXCEPT !.audio = audio,
                    !.since = IF entry[q].state = "active" THEN now ELSE @]
        BY <3>3 DEF e0, EntryFor
      <4>2. entry[q] \in Entries /\ entry[q].state # "C2"
        BY <1>1, <2>2, <3>3
      <4> QED  BY <3>1, <4>1, <4>2 DEF Entries
    <3> QED  BY <3>2, <3>3
  <2> HIDE DEF e0
  <2>4. entry'[p].state = StageOnMinimize(e0) /\ entry'[p].audio = e0.audio
    BY <1>1, <2>1, <2>2, <2>3 DEF Entries
  <2> QED  BY <2>3, <2>4 DEF StageOnMinimize
<1>3. CASE EvaluateHysteresis
  <2>1. Due(p) /\ entry'[p] = [entry[p] EXCEPT !.state = "C2"]
    BY <1>3 DEF EvaluateHysteresis
  <2>2. entry[p] \in Entries
    BY <1>1, <2>1 DEF Due, NoEntry
  <2> QED  BY <2>1, <2>2 DEF Due, Entries
<1>4. ASSUME NEW q \in Procs, Engage(q) \/ Unfocus(q)
      PROVE  FALSE
  <2>1. entry' = entry \/ entry' = [entry EXCEPT ![q] = Woken(@)]
    BY <1>4 DEF Engage, ReaffirmFocus, ChangeFocus, Unfocus
  <2>2. entry[q] \in Entries \cup {NoEntry} /\ Woken(entry[q]).state # "C2"
    BY <1>1, WokenLemma
  <2> QED  BY <1>1, <2>1, <2>2
<1>5. ASSUME Stop \/ Crash
      PROVE  FALSE
  BY <1>5 DEF Stop, RollbackAll, Crash, NoEntry
<1>6. ASSUME entry' = entry
      PROVE  FALSE
  BY <1>6
<1>7. ASSUME NEW q \in Procs, MinimizeUntracked(q) \/ Recycle(q)
      PROVE  FALSE
  BY <1>6, <1>7 DEF MinimizeUntracked, Recycle
<1>8. ASSUME Start \/ SetProfile \/ ClockStep \/ UNCHANGED vars
      PROVE  FALSE
  BY <1>6, <1>8 DEF Start, SetProfile, ClockStep, vars
<1> QED  BY <1>2, <1>3, <1>4, <1>5, <1>7, <1>8 DEF Next, WindowCommand

(* Stage 2 is only ever entered on evidence.                                *)
THEOREM DeepeningIsDue == Spec => DeepensOnlyWhenDue
<1>1. Inv /\ [Next]_vars =>
        [\A p \in Procs :
           entry[p].state # "C2" /\ entry'[p].state = "C2" =>
             /\ ~entry'[p].audio
             /\ Due(p) \/ Threshold[profile] = 0]_vars
  BY DeepenStep
<1> QED  BY <1>1, InvHolds, PTL DEF Spec, DeepensOnlyWhenDue

=============================================================================
