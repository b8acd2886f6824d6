---------------------- MODULE TelemetrySeqlock_proofs ----------------------
(***************************************************************************)
(* Proofs about TelemetrySeqlock for any number of readers, fields,        *)
(* updates and retries.  The heart of the argument is CopyInv: as long as  *)
(* the version a read began at has not moved, every field copied so far    *)
(* is the field in memory, because a writer at work keeps the version odd  *)
(* and above every even version it has passed.                             *)
(***************************************************************************)
EXTENDS TelemetrySeqlock, TLAPS

(* Nothing is left to store between updates, and a dead daemon stores nothing. *)
IdleInv == (wpc = "idle" => todo = {}) /\ (~up => wpc = "idle")

(* The version is even exactly between updates, and then memory holds the  *)
(* published record - unless a kill left an update unfinished.              *)
VersionInv ==
  trusted => /\ wpc = "idle" => ~Odd(seq) /\ mem = stable
             /\ wpc = "storing" => ~Odd(ver) /\ seq = ver + 1

DuringInv(r) ==
  /\ rpc[r] = "idle" <=> during[r] = {}
  /\ rpc[r] # "idle" => stable \in during[r]

CopyInv(r) ==
  rpc[r] = "copy" =>
    /\ ~Odd(v1[r])
    /\ trusted => v1[r] <= seq
    /\ trusted /\ v1[r] = seq => \A f \in Fields \ left[r] : buf[r][f] = mem[f]

CalmInv(r) ==
  trusted /\ calm[r] =>
    /\ rpc[r] # "idle" => wpc = "idle"
    /\ rpc[r] = "load" => tries[r] = 0
    /\ rpc[r] = "copy" => v1[r] = seq

ReaderInv == \A r \in Readers : DuringInv(r) /\ CopyInv(r) /\ CalmInv(r)

Inv == TypeOK /\ IdleInv /\ VersionInv /\ ReaderInv

-----------------------------------------------------------------------------
(* Consecutive versions have opposite parity. *)
LEMMA Parity ==
  ASSUME NEW v \in Nat
  PROVE  /\ ~Odd(v) => Odd(v + 1)
         /\ ~Odd(v) => ~Odd(v + 2)
BY DEF Odd

LEMMA InitInv == Init => Inv
<1> SUFFICES ASSUME Init
             PROVE  Inv
  OBVIOUS
<1>1. mem \in Records /\ stable \in Records
  BY BoundsAssumption DEF Init, Records
<1>2. TypeOK
  <2>1. buf \in [Readers -> Records] /\ tries \in [Readers -> 0..MaxRetries]
    BY BoundsAssumption DEF Init, Records
  <2>2. stamp \in 0..MaxUpdates
    BY BoundsAssumption DEF Init
  <2> QED BY <1>1, <2>1, <2>2 DEF Init, TypeOK
<1>3. IdleInv /\ VersionInv
  BY DEF Init, IdleInv, VersionInv, Odd
<1>4. ReaderInv
  BY DEF Init, ReaderInv, DuringInv, CopyInv, CalmInv
<1> QED BY <1>2, <1>3, <1>4 DEF Inv

-----------------------------------------------------------------------------
(* The daemon's steps. *)

LEMMA StartStep ==
  ASSUME Inv, Start
  PROVE  Inv'
BY DEF Inv, Start, TypeOK, reader, IdleInv, VersionInv, ReaderInv, DuringInv, CopyInv, CalmInv

LEMMA BeginStep ==
  ASSUME Inv, NEW shape \in Shapes, BeginUpdate(shape)
  PROVE  Inv'
<1> USE DEF Inv
<1>1. TypeOK'
  BY ShapesAssumption, BoundsAssumption DEF BeginUpdate, TypeOK, reader
<1>2. IdleInv'
  BY DEF BeginUpdate, IdleInv
<1>3. VersionInv'
  BY Parity DEF BeginUpdate, VersionInv, TypeOK
<1>4. ASSUME NEW r \in Readers
      PROVE  (DuringInv(r) /\ CopyInv(r) /\ CalmInv(r))'
  <2>1. DuringInv(r)'
    BY DEF BeginUpdate, ReaderInv, DuringInv, reader
  <2>2. CopyInv(r)'
    <3>1. CopyInv(r) /\ v1[r] \in Nat /\ seq \in Nat
      BY DEF ReaderInv, TypeOK
    <3> QED BY <3>1 DEF BeginUpdate, CopyInv, reader
  <2>3. CalmInv(r)'
    BY DEF BeginUpdate, CalmInv
  <2> QED BY <2>1, <2>2, <2>3
<1> QED BY <1>1, <1>2, <1>3, <1>4 DEF ReaderInv

LEMMA StoreStep ==
  ASSUME Inv, NEW f \in Fields, StoreField(f)
  PROVE  Inv'
<1> USE DEF Inv
<1>1. TypeOK'
  BY DEF StoreField, TypeOK, Records, reader
<1>2. wpc = "storing" /\ wpc' = wpc
  BY DEF StoreField, IdleInv, TypeOK
<1>3. IdleInv' /\ VersionInv'
  BY <1>2 DEF StoreField, IdleInv, VersionInv
<1>4. ASSUME NEW r \in Readers
      PROVE  (DuringInv(r) /\ CopyInv(r) /\ CalmInv(r))'
  <2>1. DuringInv(r)' /\ CalmInv(r)'
    BY <1>2 DEF StoreField, ReaderInv, DuringInv, CalmInv, reader
  <2>2. trusted => Odd(seq)
    BY <1>2, Parity DEF VersionInv, TypeOK
  <2>3. CopyInv(r)'
    (* An even version was loaded, so it is not the odd one of now. *)
    BY <2>2 DEF StoreField, ReaderInv, CopyInv, reader
  <2> QED BY <2>1, <2>3
<1> QED BY <1>1, <1>3, <1>4 DEF ReaderInv

LEMMA EndStep ==
  ASSUME Inv, EndUpdate
  PROVE  Inv'
<1> USE DEF Inv
<1>1. TypeOK'
  BY DEF EndUpdate, TypeOK, reader
<1>2. IdleInv'
  BY DEF EndUpdate, IdleInv
<1>3. VersionInv'
  BY Parity DEF EndUpdate, VersionInv, TypeOK
<1>4. ASSUME NEW r \in Readers
      PROVE  (DuringInv(r) /\ CopyInv(r) /\ CalmInv(r))'
  <2>1. DuringInv(r)'
    BY DEF EndUpdate, ReaderInv, DuringInv, reader
  <2>2. CopyInv(r)'
    <3>1. CopyInv(r) /\ v1[r] \in Nat /\ seq \in Nat /\ ver \in Nat
      BY DEF ReaderInv, TypeOK
    <3>2. trusted => seq' = seq + 1
      BY <3>1 DEF EndUpdate, VersionInv
    <3> QED BY <3>1, <3>2 DEF EndUpdate, CopyInv, reader
  <2>3. CalmInv(r)'
    BY DEF EndUpdate, ReaderInv, CalmInv, DuringInv, reader
  <2> QED BY <2>1, <2>2, <2>3
<1> QED BY <1>1, <1>2, <1>3, <1>4 DEF ReaderInv

LEMMA DieStep ==
  ASSUME Inv, Die
  PROVE  Inv'
<1> USE DEF Inv
<1>1. TypeOK'
  BY DEF Die, TypeOK, reader
<1>2. IdleInv' /\ VersionInv'
  BY DEF Die, IdleInv, VersionInv
<1>3. ReaderInv'
  BY DEF Die, ReaderInv, DuringInv, CopyInv, CalmInv, reader
<1> QED BY <1>1, <1>2, <1>3

-----------------------------------------------------------------------------
(* The readers' steps.  A step of one reader leaves the others' invariants  *)
(* alone.                                                                   *)

LEMMA OthersUntouched ==
  ASSUME Inv, NEW r \in Readers, Call(r) \/ Advance(r), NEW q \in Readers, q # r
  PROVE  (DuringInv(q) /\ CopyInv(q) /\ CalmInv(q))'
<1>1. UNCHANGED <<seq, mem, wpc, stable, trusted>>
  BY DEF Call, Advance, LoadVersion, Accept, RetryStale, GiveUp, CopyField, writer
<1>2. UNCHANGED <<rpc[q], tries[q], v1[q], left[q], during[q], calm[q], buf[q]>>
  <2> USE DEF Inv, TypeOK
  <2>1. CASE Call(r)
    BY <2>1 DEF Call
  <2>2. CASE LoadVersion(r)
    BY <2>2 DEF LoadVersion
  <2>3. CASE Accept(r) \/ RetryStale(r) \/ GiveUp(r)
    BY <2>3 DEF Accept, RetryStale, GiveUp
  <2>4. ASSUME NEW f \in Fields, CopyField(r, f)
        PROVE  UNCHANGED <<rpc[q], tries[q], v1[q], left[q], during[q], calm[q], buf[q]>>
    BY <2>4 DEF CopyField
  <2> QED BY <2>1, <2>2, <2>3, <2>4 DEF Advance
<1> QED BY <1>1, <1>2 DEF Inv, ReaderInv, DuringInv, CopyInv, CalmInv

LEMMA ReaderStep ==
  ASSUME Inv, NEW r \in Readers, Call(r) \/ Advance(r)
  PROVE  Inv'
<1> USE DEF Inv
<1>1. DuringInv(r) /\ CopyInv(r) /\ CalmInv(r)
  BY DEF ReaderInv
<1>2. UNCHANGED <<writer, stable, trusted>>
  BY DEF Call, Advance, LoadVersion, Accept, RetryStale, GiveUp, CopyField
<1>3. IdleInv' /\ VersionInv'
  BY <1>2 DEF writer, IdleInv, VersionInv
<1>4. CASE Call(r)
  <2>1. TypeOK'
    BY <1>4, BoundsAssumption DEF Call, TypeOK, writer
  <2>2. (DuringInv(r) /\ CopyInv(r) /\ CalmInv(r))'
    BY <1>4 DEF Call, TypeOK, writer, DuringInv, CopyInv, CalmInv
  <2> QED BY <1>3, <1>4, <2>1, <2>2, OthersUntouched DEF ReaderInv
<1>5. CASE LoadVersion(r)
  <2>1. TypeOK'
    BY <1>5, BoundsAssumption DEF LoadVersion, TypeOK, writer
  <2>2. (DuringInv(r) /\ CopyInv(r) /\ CalmInv(r))'
    BY <1>1, <1>5 DEF LoadVersion, TypeOK, writer, VersionInv, DuringInv, CopyInv, CalmInv
  <2> QED BY <1>3, <1>5, <2>1, <2>2, OthersUntouched DEF ReaderInv, Advance
<1>6. CASE Accept(r) \/ RetryStale(r) \/ GiveUp(r)
  <2>1. TypeOK'
    BY <1>6 DEF Accept, RetryStale, GiveUp, TypeOK, writer
  <2>2. (DuringInv(r) /\ CopyInv(r) /\ CalmInv(r))'
    BY <1>1, <1>6 DEF Accept, RetryStale, GiveUp, TypeOK, writer, DuringInv, CopyInv, CalmInv
  <2> QED BY <1>3, <1>6, <2>1, <2>2, OthersUntouched DEF ReaderInv, Advance
<1>7. ASSUME NEW f \in Fields, CopyField(r, f)
      PROVE  Inv'
  <2>1. TypeOK'
    BY <1>7 DEF CopyField, TypeOK, Records, writer
  <2>2. DuringInv(r)' /\ CalmInv(r)'
    BY <1>1, <1>7 DEF CopyField, writer, DuringInv, CalmInv
  <2>3. CopyInv(r)'
    <3>1. /\ buf'[r] = [buf[r] EXCEPT ![f] = mem[f]]
          /\ left'[r] = left[r] \ {f}
          /\ UNCHANGED <<rpc, v1, seq, mem, trusted>>
      BY <1>7 DEF CopyField, TypeOK, writer
    <3>2. buf[r] \in Records
      BY DEF TypeOK
    <3> QED BY <1>1, <3>1, <3>2 DEF CopyInv, Records
  <2> QED BY <1>3, <1>7, <2>1, <2>2, <2>3, OthersUntouched DEF ReaderInv, Advance
<1> QED BY <1>4, <1>5, <1>6, <1>7 DEF Advance

LEMMA NextInv ==
  ASSUME Inv, [Next]_vars
  PROVE  Inv'
<1>1. CASE Next
  BY <1>1, StartStep, BeginStep, StoreStep, EndStep, DieStep, ReaderStep DEF Next
<1>2. CASE UNCHANGED vars
  BY <1>2 DEF vars, writer, reader, Inv, TypeOK, IdleInv, VersionInv, ReaderInv, DuringInv,
              CopyInv, CalmInv
<1> QED BY <1>1, <1>2

-----------------------------------------------------------------------------
(* Theorems. *)

(* The strengthened invariant holds in every reachable state. *)
LEMMA InvHolds == Spec => []Inv
BY InitInv, NextInv, PTL DEF Spec

(* Every variable keeps its type; no attempt is made past the retry limit. *)
THEOREM TypeCorrect == Spec => []TypeOK
<1>1. Inv => TypeOK
  BY DEF Inv
<1> QED BY <1>1, InvHolds, PTL

(* A read that no update overlaps never comes back to its version load. *)
THEOREM QuietReads == Spec => []QuietReadSucceeds
<1>1. Inv => QuietReadSucceeds
  BY DEF Inv, ReaderInv, CalmInv, QuietReadSucceeds
<1> QED BY <1>1, InvHolds, PTL

(* While no update has been cut short, what a read accepts is the published *)
(* record.                                                                  *)
LEMMA AcceptedIsPublished ==
  ASSUME Inv, trusted, NEW r \in Readers, Accept(r)
  PROVE  buf[r] = stable /\ stable \in during[r]
<1> USE DEF Inv
<1>1. ~Odd(seq)
  BY DEF ReaderInv, CopyInv, Accept
<1>2. wpc = "idle" /\ mem = stable
  BY <1>1, Parity DEF VersionInv, TypeOK
<1>3. \A f \in Fields : buf[r][f] = mem[f]
  BY DEF ReaderInv, CopyInv, Accept
<1>4. buf[r] \in Records /\ mem \in Records
  BY DEF TypeOK
<1>5. buf[r] = mem
  BY <1>3, <1>4 DEF Records
<1> QED BY <1>2, <1>5 DEF ReaderInv, DuringInv, Accept

(* The seqlock implements the register its readers rely on. *)
THEOREM Refinement == Spec => ImplementsRegister
<1>1. Init => Register!Init
  BY DEF Init, Register!Init
<1>2. ASSUME Inv, [Next]_vars
      PROVE  [Register!Next]_(Register!vars)
  <2> USE DEF Inv
  <2>1. CASE Start \/ (\E shape \in Shapes : BeginUpdate(shape))
             \/ (\E f \in Fields : StoreField(f)) \/ UNCHANGED vars
    BY <2>1 DEF Start, BeginUpdate, StoreField, vars, reader, Register!vars
  <2>2. CASE EndUpdate
    <3>1. Register!Publish
      BY <2>2 DEF EndUpdate, reader, Register!Publish, Register!Reading
    <3> QED BY <3>1 DEF Register!Next
  <2>3. CASE Die
    BY <1>2, <2>3 DEF Die, reader, TypeOK, Register!Next, Register!LoseTrust, Register!vars
  <2>4. ASSUME NEW r \in Readers, Call(r)
        PROVE  Register!Next
    <3>1. Register!Call(r)
      BY <1>2, <2>4 DEF Call, ReaderInv, DuringInv, Register!Call, Register!Reading
    <3> QED BY <3>1 DEF Register!Next
  <2>5. ASSUME NEW r \in Readers, Accept(r) \/ GiveUp(r)
        PROVE  Register!Next
    <3>1. Register!Reading(r)
      BY <1>2, <2>5 DEF Accept, GiveUp, ReaderInv, DuringInv, Register!Reading
    <3>2. trusted => answer'[r] \subseteq during[r]
      <4>1. CASE Accept(r)
        BY <1>2, <4>1, AcceptedIsPublished DEF Accept, TypeOK
      <4>2. CASE GiveUp(r)
        BY <1>2, <4>2 DEF GiveUp, TypeOK
      <4> QED BY <2>5, <4>1, <4>2
    <3>3. /\ answer' = [answer EXCEPT ![r] = answer'[r]]
          /\ during' = [during EXCEPT ![r] = {}]
          /\ UNCHANGED <<stable, trusted>>
      BY <1>2, <2>5 DEF Accept, GiveUp, TypeOK
    <3>4. Register!Return(r)
      BY <3>1, <3>2, <3>3 DEF Register!Return
    <3> QED BY <3>4 DEF Register!Next
  <2>6. ASSUME NEW r \in Readers, LoadVersion(r) \/ RetryStale(r)
                                  \/ \E f \in Fields : CopyField(r, f)
        PROVE  UNCHANGED Register!vars
    BY <2>6 DEF LoadVersion, RetryStale, CopyField, Register!vars
  <2> QED BY <1>2, <2>1, <2>2, <2>3, <2>4, <2>5, <2>6 DEF Next, Advance
<1> QED BY <1>1, <1>2, InvHolds, PTL DEF Spec, ImplementsRegister, Register!Spec
=============================================================================
