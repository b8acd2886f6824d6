-------------------------- MODULE SnapshotRegister --------------------------
(***************************************************************************)
(* What the shared telemetry promises its readers: a register that one     *)
(* writer publishes whole records into, and whose reads, which may give    *)
(* up, return one record that was in the register while the read ran.  The *)
(* promise ends if the writer is killed in the middle of an update.        *)
(***************************************************************************)
CONSTANT Readers

VARIABLES
  register,  \* the record last published
  current,   \* for each reader: the records in the register since its read began; {} between reads
  answer,    \* for each reader: the set of records its last read returned, {} if it gave up
  trusted    \* no update has been cut short

vars == <<register, current, answer, trusted>>

Init ==
  /\ current = [r \in Readers |-> {}]
  /\ answer = [r \in Readers |-> {}]
  /\ trusted = TRUE

Reading(r) == current[r] # {}

Publish ==
  /\ current' = [r \in Readers |-> IF Reading(r) THEN current[r] \cup {register'} ELSE {}]
  /\ UNCHANGED <<answer, trusted>>

Call(r) ==
  /\ ~Reading(r)
  /\ current' = [current EXCEPT ![r] = {register}]
  /\ UNCHANGED <<register, answer, trusted>>

Return(r) ==
  /\ Reading(r)
  /\ trusted => answer'[r] \subseteq current[r]
  /\ answer' = [answer EXCEPT ![r] = answer'[r]]
  /\ current' = [current EXCEPT ![r] = {}]
  /\ UNCHANGED <<register, trusted>>

LoseTrust ==
  /\ trusted' = FALSE
  /\ UNCHANGED <<register, current, answer>>

Next == Publish \/ LoseTrust \/ \E r \in Readers : Call(r) \/ Return(r)

Spec == Init /\ [][Next]_vars
=============================================================================
