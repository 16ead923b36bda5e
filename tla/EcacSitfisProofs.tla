--------------------------- MODULE EcacSitfisProofs ---------------------------
(***************************************************************************)
(* Proofs about EcacSitfis, for any processors, rotations and keys.        *)
(***************************************************************************)
EXTENDS EcacSitfis, TLAPS

(***************************************************************************)
(* The rows the code writes are rows of the table.                         *)
(***************************************************************************)
LEMMA RowTyping ==
  /\ \A n \in Protocols, k \in Keys : AwaitingReport(n, k) \in Checkpoints
  /\ AwaitingProtocol \in Checkpoints
  /\ \A row \in Checkpoints, n \in Nat :
       /\ CompletedRow(row, n) \in Checkpoints
       /\ [row EXCEPT !.report = n] \in Checkpoints
       /\ [AwaitingProtocol EXCEPT !.report = n] \in Checkpoints
  /\ \A row \in Checkpoints, s \in Seals, k \in Keys :
       [row EXCEPT !.sealed = s, !.keyVersion = k] \in Checkpoints
  /\ \A row \in Checkpoints : row # NoCheckpoint
  BY NullsAssumption
     DEF AwaitingReport, AwaitingProtocol, CompletedRow, Sealed, Checkpoints,
         CheckpointStatuses, Seals, Protocols

(***************************************************************************)
(* Types, and the rows in flight, are kept by every step.  The two need    *)
(* each other: a delayed report writes back the row it has read.           *)
(***************************************************************************)
LEMMA FlightInvariant == Spec => [](TypeOK /\ FlightInv)
<1>. USE SitfisAssumption, NullsAssumption
<1>1. Init => TypeOK /\ FlightInv
  <2>. SUFFICES ASSUME Init PROVE TypeOK /\ FlightInv
    OBVIOUS
  <2>1. checkpoint \in Rows /\ issued \in Nat
    <3>1. 1 \in Protocols
      BY DEF Protocols
    <3>2. AwaitingReport(1, FormerKey) \in Checkpoints
      BY <3>1, RowTyping
    <3>. QED
      BY <3>2 DEF Init, Rows
  <2>. QED
    BY <2>1 DEF Init, TypeOK, FlightInv, Steps, Rows
<1>2. TypeOK /\ FlightInv /\ [Next]_vars => (TypeOK /\ FlightInv)'
  <2>. SUFFICES ASSUME TypeOK, FlightInv, [Next]_vars
                PROVE TypeOK' /\ FlightInv'
    OBVIOUS
  <2>. USE DEF GoTo, Steps, Rows, jobVars, rowVars, procVars
  <2>1. ASSUME NEW p \in Processors, ClaimJob(p)
        PROVE TypeOK' /\ FlightInv'
    BY <2>1 DEF ClaimJob, TypeOK, FlightInv
  <2>2. ASSUME NEW p \in Processors, AbandonCycle(p)
        PROVE TypeOK' /\ FlightInv'
    BY <2>2 DEF AbandonCycle, TypeOK, FlightInv
  <2>3. ASSUME NEW p \in Processors, FindCheckpoint(p)
        PROVE TypeOK' /\ FlightInv'
    <3>1. checkpoint # NoCheckpoint => checkpoint.status \in CheckpointStatuses
      BY DEF TypeOK, Checkpoints
    <3>2. pc' = [pc EXCEPT ![p] = pc'[p]] /\ pc'[p] \in {"requesting", "emitting", "failing"}
      BY <2>3, <3>1 DEF FindCheckpoint, TypeOK, CheckpointStatuses
    <3>3. pc'[p] = "emitting" =>
            checkpoint # NoCheckpoint /\ checkpoint.status = "AWAITING_REPORT"
      BY <2>3, <3>1 DEF FindCheckpoint, TypeOK, CheckpointStatuses
    <3>. QED
      BY <2>3, <3>2, <3>3 DEF FindCheckpoint, TypeOK, FlightInv
  <2>4. ASSUME NEW p \in Processors, ProtocolIssued(p)
        PROVE TypeOK' /\ FlightInv'
    <3>. DEFINE row == AwaitingReport(issued + 1, SealKey[p])
    <3>1. row \in Checkpoints /\ row # NoCheckpoint /\ row.status = "AWAITING_REPORT"
      <4>1. issued + 1 \in Protocols /\ SealKey[p] \in Keys
        BY DEF TypeOK, Protocols
      <4>. QED
        BY <4>1, RowTyping DEF AwaitingReport
    <3>. HIDE DEF row
    <3>2. OpenSave(p, row) /\ issued' = issued + 1
          /\ UNCHANGED <<jobVars, checkpoint, held, read, listed>>
      BY <2>4 DEF ProtocolIssued, row
    <3>. QED
      BY <3>1, <3>2 DEF OpenSave, TypeOK, FlightInv
  <2>5. ASSUME NEW p \in Processors, ProtocolDelayed(p)
        PROVE TypeOK' /\ FlightInv'
    <3>1. AwaitingProtocol \in Checkpoints /\ AwaitingProtocol # NoCheckpoint
          /\ AwaitingProtocol.status = "AWAITING_PROTOCOL"
      BY RowTyping DEF AwaitingProtocol
    <3>. QED
      BY <2>5, <3>1 DEF ProtocolDelayed, OpenSave, TypeOK, FlightInv
  <2>6. ASSUME NEW p \in Processors, ReportDelayed(p)
        PROVE TypeOK' /\ FlightInv'
    <3>. DEFINE row == [read[p] EXCEPT !.report = 0]
    <3>1. read[p] \in Checkpoints /\ read[p].status = "AWAITING_REPORT"
      BY <2>6 DEF ReportDelayed, FlightInv, TypeOK
    <3>2. row \in Checkpoints /\ row # NoCheckpoint
      BY <3>1, RowTyping
    <3>3. row.status = "AWAITING_REPORT"
      BY <3>1 DEF Checkpoints
    <3>. HIDE DEF row
    <3>4. OpenSave(p, row) /\ UNCHANGED <<jobVars, rowVars, held, read, listed>>
      BY <2>6 DEF ReportDelayed, row
    <3>. QED
      BY <3>2, <3>3, <3>4 DEF OpenSave, TypeOK, FlightInv
  <2>7. ASSUME NEW p \in Processors, RestartRequired(p)
        PROVE TypeOK' /\ FlightInv'
    BY <2>7 DEF RestartRequired, TypeOK, FlightInv
  <2>8. ASSUME NEW p \in Processors, ReportReady(p)
        PROVE TypeOK' /\ FlightInv'
    BY <2>8 DEF ReportReady, TypeOK, FlightInv
  <2>9. ASSUME NEW p \in Processors, CallFails(p)
        PROVE TypeOK' /\ FlightInv'
    BY <2>9 DEF CallFails, TypeOK, FlightInv
  <2>10. ASSUME NEW p \in Processors, CommitSave(p)
         PROVE TypeOK' /\ FlightInv'
    BY <2>10 DEF CommitSave, TypeOK, FlightInv
  <2>11. ASSUME NEW p \in Processors, CommitReset(p)
         PROVE TypeOK' /\ FlightInv'
    <3>1. checkpoint.report \in Nat
      BY <2>11 DEF CommitReset, TypeOK, FlightInv, Checkpoints
    <3>2. checkpoint' \in Checkpoints /\ checkpoint' # NoCheckpoint
      BY <2>11, <3>1, RowTyping DEF CommitReset
    <3>. QED
      BY <2>11, <3>2 DEF CommitReset, TypeOK, FlightInv
  <2>12. ASSUME NEW p \in Processors, DeferJob(p)
         PROVE TypeOK' /\ FlightInv'
    BY <2>12 DEF DeferJob, Record, TypeOK, FlightInv
  <2>13. ASSUME NEW p \in Processors, FailJob(p)
         PROVE TypeOK' /\ FlightInv'
    BY <2>13 DEF FailJob, Record, TypeOK, FlightInv
  <2>14. ASSUME NEW p \in Processors, CompleteJob(p)
         PROVE TypeOK' /\ FlightInv'
    <3>1. read[p].hash \in Nat
      BY <2>14 DEF CompleteJob, TypeOK, FlightInv, Checkpoints
    <3>2. checkpoint' \in Rows /\ (checkpoint # NoCheckpoint => checkpoint' # NoCheckpoint)
      BY <2>14, <3>1, RowTyping DEF CompleteJob, Completable, TypeOK
    <3>. QED
      BY <2>14, <3>2 DEF CompleteJob, Record, TypeOK, FlightInv
  <2>15. ASSUME NEW p \in Processors, CheckpointNotFound(p)
         PROVE TypeOK' /\ FlightInv'
    BY <2>15 DEF CheckpointNotFound, TypeOK, FlightInv
  <2>16. ASSUME NEW r \in Rotators, ListForRotation(r)
         PROVE TypeOK' /\ FlightInv'
    BY <2>16 DEF ListForRotation, TypeOK, FlightInv
  <2>17. ASSUME NEW r \in Rotators, RotateKey(r)
         PROVE TypeOK' /\ FlightInv'
    <3>1. listed[r].sealed \in Seals
      BY <2>17 DEF RotateKey, TypeOK, FlightInv, Checkpoints
    <3>2. Sealed(listed[r].sealed.protocol, TargetKey) \in Seals
      BY <3>1 DEF Sealed, Seals
    <3>3. checkpoint' \in Rows /\ (checkpoint # NoCheckpoint => checkpoint' # NoCheckpoint)
      BY <2>17, <3>2, RowTyping DEF RotateKey, Rotatable, TypeOK
    <3>. QED
      BY <2>17, <3>3 DEF RotateKey, TypeOK, FlightInv
  <2>18. CASE UNCHANGED vars
    BY <2>18 DEF vars, TypeOK, FlightInv
  <2>. QED
    BY <2>1, <2>2, <2>3, <2>4, <2>5, <2>6, <2>7, <2>8, <2>9, <2>10, <2>11, <2>12,
       <2>13, <2>14, <2>15, <2>16, <2>17, <2>18 DEF Next
<1>. QED
  BY <1>1, <1>2, PTL DEF Spec

(***************************************************************************)
(* Type correctness.                                                       *)
(***************************************************************************)
THEOREM SitfisTypeCorrect == Spec => []TypeOK
  BY FlightInvariant, PTL

(***************************************************************************)
(* A row under the target key, or without a protocol, is genuine as soon   *)
(* as it is consistent.                                                    *)
(***************************************************************************)
LEMMA GenuineRows ==
  /\ \A n \in Protocols : Genuine(AwaitingReport(n, TargetKey))
  /\ Genuine(AwaitingReport(1, FormerKey))
  /\ Genuine(AwaitingProtocol)
  /\ Genuine(NoCheckpoint)
  /\ \A n \in Nat : Genuine([AwaitingProtocol EXCEPT !.report = n])
  /\ \A row \in Checkpoints, n \in Nat :
       /\ Genuine(row) => Genuine([row EXCEPT !.report = n])
       /\ Genuine(row) => Genuine(CompletedRow(row, n))
  BY SitfisAssumption, NullsAssumption
     DEF Genuine, Consistent, AwaitingReport, AwaitingProtocol, CompletedRow, Checkpoints

(***************************************************************************)
(* A waiting checkpoint always holds the protocol its hash and key version *)
(* name, whatever rotations and take-overs overlap, provided that every    *)
(* process seals under the rotation's target key.                          *)
(***************************************************************************)
THEOREM ProtocolIntact ==
  ASSUME \A p \in Processors : SealKey[p] = TargetKey
  PROVE  Spec => []ProtocolMatchesHash
<1>. USE SitfisAssumption, NullsAssumption
<1>1. Init => SealInv
  BY GenuineRows DEF Init, SealInv
<1>2. TypeOK /\ FlightInv /\ SealInv /\ [Next]_vars => SealInv'
  <2>. SUFFICES ASSUME TypeOK, FlightInv, SealInv, [Next]_vars PROVE SealInv'
    OBVIOUS
  <2>. USE DEF GoTo, jobVars, rowVars, procVars
  <2>1. ASSUME NEW p \in Processors, ClaimJob(p) PROVE SealInv'
    BY <2>1 DEF ClaimJob, SealInv, Genuine, Consistent
  <2>2. ASSUME NEW p \in Processors, AbandonCycle(p) PROVE SealInv'
    BY <2>2, GenuineRows DEF AbandonCycle, SealInv, TypeOK
  <2>3. ASSUME NEW p \in Processors, FindCheckpoint(p) PROVE SealInv'
    BY <2>3 DEF FindCheckpoint, SealInv, TypeOK
  <2>4. ASSUME NEW p \in Processors, ProtocolIssued(p) PROVE SealInv'
    <3>1. issued + 1 \in Protocols
      BY DEF TypeOK, Protocols
    <3>2. Genuine(AwaitingReport(issued + 1, SealKey[p]))
      BY <3>1, GenuineRows
    <3>. QED
      BY <2>4, <3>2 DEF ProtocolIssued, OpenSave, SealInv, TypeOK
  <2>5. ASSUME NEW p \in Processors, ProtocolDelayed(p) PROVE SealInv'
    BY <2>5, GenuineRows DEF ProtocolDelayed, OpenSave, SealInv, TypeOK
  <2>6. ASSUME NEW p \in Processors, ReportDelayed(p) PROVE SealInv'
    <3>1. read[p] \in Checkpoints
      BY <2>6 DEF ReportDelayed, FlightInv, TypeOK, Rows
    <3>2. Genuine([read[p] EXCEPT !.report = 0])
      BY <3>1, GenuineRows DEF SealInv
    <3>. QED
      BY <2>6, <3>2 DEF ReportDelayed, OpenSave, SealInv, TypeOK
  <2>7. ASSUME NEW p \in Processors, CallFails(p) PROVE SealInv'
    BY <2>7, GenuineRows DEF CallFails, SealInv, TypeOK
  <2>8. ASSUME NEW p \in Processors, CommitSave(p) PROVE SealInv'
    BY <2>8, GenuineRows DEF CommitSave, SealInv, TypeOK
  <2>9. ASSUME NEW p \in Processors, CommitReset(p) PROVE SealInv'
    <3>1. checkpoint.report \in Nat
      BY <2>9 DEF CommitReset, TypeOK, FlightInv, Checkpoints, Rows
    <3>2. Genuine(checkpoint')
      BY <2>9, <3>1, GenuineRows DEF CommitReset
    <3>. QED
      BY <2>9, <3>2 DEF CommitReset, SealInv
  <2>10. ASSUME NEW p \in Processors, CompleteJob(p) PROVE SealInv'
    <3>1. read[p].hash \in Nat
      BY <2>10 DEF CompleteJob, TypeOK, FlightInv, Checkpoints, Rows
    <3>2. Genuine(checkpoint')
      BY <2>10, <3>1, GenuineRows DEF CompleteJob, Completable, SealInv, TypeOK, Rows
    <3>. QED
      BY <2>10, <3>2, GenuineRows DEF CompleteJob, Record, SealInv, TypeOK
  <2>11. ASSUME NEW p \in Processors, DeferJob(p) \/ FailJob(p) PROVE SealInv'
    BY <2>11, GenuineRows DEF DeferJob, FailJob, Record, SealInv, TypeOK
  <2>12. ASSUME NEW p \in Processors,
                RestartRequired(p) \/ ReportReady(p) \/ CheckpointNotFound(p)
         PROVE SealInv'
    BY <2>12 DEF RestartRequired, ReportReady, CheckpointNotFound, SealInv
  <2>13. ASSUME NEW r \in Rotators, ListForRotation(r) PROVE SealInv'
    BY <2>13 DEF ListForRotation, SealInv, TypeOK
  <2>14. ASSUME NEW r \in Rotators, RotateKey(r) PROVE SealInv'
    <3>1. listed[r] \in Checkpoints /\ listed[r].status = "AWAITING_REPORT"
          /\ listed[r].keyVersion # TargetKey
      BY <2>14 DEF RotateKey, TypeOK, FlightInv, Rows
    <3>2. listed[r].sealed.protocol = 1
      <4>1. Genuine(listed[r]) /\ listed[r] # NoCheckpoint
        BY <2>14 DEF RotateKey, SealInv
      <4>2. listed[r].sealed = Sealed(1, listed[r].keyVersion)
        BY <3>1, <4>1 DEF Genuine, Consistent
      <4>. QED
        BY <4>2 DEF Sealed
    <3>3. CASE Rotatable(r)
      <4>1. checkpoint \in Checkpoints /\ checkpoint.hash = 1
        BY <3>1, <3>3 DEF Rotatable, TypeOK, Rows, SealInv, Genuine
      <4>2. Genuine(checkpoint')
        BY <2>14, <3>2, <3>3, <4>1
           DEF RotateKey, Rotatable, Genuine, Consistent, Sealed, Checkpoints
      <4>. QED
        BY <2>14, <4>2, GenuineRows DEF RotateKey, SealInv, TypeOK
    <3>4. CASE ~Rotatable(r)
      BY <2>14, <3>4, GenuineRows DEF RotateKey, SealInv, TypeOK
    <3>. QED
      BY <3>3, <3>4
  <2>15. CASE UNCHANGED vars
    BY <2>15 DEF vars, SealInv, Genuine, Consistent
  <2>. QED
    BY <2>1, <2>2, <2>3, <2>4, <2>5, <2>6, <2>7, <2>8, <2>9, <2>10, <2>11, <2>12,
       <2>13, <2>14, <2>15 DEF Next
<1>3. SealInv => ProtocolMatchesHash
  BY DEF SealInv, Genuine, ProtocolMatchesHash
<1>. QED
  BY <1>1, <1>2, <1>3, FlightInvariant, PTL DEF Spec

(***************************************************************************)
(* A completed checkpoint belongs to a job that has succeeded.             *)
(***************************************************************************)
THEOREM CompletionIsFinal == Spec => []CompletedMeansSucceeded
<1>. USE SitfisAssumption, NullsAssumption
<1>1. Init => CompletedMeansSucceeded
  BY DEF Init, CompletedMeansSucceeded, AwaitingReport
<1>2. TypeOK /\ FlightInv /\ CompletedMeansSucceeded /\ [Next]_vars
        => CompletedMeansSucceeded'
  <2>. SUFFICES ASSUME TypeOK, FlightInv, CompletedMeansSucceeded, [Next]_vars
                PROVE CompletedMeansSucceeded'
    OBVIOUS
  <2>. USE DEF CompletedMeansSucceeded, jobVars, rowVars, procVars
  <2>1. ASSUME NEW p \in Processors, CommitSave(p) PROVE CompletedMeansSucceeded'
    BY <2>1 DEF CommitSave, FlightInv
  <2>2. ASSUME NEW p \in Processors, CommitReset(p) PROVE CompletedMeansSucceeded'
    BY <2>2 DEF CommitReset, AwaitingProtocol
  <2>3. ASSUME NEW p \in Processors, ClaimJob(p) PROVE CompletedMeansSucceeded'
    BY <2>3 DEF ClaimJob, Claimable
  <2>4. ASSUME NEW p \in Processors, DeferJob(p) \/ FailJob(p)
        PROVE CompletedMeansSucceeded'
    BY <2>4 DEF DeferJob, FailJob, Record, HoldsLease
  <2>5. ASSUME NEW p \in Processors, CompleteJob(p) PROVE CompletedMeansSucceeded'
    BY <2>5 DEF CompleteJob, Record, HoldsLease
  <2>6. ASSUME NEW r \in Rotators, RotateKey(r) PROVE CompletedMeansSucceeded'
    <3>1. checkpoint \in Checkpoints /\ checkpoint.status = "AWAITING_REPORT"
          => checkpoint'.status = "AWAITING_REPORT" \/ checkpoint' = checkpoint
      BY <2>6 DEF RotateKey, Checkpoints
    <3>. QED
      BY <2>6, <3>1 DEF RotateKey, Rotatable, TypeOK, Rows
  <2>7. ASSUME UNCHANGED <<jobStatus, checkpoint>> PROVE CompletedMeansSucceeded'
    BY <2>7
  <2>8. ASSUME NEW p \in Processors,
               \/ AbandonCycle(p) \/ FindCheckpoint(p) \/ ProtocolIssued(p)
               \/ ProtocolDelayed(p) \/ ReportDelayed(p) \/ RestartRequired(p)
               \/ ReportReady(p) \/ CallFails(p) \/ CheckpointNotFound(p)
        PROVE UNCHANGED <<jobStatus, checkpoint>>
    BY <2>8 DEF AbandonCycle, FindCheckpoint, ProtocolIssued, ProtocolDelayed,
                ReportDelayed, RestartRequired, ReportReady, CallFails, CheckpointNotFound
  <2>9. ASSUME NEW r \in Rotators, ListForRotation(r)
        PROVE UNCHANGED <<jobStatus, checkpoint>>
    BY <2>9 DEF ListForRotation
  <2>. QED
    BY <2>1, <2>2, <2>3, <2>4, <2>5, <2>6, <2>7, <2>8, <2>9 DEF Next, vars
<1>. QED
  BY <1>1, <1>2, FlightInvariant, PTL DEF Spec

(***************************************************************************)
(* The job succeeds and the checkpoint is completed in the same step.      *)
(***************************************************************************)
THEOREM CompletedAtomically == Spec => CompletedTogether
<1>. DEFINE Together ==
       (jobStatus # "SUCCEEDED" /\ jobStatus' = "SUCCEEDED") =>
         /\ checkpoint # NoCheckpoint
         /\ checkpoint.status = "AWAITING_REPORT"
         /\ checkpoint'.status = "COMPLETED"
<1>1. TypeOK /\ [Next]_vars => [Together]_vars
  <2>. SUFFICES ASSUME TypeOK, Next, jobStatus # "SUCCEEDED", jobStatus' = "SUCCEEDED"
                PROVE Together
    OBVIOUS
  <2>1. PICK p \in Processors : CompleteJob(p)
    <3>. USE DEF jobVars
    <3>1. ASSUME NEW p \in Processors
          PROVE  ~(\/ ClaimJob(p) \/ AbandonCycle(p) \/ FindCheckpoint(p)
                   \/ ProtocolIssued(p) \/ ProtocolDelayed(p) \/ ReportDelayed(p)
                   \/ RestartRequired(p) \/ ReportReady(p) \/ CallFails(p)
                   \/ CommitSave(p) \/ CommitReset(p) \/ CheckpointNotFound(p))
      BY DEF ClaimJob, AbandonCycle, FindCheckpoint, ProtocolIssued, ProtocolDelayed,
             ReportDelayed, RestartRequired, ReportReady, CallFails, CommitSave,
             CommitReset, CheckpointNotFound
    <3>2. ASSUME NEW p \in Processors PROVE ~(DeferJob(p) \/ FailJob(p))
      BY DEF DeferJob, FailJob, Record
    <3>3. ASSUME NEW r \in Rotators PROVE ~(ListForRotation(r) \/ RotateKey(r))
      BY DEF ListForRotation, RotateKey
    <3>. QED
      BY <3>1, <3>2, <3>3 DEF Next
  <2>2. HoldsLease(p) /\ Completable
    BY <2>1 DEF CompleteJob, Record
  <2>3. checkpoint' = CompletedRow(checkpoint, read[p].hash) /\ checkpoint \in Checkpoints
    BY <2>1, <2>2 DEF CompleteJob, Completable, TypeOK, Rows
  <2>. QED
    BY <2>2, <2>3 DEF Completable, CompletedRow, Checkpoints
<1>. QED
  BY <1>1, SitfisTypeCorrect, PTL DEF Spec, CompletedTogether

(***************************************************************************)
(* A rotation that has found nothing more to re-seal does not make the     *)
(* former versions dispensable, as RotationHolds and its counterexample    *)
(* show: a poll may still write the row back as it was.  Once no poll or   *)
(* save in flight carries such a row either, none is ever sealed, read or  *)
(* written under a former version again, whatever the claims, answers and  *)
(* rotations that follow (sealProtocol, rotateEncryptionWithAudit).        *)
(***************************************************************************)
THEOREM FormerKeysStayRetired ==
  ASSUME \A p \in Processors : SealKey[p] = TargetKey
  PROVE  Spec => [](FormerKeysRetired => []FormerKeysRetired)
<1>. USE SitfisAssumption, NullsAssumption
<1>1. TypeOK /\ FlightInv /\ FormerKeysRetired /\ [Next]_vars => FormerKeysRetired'
  <2>. SUFFICES ASSUME TypeOK, FlightInv, FormerKeysRetired, [Next]_vars
                PROVE FormerKeysRetired'
    OBVIOUS
  <2>. USE DEF FormerKeysRetired, GoTo, jobVars, rowVars, procVars
  <2>1. ASSUME NEW p \in Processors, ClaimJob(p) \/ AbandonCycle(p)
        PROVE FormerKeysRetired'
    BY <2>1 DEF ClaimJob, AbandonCycle, TypeOK, UnderFormerKey
  <2>2. ASSUME NEW p \in Processors, FindCheckpoint(p) PROVE FormerKeysRetired'
    BY <2>2 DEF FindCheckpoint, TypeOK, Rows, Checkpoints, CheckpointStatuses,
                UnderFormerKey
  <2>3. ASSUME NEW p \in Processors, NEW row, OpenSave(p, row), ~UnderFormerKey(row),
               UNCHANGED <<jobVars, checkpoint, held, read, listed>>
        PROVE FormerKeysRetired'
    BY <2>3 DEF OpenSave, TypeOK, UnderFormerKey
  <2>4. ASSUME NEW p \in Processors, ProtocolIssued(p) PROVE FormerKeysRetired'
    <3>1. ~UnderFormerKey(AwaitingReport(issued + 1, SealKey[p]))
      BY DEF UnderFormerKey, AwaitingReport
    <3>. QED
      BY <2>3, <2>4, <3>1 DEF ProtocolIssued
  <2>5. ASSUME NEW p \in Processors, ProtocolDelayed(p) PROVE FormerKeysRetired'
    <3>1. ~UnderFormerKey(AwaitingProtocol)
      BY DEF UnderFormerKey, AwaitingProtocol
    <3>. QED
      BY <2>3, <2>5, <3>1 DEF ProtocolDelayed
  <2>6. ASSUME NEW p \in Processors, ReportDelayed(p) PROVE FormerKeysRetired'
    <3>1. read[p] \in Checkpoints /\ ~UnderFormerKey(read[p]) /\ read[p] # NoCheckpoint
      BY <2>6 DEF ReportDelayed, FlightInv, TypeOK, Rows
    <3>2. ~UnderFormerKey([read[p] EXCEPT !.report = 0])
      BY <3>1 DEF UnderFormerKey, Checkpoints
    <3>. QED
      BY <2>3, <2>6, <3>2 DEF ReportDelayed
  <2>7. ASSUME NEW p \in Processors,
               \/ RestartRequired(p) \/ ReportReady(p) \/ CallFails(p)
               \/ CheckpointNotFound(p) \/ DeferJob(p) \/ FailJob(p)
        PROVE FormerKeysRetired'
    BY <2>7 DEF RestartRequired, ReportReady, CallFails, CheckpointNotFound, DeferJob,
                FailJob, Record, TypeOK, UnderFormerKey
  <2>8. ASSUME NEW p \in Processors, CommitSave(p) PROVE FormerKeysRetired'
    BY <2>8 DEF CommitSave, TypeOK, UnderFormerKey
  <2>9. ASSUME NEW p \in Processors, CommitReset(p) PROVE FormerKeysRetired'
    <3>1. ~UnderFormerKey(checkpoint')
      BY <2>9 DEF CommitReset, UnderFormerKey, AwaitingProtocol
    <3>. QED
      BY <2>9, <3>1 DEF CommitReset, TypeOK, UnderFormerKey
  <2>10. ASSUME NEW p \in Processors, CompleteJob(p) PROVE FormerKeysRetired'
    <3>1. ~UnderFormerKey(checkpoint')
      BY <2>10 DEF CompleteJob, Completable, CompletedRow, TypeOK, Rows, Checkpoints,
                   UnderFormerKey
    <3>. QED
      BY <2>10, <3>1 DEF CompleteJob, Record, TypeOK, UnderFormerKey
  <2>11. ASSUME NEW r \in Rotators, ListForRotation(r) PROVE FormerKeysRetired'
    BY <2>11 DEF ListForRotation, UnderFormerKey
  <2>12. ASSUME NEW r \in Rotators, RotateKey(r) PROVE FormerKeysRetired'
    <3>1. ~UnderFormerKey(checkpoint')
      BY <2>12 DEF RotateKey, Rotatable, TypeOK, Rows, Checkpoints, UnderFormerKey
    <3>. QED
      BY <2>12, <3>1 DEF RotateKey, UnderFormerKey
  <2>13. CASE UNCHANGED vars
    BY <2>13 DEF vars, UnderFormerKey
  <2>. QED
    BY <2>1, <2>2, <2>4, <2>5, <2>6, <2>7, <2>8, <2>9, <2>10, <2>11, <2>12, <2>13
       DEF Next
<1>. QED
  BY <1>1, FlightInvariant, PTL DEF Spec

==============================================================================
