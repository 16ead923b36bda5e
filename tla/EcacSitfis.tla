------------------------------ MODULE EcacSitfis ------------------------------
(***************************************************************************)
(* The SITFIS flow of one TAX_STATUS job: ask the provider for a protocol, *)
(* keep it sealed in a checkpoint, come back later and ask for the report. *)
(* Processors claim the job one after the other, a claim may take over one *)
(* that is still at work, and an administrator re-seals waiting protocols  *)
(* under the active key of the vault meanwhile.                            *)
(*                                                                         *)
(* A checkpoint is written by a transaction that first READS the job row   *)
(* to check the lease and takes no lock on it, so the check and the write  *)
(* are separate steps.  Results of the job itself are recorded by a        *)
(* transaction whose first statement writes the job row under its lease:   *)
(* one step, since nobody else can write the row before it commits.        *)
(*                                                                         *)
(* A protocol is named by the ordinal with which the provider issued it,   *)
(* which also stands for its hash.  When a lease expires and how many      *)
(* attempts are left is left open here: both are EcacQueue's.              *)
(***************************************************************************)
EXTENDS Integers

CONSTANTS
  Processors,    \* scheduled workers and manual processing calls
  Rotators,      \* calls of rotate-key
  Keys,          \* key versions of the vault
  SealKey,       \* SealKey[p]: the active version of p's keyring
  TargetKey,     \* the active version of the rotators' keyring
  FormerKey,     \* the version active before the last deployment
  MaxClaims,     \* bound of the model on claims of the job
  MaxProtocols,  \* bound of the model on protocols issued
  NoKey,         \* null protocolKeyVersion
  NoSeal,        \* null encryptedProtocol
  NoCheckpoint   \* "no row"

ASSUME SitfisAssumption ==
  /\ SealKey \in [Processors -> Keys]
  /\ TargetKey \in Keys
  /\ FormerKey \in Keys
  /\ MaxClaims \in Nat
  /\ MaxProtocols \in Nat
  /\ NoKey \notin Keys

Protocols == Nat \ {0}
Seals == [protocol : Protocols, key : Keys]
CheckpointStatuses == {"AWAITING_PROTOCOL", "AWAITING_REPORT", "COMPLETED"}
Checkpoints ==
  [status : CheckpointStatuses, sealed : Seals \union {NoSeal},
   keyVersion : Keys \union {NoKey}, hash : Nat, report : Nat]

ASSUME NullsAssumption == NoSeal \notin Seals /\ NoCheckpoint \notin Checkpoints

VARIABLES
  jobStatus,   \* WAITING stands for QUEUED and RETRY_SCHEDULED
  lockToken,   \* token of the current lease, 0 for null
  claims,      \* leases issued so far
  checkpoint,  \* the committed row of ecac_sitfis_processes
  issued,      \* protocols issued so far
  pc,          \* what each processor is doing
  held,        \* held[p]: the token p claimed the job with, 0 for none
  read,        \* read[p]: the checkpoint p found
  draft,       \* draft[p]: the row its open transaction is to write
  listed       \* listed[r]: the row rotator r is re-sealing

jobVars == <<jobStatus, lockToken, claims>>
rowVars == <<checkpoint, issued>>
procVars == <<pc, held, read, draft>>
vars == <<jobVars, rowVars, procVars, listed>>

Steps == {"idle", "claimed", "requesting", "emitting", "saving", "resetting",
          "deferring", "completing", "failing"}
Rows == Checkpoints \union {NoCheckpoint}

TypeOK ==
  /\ jobStatus \in {"WAITING", "PROCESSING", "SUCCEEDED", "FAILED"}
  /\ lockToken \in Nat
  /\ claims \in Nat
  /\ checkpoint \in Rows
  /\ issued \in Nat
  /\ pc \in [Processors -> Steps]
  /\ held \in [Processors -> Nat]
  /\ read \in [Processors -> Rows]
  /\ draft \in [Processors -> Rows]
  /\ listed \in [Rotators -> Rows]

------------------------------------------------------------------------------
(* The rows the code writes *)

Sealed(n, k) == [protocol |-> n, key |-> k]

AwaitingReport(n, k) ==
  [status |-> "AWAITING_REPORT", sealed |-> Sealed(n, k), keyVersion |-> k,
   hash |-> n, report |-> 0]

AwaitingProtocol ==
  [status |-> "AWAITING_PROTOCOL", sealed |-> NoSeal, keyVersion |-> NoKey,
   hash |-> 0, report |-> 0]

CompletedRow_JobStatus(row, n) ==
  [row EXCEPT !.status = "SUCCEEDED", !.sealed = NoSeal, !.keyVersion = NoKey,
              !.report = n]

(***************************************************************************)
(* A completion keeps the protocol's hash and forgets the protocol.        *)
(***************************************************************************)
CompletedRow(row, n) ==
  [row EXCEPT !.status = "COMPLETED", !.sealed = NoSeal, !.keyVersion = NoKey,
              !.report = n]

(***************************************************************************)
(* The job is new, or it was deferred before the last deployment with a    *)
(* protocol sealed under the key that was active then.                     *)
(***************************************************************************)
Init ==
  /\ jobStatus = "WAITING"
  /\ lockToken = 0
  /\ claims = 0
  /\ \/ checkpoint = NoCheckpoint /\ issued = 0
     \/ checkpoint = AwaitingReport(1, FormerKey) /\ issued = 1
  /\ pc = [p \in Processors |-> "idle"]
  /\ held = [p \in Processors |-> 0]
  /\ read = [p \in Processors |-> NoCheckpoint]
  /\ draft = [p \in Processors |-> NoCheckpoint]
  /\ listed = [r \in Rotators |-> NoCheckpoint]

------------------------------------------------------------------------------
(* Leases *)

Claimable_AnyStatus == TRUE

(***************************************************************************)
(* A job waiting for its time, or one whose lease has gone stale: which    *)
(* may happen while its holder still works.                                *)
(***************************************************************************)
Claimable == jobStatus \in {"WAITING", "PROCESSING"}

HoldsLease(p) == jobStatus = "PROCESSING" /\ lockToken = held[p]

ClaimJob(p) ==
  /\ pc[p] = "idle"
  /\ Claimable
  /\ claims < MaxClaims
  /\ claims' = claims + 1
  /\ jobStatus' = "PROCESSING"
  /\ lockToken' = claims + 1
  /\ held' = [held EXCEPT ![p] = claims + 1]
  /\ pc' = [pc EXCEPT ![p] = "claimed"]
  /\ UNCHANGED <<rowVars, read, draft, listed>>

(***************************************************************************)
(* The process dies, or the cycle ends with an exception.                  *)
(***************************************************************************)
AbandonCycle(p) ==
  /\ pc[p] # "idle"
  /\ pc' = [pc EXCEPT ![p] = "idle"]
  /\ held' = [held EXCEPT ![p] = 0]
  /\ read' = [read EXCEPT ![p] = NoCheckpoint]
  /\ draft' = [draft EXCEPT ![p] = NoCheckpoint]
  /\ UNCHANGED <<jobVars, rowVars, listed>>

------------------------------------------------------------------------------
(* The two calls of the provider *)

GoTo(p, step) == pc' = [pc EXCEPT ![p] = step]

(***************************************************************************)
(* querySitfis finds the checkpoint and chooses the call by its status.    *)
(***************************************************************************)
FindCheckpoint(p) ==
  /\ pc[p] = "claimed"
  /\ read' = [read EXCEPT ![p] = checkpoint]
  /\ GoTo(p, IF checkpoint = NoCheckpoint THEN "requesting"
             ELSE CASE checkpoint.status = "AWAITING_PROTOCOL" -> "requesting"
                    [] checkpoint.status = "AWAITING_REPORT" -> "emitting"
                    [] checkpoint.status = "COMPLETED" -> "failing")
  /\ UNCHANGED <<jobVars, rowVars, held, draft, listed>>

(***************************************************************************)
(* saveCheckpointWithAudit opens its transaction and reads the job: a lost *)
(* lease ends it silently, and the caller goes on to defer the job.        *)
(***************************************************************************)
OpenSave(p, row) ==
  IF HoldsLease(p)
  THEN GoTo(p, "saving") /\ draft' = [draft EXCEPT ![p] = row]
  ELSE GoTo(p, "deferring") /\ UNCHANGED draft

(***************************************************************************)
(* /Apoiar answers with a protocol (in time or just before the caller      *)
(* gives up waiting), or asks to come back later (AV02, AV03, 503).        *)
(***************************************************************************)
ProtocolIssued(p) ==
  /\ pc[p] = "requesting"
  /\ issued < MaxProtocols
  /\ issued' = issued + 1
  /\ OpenSave(p, AwaitingReport(issued + 1, SealKey[p]))
  /\ UNCHANGED <<jobVars, checkpoint, held, read, listed>>

ProtocolDelayed(p) ==
  /\ pc[p] = "requesting"
  /\ OpenSave(p, AwaitingProtocol)
  /\ UNCHANGED <<jobVars, rowVars, held, read, listed>>

(***************************************************************************)
(* /Emitir answers that the report is not ready (202, 204, 304): the       *)
(* checkpoint is written again as it was found.                            *)
(***************************************************************************)
ReportDelayed(p) ==
  /\ pc[p] = "emitting"
  /\ OpenSave(p, [read[p] EXCEPT !.report = 0])
  /\ UNCHANGED <<jobVars, rowVars, held, read, listed>>

(***************************************************************************)
(* /Emitir answers ER05.  resetProtocolWithAudit does nothing if the       *)
(* checkpoint is gone or COMPLETED, or the lease is lost; either way the   *)
(* attempt fails and the next one asks for a protocol.                     *)
(***************************************************************************)
RestartRequired(p) ==
  /\ pc[p] = "emitting"
  /\ IF checkpoint # NoCheckpoint /\ checkpoint.status # "COMPLETED" /\ HoldsLease(p)
     THEN GoTo(p, "resetting")
     ELSE GoTo(p, "failing")
  /\ UNCHANGED <<jobVars, rowVars, held, read, draft, listed>>

ReportReady(p) ==
  /\ pc[p] = "emitting"
  /\ GoTo(p, "completing")
  /\ UNCHANGED <<jobVars, rowVars, held, read, draft, listed>>

(***************************************************************************)
(* The call fails, its answer is invalid, a transaction rolls back, or     *)
(* recordUseWithAudit throws after the answer was handled.                 *)
(***************************************************************************)
CallFails(p) ==
  /\ pc[p] \in {"claimed", "requesting", "emitting", "saving", "resetting",
               "deferring", "completing"}
  /\ GoTo(p, "failing")
  /\ draft' = [draft EXCEPT ![p] = NoCheckpoint]
  /\ UNCHANGED <<jobVars, rowVars, held, read, listed>>

------------------------------------------------------------------------------
(* Transactions *)

(***************************************************************************)
(* The upsert and the commit; the job is deferred next.                    *)
(***************************************************************************)
CommitSave(p) ==
  /\ pc[p] = "saving"
  /\ checkpoint' = draft[p]
  /\ GoTo(p, "deferring")
  /\ draft' = [draft EXCEPT ![p] = NoCheckpoint]
  /\ UNCHANGED <<jobVars, issued, held, read, listed>>

(***************************************************************************)
(* The reset's update and the commit; the attempt fails next.  Unlike a    *)
(* save it does not clear reportHash, should the row have one by now.      *)
(***************************************************************************)
CommitReset(p) ==
  /\ pc[p] = "resetting"
  /\ checkpoint' = [AwaitingProtocol EXCEPT !.report = checkpoint.report]
  /\ GoTo(p, "failing")
  /\ UNCHANGED <<jobVars, issued, held, read, draft, listed>>

(***************************************************************************)
(* A result reaches the job only under the lease, and ends the processor's *)
(* work on it either way.                                                  *)
(***************************************************************************)
Record(p, status) ==
  /\ IF HoldsLease(p)
     THEN jobStatus' = status /\ lockToken' = 0
     ELSE UNCHANGED <<jobStatus, lockToken>>
  /\ GoTo(p, "idle")
  /\ held' = [held EXCEPT ![p] = 0]
  /\ read' = [read EXCEPT ![p] = NoCheckpoint]
  /\ UNCHANGED <<claims, issued, draft, listed>>

DeferJob(p) ==
  /\ pc[p] = "deferring"
  /\ Record(p, "WAITING")
  /\ UNCHANGED checkpoint

(***************************************************************************)
(* Retriable or not, with attempts left or not.                            *)
(***************************************************************************)
FailJob(p) ==
  /\ pc[p] = "failing"
  /\ \E status \in {"WAITING", "FAILED"} : Record(p, status)
  /\ UNCHANGED checkpoint

Completable_AnyStatus == checkpoint # NoCheckpoint

(***************************************************************************)
(* The conditional updateMany of the checkpoint in the transaction that    *)
(* completes the job: without a row to update it throws and rolls back.    *)
(***************************************************************************)
Completable == checkpoint # NoCheckpoint /\ checkpoint.status = "AWAITING_REPORT"

CompleteJob(p) ==
  /\ pc[p] = "completing"
  /\ ~HoldsLease(p) \/ Completable
  /\ Record(p, "SUCCEEDED")
  /\ checkpoint' = IF HoldsLease(p) THEN CompletedRow(checkpoint, read[p].hash)
                   ELSE checkpoint

CheckpointNotFound(p) ==
  /\ pc[p] = "completing"
  /\ HoldsLease(p)
  /\ ~Completable
  /\ GoTo(p, "failing")
  /\ UNCHANGED <<jobVars, rowVars, held, read, draft, listed>>

------------------------------------------------------------------------------
(* Key rotation *)

ListForRotation(r) ==
  /\ listed[r] = NoCheckpoint
  /\ checkpoint # NoCheckpoint
  /\ checkpoint.status = "AWAITING_REPORT"
  /\ checkpoint.sealed # NoSeal
  /\ checkpoint.keyVersion # TargetKey
  /\ listed' = [listed EXCEPT ![r] = checkpoint]
  /\ UNCHANGED <<jobVars, rowVars, procVars>>

Rotatable_AnyVersion(r) ==
  checkpoint # NoCheckpoint /\ checkpoint.status = "AWAITING_REPORT"

(***************************************************************************)
(* rotateEncryptionWithAudit compares the version it read, not the         *)
(* ciphertext, and writes nothing if the row has moved on.                 *)
(***************************************************************************)
Rotatable(r) ==
  /\ checkpoint # NoCheckpoint
  /\ checkpoint.status = "AWAITING_REPORT"
  /\ checkpoint.keyVersion = listed[r].keyVersion

RotateKey(r) ==
  /\ listed[r] # NoCheckpoint
  /\ checkpoint' =
       IF Rotatable(r)
       THEN [checkpoint EXCEPT !.sealed = Sealed(listed[r].sealed.protocol, TargetKey),
                               !.keyVersion = TargetKey]
       ELSE checkpoint
  /\ listed' = [listed EXCEPT ![r] = NoCheckpoint]
  /\ UNCHANGED <<jobVars, issued, procVars>>

------------------------------------------------------------------------------

Next ==
  \/ \E p \in Processors :
       \/ ClaimJob(p)
       \/ AbandonCycle(p)
       \/ FindCheckpoint(p)
       \/ ProtocolIssued(p)
       \/ ProtocolDelayed(p)
       \/ ReportDelayed(p)
       \/ RestartRequired(p)
       \/ ReportReady(p)
       \/ CallFails(p)
       \/ CommitSave(p)
       \/ CommitReset(p)
       \/ DeferJob(p)
       \/ FailJob(p)
       \/ CompleteJob(p)
       \/ CheckpointNotFound(p)
  \/ \E r \in Rotators : ListForRotation(r) \/ RotateKey(r)

Spec == Init /\ [][Next]_vars

------------------------------------------------------------------------------
(* Properties *)

(***************************************************************************)
(* What the gateway and the rotation rely on and never check: a row that   *)
(* waits for a report holds a protocol, sealed under the version the row   *)
(* names, and it is the protocol whose hash the row names.  It must        *)
(* survive a rotation that read the row before the protocol was replaced   *)
(* and a save that read it before the rotation.                            *)
(***************************************************************************)
Consistent(row) ==
  row # NoCheckpoint =>
    IF row.status = "AWAITING_REPORT"
    THEN row.sealed = Sealed(row.hash, row.keyVersion)
    ELSE row.sealed = NoSeal /\ row.keyVersion = NoKey

ProtocolMatchesHash == Consistent(checkpoint)

(***************************************************************************)
(* "O checkpoint e o job são concluídos na mesma transação": the job       *)
(* succeeds in a step that takes the checkpoint from AWAITING_REPORT to    *)
(* COMPLETED, and in no other, although both may have been rewritten since *)
(* the report was asked for (completeJobWithAudit).                        *)
(***************************************************************************)
CompletedTogether ==
  [][(jobStatus # "SUCCEEDED" /\ jobStatus' = "SUCCEEDED") =>
       /\ checkpoint # NoCheckpoint
       /\ checkpoint.status = "AWAITING_REPORT"
       /\ checkpoint'.status = "COMPLETED"]_vars

(***************************************************************************)
(* A completed checkpoint belongs to a job that has succeeded: a job that  *)
(* can still be claimed never meets ECAC_SITFIS_ALREADY_COMPLETED, which   *)
(* would fail it for good with its report already paid for.                *)
(***************************************************************************)
CompletedMeansSucceeded ==
  checkpoint # NoCheckpoint /\ checkpoint.status = "COMPLETED" => jobStatus = "SUCCEEDED"

(***************************************************************************)
(* Re-sealing makes the former key dispensable ("recifre também seus       *)
(* protocolos ... antes de remover uma versão anterior do keyring"): the   *)
(* row never goes back from the target key to another one.                 *)
(***************************************************************************)
RotationHolds ==
  [][checkpoint # NoCheckpoint /\ checkpoint.keyVersion = TargetKey
       /\ checkpoint' # NoCheckpoint
       => checkpoint'.keyVersion \in {TargetKey, NoKey}]_vars

------------------------------------------------------------------------------
(* Strengthenings the proofs of EcacSitfisProofs use *)

(***************************************************************************)
(* Which rows a processor or a rotation in flight carries.                 *)
(***************************************************************************)
FlightInv ==
  /\ \A p \in Processors :
       /\ pc[p] \in {"emitting", "resetting", "completing"} =>
            read[p] # NoCheckpoint /\ read[p].status = "AWAITING_REPORT"
       /\ pc[p] = "saving" =>
            draft[p] # NoCheckpoint /\ draft[p].status # "COMPLETED"
       /\ pc[p] = "resetting" => checkpoint # NoCheckpoint
  /\ \A r \in Rotators :
       listed[r] # NoCheckpoint =>
         /\ listed[r].status = "AWAITING_REPORT"
         /\ listed[r].sealed # NoSeal
         /\ listed[r].keyVersion # TargetKey

(***************************************************************************)
(* Once every process seals under the target key, the only protocol under  *)
(* another key is the one from before the deployment: this is why          *)
(* comparing key versions is enough for a rotation.                        *)
(***************************************************************************)
Genuine(row) ==
  /\ Consistent(row)
  /\ row # NoCheckpoint /\ row.status = "AWAITING_REPORT" /\ row.keyVersion # TargetKey
     => row.hash = 1

SealInv ==
  /\ Genuine(checkpoint)
  /\ \A p \in Processors : Genuine(read[p]) /\ Genuine(draft[p])
  /\ \A r \in Rotators : Genuine(listed[r])

(***************************************************************************)
(* When a former version may leave the keyring, RotationHolds being false: *)
(* neither the row nor a row that a poll has read, or that an open save is *)
(* to write, is sealed under another key than the target.                  *)
(***************************************************************************)
UnderFormerKey(row) == row # NoCheckpoint /\ row.keyVersion \notin {TargetKey, NoKey}

FormerKeysRetired ==
  /\ ~UnderFormerKey(checkpoint)
  /\ \A p \in Processors :
       /\ pc[p] = "emitting" => ~UnderFormerKey(read[p])
       /\ pc[p] = "saving" => ~UnderFormerKey(draft[p])

==============================================================================
