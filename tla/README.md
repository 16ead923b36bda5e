# TLA+ models of the e-CAC radar

This directory holds a formal model of the back end in `src/`: a multi-tenant
API for accounting offices that watches companies' fiscal state at the Brazilian
revenue service (e-CAC) through SERPRO's Integra Contador. TLA+ modules describe
the parts whose correctness depends on the order of database statements, calls
and crashes; TLC checks them on small instances; TLAPS proves the central
properties for instances of any size. Source paths start at
`src/`, the repository's root (so TypeScript is under `src/src/`).

## 1. Inventory of the system

All state is in PostgreSQL (through Prisma, at the default READ COMMITTED) except
where noted. API processes and workers share nothing but the database.

| Component | State | Operations | What is hard |
|---|---|---|---|
| **Sync queue** (`modules/ecac`: radar repository, `process-ecac-jobs`, scheduled worker) | `ecac_sync_batches`, `ecac_sync_jobs`: status, attemptCount, lockedAt, lockToken, nextAttemptAt | create a batch, claim due jobs, take stale leases over, complete, defer, fail, judge the batch | several workers and manual calls at once; leases outlived by their holders; crashes at any point; commits whose acknowledgement is lost; batch verdict from counts taken at different instants |
| **Request of a sync batch** (`request-ecac-sync-batch`) | the batch under its idempotency key | look the key up, judge the powers, insert, look up again | two requests with one key; powers revoked between the check and the query |
| **Alert reconciliation** (radar repository, `domain/ecac-radar`) | `ecac_alerts`, `ecac_observation_cursors`, queued notification events | reconcile findings in the completion of a job; acknowledge an alert | jobs answered and completed in any order; acknowledgements that run across a reconciliation |
| **Notification outbox** (notification repository, `process-ecac-notification-events`, e-mail gateway, worker) | `ecac_alert_notification_events` | claim, deliver, mark, user delivery, user retry | claims without a token; deliveries that time out after being accepted; users and workers changing the same row |
| **SITFIS flow** (SERPRO gateway, SITFIS repository, `rotate-sitfis-protocol-keys`) | `ecac_sitfis_processes`: sealed protocol, key version, hash, status | ask for a protocol, poll for the report, restart on ER05, complete with the job, re-seal | take-over between two calls, lease check without a lock, rotation during a poll |
| **Token cache** of the SERPRO gateway | in memory: tokens by connection, authentications in flight | authenticate once, renew on 401 | shared by concurrent calls; late 401s; credentials replaced meanwhile |
| **SERPRO connection** | one row per tenant with sealed consumer key and secret | configure, use, re-seal | conditional updates against concurrent configuration |
| **Certificate vault** (`modules/credentials`) | sealed PFX and password, key version, status, scopes | upload, revoke, re-seal in batches | rotation against revocation; processes under different keys; when a key may be retired |
| **Responsibles, powers of attorney, expiration alerts** | rows with statuses that refer to each other | assign, deactivate, create, revoke, scan, acknowledge | check-then-write transactions over different rows; bands of days at their edges |
| **Access** (`modules/access`) | refresh session families, MFA challenges, recovery codes, password resets, invitations | login, rotate, revoke, verify, reset, accept | reuse detection, attempt limits and single use under concurrency; row locks in different orders |
| **Companies** | one row per (tenant, CNPJ) | register, get | none beyond a unique index |
| HTTP layer, container, configuration, PKCS#12, scrypt, TOTP | none of their own | | pure I/O or library calls |

Interactions: a worker of the queue calls the gateway, which takes its tokens from
the cache and the connection; the gateway reads and writes the SITFIS checkpoint
during the call; the completion of the job reconciles alerts, completes the
checkpoint and judges the batch in one transaction; a reconciliation queues
notification events, which the other worker delivers. A batch is created, and its
jobs are claimed, under powers of attorney and the certificates they name.
`PROJECT.json` lists every component with its status, and every hazard at its line
with the properties that cover it.

What makes each component correct:

- *Queue*: a result is recorded only under the current lease; attempts are
  neither lost nor given away, and a job is claimed a bounded number of times; a
  settled job stays settled; a batch is closed only by what its jobs have earned, once, and every job is settled eventually.
- *Request*: an idempotency key stands for one batch; nothing is queried in a
  claim that began after the power or certificate had ended.
- *Alerts*: the alerts are those of the accepted answers, every change is
  announced to whoever asked for it, an overtaken job changes nothing,
  acknowledgements last.
- *Outbox*: an event ends only with a reason, is sent a bounded number of times,
  and does end.
- *SITFIS*: the stored protocol is the one its hash and key version name; job
  and checkpoint are completed together.
- *Token cache*: a call presents tokens of the credentials it has read, a renewal
  is newer than what was refused, no authentication is wasted, every call ends.
- *Vault, connection*: re-sealing never mixes up or loses a secret, and a key
  version nobody uses any more can be told.
- *Authorities*: an active power under an inactive responsible needs an overlap
  with the deactivation; alerts agree with the calendar.
- *Access*: a token, code or link is used once; a logout, a detected reuse, a
  setup and a reset end every session from before them (they do not quite, see
  finding 3), and what they have ended stays ended.

## 2. Modules

| Module | What it is |
|---|---|
| `SyncPromise` | abstract specification: what the queue promises to the requester of a batch |
| `EcacQueue` | the queue; implements `SyncPromise` (`Promise == INSTANCE SyncPromise WITH ...`) |
| `AlertsPromise` | abstract specification: what the alerts of a stream promise to those who read them |
| `EcacAlerts` | one alert stream; implements `AlertsPromise` (`Promise == INSTANCE AlertsPromise WITH accepted <- Accepted`) |
| `EcacNotifications` | the notification outbox |
| `EcacSitfis` | one SITFIS job, its checkpoint and its key rotation |
| `Vault` | certificates and connection of one office, their keys and the deployment of new ones |
| `SerproTokens` | the calls of one process, its token cache and authentications |
| `Authorities` | responsibles, powers, expiration alerts, and the batches requested and claimed under them |
| `Account` | sessions, challenges, recovery codes and resets of one user |
| `<Module>Proofs` | theorems and proofs about a module |
| `MC*` | small instances for TLC: functions given to constants, symmetry |

Operators named `X_Variant` next to an operator `X` are deliberately wrong
versions of `X` (a dropped guard, a forgotten case). No specification uses them:
substituting one for `X` must break the property `PROJECT.json` pairs it with,
which shows that the property is not vacuous.

### 2.1 EcacQueue

*State.* `jobStatus`, `attemptCount`, `lockToken`, `elapsed`, `batchStatus`,
`succeededJobs`, `failedJobs` are the committed rows; `elapsed[j]` abstracts the
clock (nextAttemptAt has passed, or the lease is older than the TTL). `pc`,
`candidates`, `held`, `current` are a processor's local state, `write`, `counts`,
`counted` its open transaction; a crash loses them. `claims`, `deferrals` are
history. Tokens are ordinals instead of UUIDs.

*Grain.* `claimMatchingDueJobs` is not one transaction: `FindCandidates`
(findMany), one `ClaimJob` per conditional updateMany, `FinishClaim` (the batch
update and the closing read) are separate steps. `completeJobWithAudit`,
`deferJobWithAudit` and `failJobWithAudit` start with a write of the job row,
whose lock then keeps every other writer of that row away: `Report` opens the
transaction, one `CountJobs` per count query of `updateBatchStatus` reads what is
committed at that moment (READ COMMITTED gives each statement its own snapshot),
`Commit` writes the batch and publishes. `RollBack`, `CommitUnacknowledged` and
`AbandonCycle` are the failures; the catch block of `process-ecac-jobs.ts` is
`FailJob` from `recovering`.

*Left open*: which due jobs are taken when there are more than the limit, what
the provider answers, whether the authorisation was valid (see 2.7).

### 2.2 EcacAlerts

One tenant, company and query type. Jobs are named by `observationOrder`.
`Answer` is the provider's answer, in any order of jobs. `BeginReconcile` takes
the advisory lock and decides on the cursor; `ApplyFinding`, `ListMissing`,
`ResolveMissing` are the statements of `reconcileAlerts`, writing to a draft;
`CommitReconcile` publishes alerts, events and cursor. `ReadAlert` and
`Acknowledge` are the two statements of `acknowledgeAlertWithAudit`, which takes
no advisory lock; the row lock of a reconciliation that has written the row is
`RowLocked`. `findingKey` and `contentHash` are members of sets: two findings are
the same alert, or the same content, exactly when the fingerprints of
`fingerprintEcacFinding` agree.

The sequence that orders answers is that of the jobs' creation, as
`docs/ecac-radar.md:69` says: `AlertsFollowCursor` has the alerts be those of the
latest job accepted, whichever answered first, so that an older job that answers
after a newer one changes nothing. When each job asked the provider plays no part
in it.

`AlertsPromise` has no locks, statements, drafts or roll-backs: `Accept` compares an
answer with the alerts as they stand, brings them up to date and announces just
what changed, in one step; `Acknowledge` is another. `AppliedAtOnce` says that a
reader cannot tell the difference. Its two exceptions, `stale` and `silent`, concern
only an alert acknowledged after it was resolved (finding 2): such an alert may still
be taken for resolved, or be resolved again unannounced when the acknowledgement
falls between the `findMany` and the `updateMany` of the alerts to resolve. Without
either exception `alerts_reconcile` finds the refinement violated.

### 2.3 EcacNotifications

`ClaimPendingEvents` is one `UPDATE ... SKIP LOCKED` and so one step. `Deliver`
calls the gateway; a call that fails may have been accepted. The marks are by id
and carry no token (`ReadBeforeMark`, `Mark`); `MarkThrows` sends the worker to
its catch block, with or without the mark committed. A user's request reads in
one statement (`ReadForUser`) and writes in a later transaction, by id: a retry
may put back an event that is no longer FAILED, which is why `DeliveriesBounded`
counts retries and not failures. `sends`, `refused`, `confirmed`, `retries`,
`slips` are history for the properties.

### 2.4 EcacSitfis

`FindCheckpoint` chooses between `/Apoiar` and `/Emitir`; the answers are
`ProtocolIssued`, `ProtocolDelayed`, `ReportDelayed`, `RestartRequired`,
`ReportReady` and `CallFails`. A save of the checkpoint is two steps, the lease
check (`OpenSave`) and the write (`CommitSave`, `CommitReset`), because the
check is a plain read of a row the transaction does not write; so a checkpoint
may be written after the lease was taken over, and the properties are those that
survive it. Results of the job are single steps (`Record`). `ListForRotation` and
`RotateKey` are the administrator's re-sealing. A sealed protocol is the pair of
protocol and key version inside it, kept apart from the row's `keyVersion` and
`hash` columns.

### 2.5 Vault

*State.* The rows keep a key version per sealed secret; `deployed` and `retired`
are what the operator has configured, `active` and `keys` what each process was
started with, `request` what a request has sealed or read and not yet written.

*Actions.* Sealing happens in memory before the transaction, so each write is two
steps: `SealUpload`/`StoreUpload`, `SealConfiguration`/`FindConnection`/
`WriteConfiguration`, `ReadConnectionForRotation`/`ReSealConnection`,
`ListForRotation`/`ReSealCertificate`/`AnswerRotation`. The writes of re-sealing
compare the key version with the one read. `DeployKey`, `RestartWithNewKey`,
`Crash` and `RetireKey` are the rotation procedure of `src/README.md`.

*What the properties need.* `EverySecretOpens` holds while processes with
different keys store things. `DrainedForGood` and `ConfigurationSurvives` hold
from the moment all processes agreed on the active key: the update of the
connection compares the key version and not the secret, so in a mixed deployment
a configuration sealed under the former key can be overwritten with the secret it
replaced, although the README calls the re-sealing "protegida contra atualização
concorrente".

### 2.6 SerproTokens

One process runs one piece of code at a time, so everything between two `await`s
is one step: `GetMaterialForUse` (the row is read), `FirstTokens` (cache,
authentication in flight, or a new one), `AuthenticationSucceeds`/`Fails` (which
also release the waiting calls), the answers (`Answered`, `Unavailable`,
`Rejected`, `Refused` for the first 401, `RefusedAgain`) and `RecordUse`. The key
of the cache is the connection and its `updatedAt`. `Configure`, `ReSeal` and
`RevokeCertificate` are other processes and users changing the row; `TokenExpires`
is time. Authentication n issues token n.

### 2.7 Authorities

Each request is the sequence of its statements, what it has read being in `call`;
the transactions are READ COMMITTED, so nothing ties a check to the write it
allows. Time is a clock in ticks, `Day` ticks long days; `Midnight`,
`RemainingDays` and `Bands` are the code's arithmetic. `FindBatch`,
`AuthorizeBatch`, `CreateBatch`, `RereadBatch` are the creation of a batch under
an idempotency key, `LockJob`, `JudgeJob`, `LeaveJob` its jobs as far as
authorisation goes (the rest is `EcacQueue`).

Three things the model follows although one might expect otherwise. A batch that
names two powers of one company is refused as a reuse of its key with other
content, because every unique violation is answered that way. A certificate must
have `validUntil > now` when a power is registered and `validUntil >= now` when a
job is claimed. Memberships are constant: no operation of the code changes one.
`Authorized` leaves out the services a power names and a batch asks for, which no
operation changes either; it thus authorises more than the code does.

### 2.8 Account

An operation reads a row and then runs a transaction, a plan of UPDATE and DELETE
statements (`Plan`). `StartStatement` takes the snapshot of the matching rows,
`LockRow` locks one of them, waiting for its holder, and re-evaluates the
condition as PostgreSQL does; writes take effect at the commit. `DeadlockVictim`
is the database ending one of the transactions that wait for each other. Sessions,
challenges, recovery codes and resets are rows; the hashes are their names.

A row that no longer matches once it is locked is let go in the model, while
PostgreSQL keeps its lock: that only makes others wait.

`since` is history: the security version a session was authenticated under, which
a rotation hands on and which a completion fixes when it verifies the challenge.
`ended` are the families that a committed logout or reuse has ended. The two say
what `RevocationIsImmediate`, the promise of the documents, means, and the code
breaks it (finding 3). `SurvivorsOverlap` is what is left of it: a session outlives
its revocation only in the two ways that finding names, `late` being the sessions
inserted behind a statement that covers them (`Covered`), or after a setup or reset
behind the verification they come from, and what those were exchanged for. One thing
is not judged: a login that checked the former password before a reset and inserts
its challenge after it is authenticated, here, by the second factor it then gives.

Other consequences that the properties state rather than hide: a challenge may take one wrong code more
per concurrent request than its limit (`TriesBounded`); and a password reset and
the completion of a challenge may deadlock, because they lock the user row and the
challenge in opposite order, and so may two statements that
revoke or close several rows of one table, which lock them in no set order; nothing
else does (`DeadlocksAreKnown`).

## 3. Runs

`CHECK_DEADLOCK FALSE` is said wherever the bounded model may simply be done.

| Run | Instance | Question and result |
|---|---|---|
| `queue_concurrent` | 2 workers, 1 batch of 2 jobs, 2 attempts, 2 disturbances, fair | type, `WriterOwnsLease`, `AttemptLedger`, `ClaimsBounded`, `BatchVerdictSound`, the refinement of `SyncPromise`, and `EveryJobSettles`: hold (0.79 M states) |
| `queue_batch_stuck` | 2 workers, 1 batch | `SettledBatchIsClosed`: **violated**, finding 1 |
| `alerts_reconcile` | 2 keys, 2 contents, 3 jobs, 2 users, 1 operator, 1 rollback | `AlertsFollowCursor`, `ChangesAnnounced`, and the refinement of `AlertsPromise`, `AppliedAtOnce`: hold (0.24 M states) |
| `alerts_ack_race` | same, smaller | `ResolvedIsFinalForOperators`: **violated**, finding 2 |
| `notifications_outbox` | 2 workers, an e-mail and an in-app event, 1 disturbance, 2 requests, fair | `EndsAreEarned`, `DeliveriesBounded`, `EveryEventEnds`: hold (0.47 M states) |
| `sitfis_checkpoint` | 3 processors, 2 rotations, 4 claims, 3 protocols | `ProtocolMatchesHash`, `CompletedTogether`, `CompletedMeansSucceeded`: hold (0.26 M states) |
| `sitfis_rotation_undone` | 2 processors, 1 rotation | `RotationHolds`: **violated**, finding 4 |
| `vault_rotation` | 2 processes, 2 requests, 2 certificates in batches of 1, 2 keys, 1 crash | `EverySecretOpens`, `DrainedForGood`, `ConfigurationSurvives`: hold (0.25 M states) |
| `token_calls` | 2 calls, 1 change of the connection, 4 authentications, fair | `TokensMatchMaterial`, `RenewalIsNewer`, `AuthenticationsAccounted`, `EveryCallEnds`: hold (0.16 M states) |
| `authorities_requests` | 2 requests at once, 1 responsible, 2 powers, 1 certificate, 1 key, 5 requests in all, 5 ticks | `SkewNeedsOverlap`, `AlertsMatchCalendar`, `OneBatchPerKey`, `QueriedUnderLivingAuthority`: hold (1.1 M states) |
| `account_requests` | 2 requests at once, 4 sessions, 3 challenges, 2 resets, 7 requests in all | `SingleUse`, `RevokedNeverExchanged`, `SurvivorsOverlap`, `CodesBelongToEnrolment`, `TriesBounded`, `DeadlocksAreKnown`: hold (0.28 M states) |
| `account_survivors` | same | `RevocationIsImmediate`: **violated**, finding 3 |

*Bounds.* `MaxDisturbances` (crashes, rollbacks, lost acknowledgements,
deferrals, leases outlived), `MaxRollBacks`, `MaxRequests`, `MaxClaims`,
`MaxProtocols`, `LastVersion`, `MaxCrashes`, `MaxChanges`, `MaxTokens`, `LastTick`
and `MaxOperations` bound the model, not the program; each is a guard of the
actions it names. Two disturbances are enough for a take-over of a live holder
followed by a failed transaction of either processor; three jobs of a stream are
enough for one to be overtaken by two others; four claims and three protocols are
enough for a take-over, a restart and a late save in one behaviour. Two key
versions and two processes give every mixture of a deployment, and batches of one
leave a certificate behind. A call asks for at most two authentications, so four
tokens bound nothing for two calls. Five ticks of half a day reach both bands,
the midnight, the last day and the day after it. Seven requests are enough to set
MFA up, log in, verify, exchange the session and have one of these raced by a
reuse, a second completion or a reset. The theorems do not depend on these
numbers.

*Fairness.* A worker's own next step (`Work`) is weakly fair because `run` loops
until shut down, every HTTP call has a time-out and every database call returns
or throws. For the same reason are a call's next step and the end of an
authentication (`SerproTokens`), and an admissible request of a user that was read
(`EcacNotifications`). The passage of time (`RetryComesDue`,
`AbandonedLeaseExpires`, `AbandonedClaimGoesStale`) is weakly fair. Crashes,
failed transactions, slow holders, deferrals, requests of users, rotations and the
creation of a batch are not fair. Liveness is claimed only for finitely many
disturbances: a provider that defers for ever keeps a job waiting for ever, by
design. `Vault`, `Authorities` and `Account` state no fairness: nothing in them
has to happen.

### Findings

1. *A batch may stay RUNNING for ever.* Two transactions that settle its last
   two jobs count each other's job as active (`updateBatchStatus`); nothing
   recomputes the batch later. `docs/ecac-radar.md:19` promises a verdict. The same
   cause, counts taken at different instants, can leave a unanimous batch judged
   `PARTIAL`.
2. *A resolved alert may become acknowledged* by an acknowledgement that read it
   as open, against the rule its own error message states. The next reappearance
   is then not announced as `REOPENED` (see `AcknowledgedLate`). The retry of a
   notification event by its id follows the same pattern.
3. *A session may survive the revocation of its family, or of all sessions.* An
   update that revokes sees the sessions of its snapshot. While it waits for one
   that a rotation has locked, the rotation commits the successor, which is then
   neither seen nor revoked: of a logout (the run's trace) and a detected reuse
   (`prisma-refresh-session-repository.ts:194`), and of a setup and a reset
   (`prisma-security-repository.ts:199`, `:320`). Besides, a completion inserts its
   session by a statement of its own, after the transaction that verified the
   challenge, so that a reset committed in between does not revoke it. A session
   carries no security version and `rotate` checks none, hence either survivor gets
   access tokens of the current version until it expires. `docs/control-roadmap.md:29`
   ("Logout revoga a família da sessão"), `:35` and `README.md:16` ("invalidação
   imediata dos JWTs e refresh tokens após redefinição de senha") promise otherwise.
4. *A poll may undo a rotation*: it re-saves the ciphertext it read before its
   call, and the row is under the former key again after `rotate-key` reported
   it re-sealed. Retiring that key, as `README.md:168` describes, makes the
   protocol unreadable.

## 4. Proofs

The theorems hold for every value of the constants that the named `ASSUME`s admit;
TLC evaluates those assumptions in every run. The theorems listed with a property
state one that a run of section 3 also checks. Each proof finds an inductive
invariant, shows that it holds at `Init` and is kept by every action, one step per
action, and concludes from it. Where the name of an invariant is not that of a
property, it is defined at the end of the component's module, so that TLC can try
it before it is proved.

| Module | Theorem | Establishes |
|---|---|---|
| `EcacQueueProofs` | `TypeCorrect`, `LeaseSafety`, `AttemptsAccounted`, `ClaimsAreBounded` | `TypeOK`, `WriterOwnsLease`, `AttemptLedger`, `ClaimsBounded` |
| | `SettledForGood`, `VerdictsFinal` | a settled job stays settled; a closed batch is not judged again |
| | `VerdictsSound`, `KeepsPromise` | `BatchVerdictSound`; the queue implements `SyncPromise` |
| | `SerialisedCountsCloseBatches` | what would repair finding 1 |
| `EcacSitfisProofs` | `SitfisTypeCorrect`, `ProtocolIntact` | `TypeOK`; `ProtocolMatchesHash` if every process seals under the key of the rotation |
| | `CompletionIsFinal`, `CompletedAtomically` | `CompletedMeansSucceeded`, `CompletedTogether` |
| | `FormerKeysStayRetired` | when a former key may go in spite of finding 4 |
| `EcacAlertsProofs` | `AlertsTypeCorrect`, `AlertsAreTheAccepted` | `TypeOK`, `AlertsFollowCursor` |
| | `CursorAdvances`, `AcknowledgementLasts` | the cursor never goes back; an acknowledgement survives every reconciliation that finds the same content (`AcknowledgementSurvives`) |
| | `EveryChangeIsAnnounced`, `AppliedAtOneInstant` | `ChangesAnnounced`; the alerts implement `AlertsPromise` (`AppliedAtOnce`) |
| | `LockedAcknowledgementsAreFinal` | what would repair finding 2 |
| `EcacNotificationsProofs` | `NotificationsTypeCorrect`, `EndsEarned`, `DeliveriesAreBounded` | `TypeOK`, `EndsAreEarned`, `DeliveriesBounded` |
| `SerproTokensProofs` | `TokensTypeCorrect`, `TokensAreOfMaterial`, `RenewalsAreNewer` | `TypeOK`, `TokensMatchMaterial`, `RenewalIsNewer` |
| | `InFlightExact`, `AuthenticationsOwed` | an authentication runs exactly while it is in flight; `AuthenticationsAccounted` |
| `VaultProofs` | `VaultTypeCorrect`, `SecretsOpen`, `Drained`, `ConfigurationKept` | `TypeOK`, `EverySecretOpens`, `DrainedForGood`, `ConfigurationSurvives` |
| `AuthoritiesProofs` | `AuthoritiesTypeCorrect`, `SkewIsAccounted`, `KeyStandsForOneBatch` | `TypeOK`, `SkewNeedsOverlap`, `OneBatchPerKey` |
| | `QueriesAreAuthorized`, `AlertsAgreeWithCalendar` | `QueriedUnderLivingAuthority`, `AlertsMatchCalendar` |
| `AccountProofs` | `AccountTypeCorrect`, `UsedOnce`, `RevokedStaysUnused` | `TypeOK`, `SingleUse`, `RevokedNeverExchanged` |
| | `SurvivorsAreLate`, `CodesAreOfEnrolment` | `SurvivorsOverlap`, `CodesBelongToEnrolment` |
| | `TriesAreBounded`, `DeadlocksAreFew` | `TriesBounded`, `DeadlocksAreKnown` |
| | `RevocationsAloneAreImmediate` | what would repair finding 3: then `RevocationIsImmediate` |

The arguments, in short:

- *Queue*. `LeaseInv`: a batch and its jobs come into being together, no processor
  holds a token never issued, no two leases share one, and a processor that writes
  holds the token in the row; `WriterOwnsLease` is not inductive without the others.
  `CountsInv`
  relates a transaction's counts, taken one after the other, to the rows: what
  has been counted as settled stays so, hence a batch closed with no active job
  counted has none. The refinement maps every step to a step of `SyncPromise` or
  to a stutter, from these two. `ChargeInv`: a job that may be claimed is one claim
  below the bound, because a holder that left it behind or put it off has been charged
  for as a disturbance, and a retry found an attempt left.
- *SITFIS*. `SealInv` says of every copy of the row, committed, read, drafted or
  listed for rotation, that its protocol is the one its hash names, and that the only
  protocol under a key other than the target is the one from before the deployment;
  this is why comparing key versions is enough for a rotation. It needs
  `ProtocolIntact`'s assumption that all processes were restarted with the target
  key, the procedure `src/README.md` describes. `FlightInv` says which row a
  processor or rotation in flight carries.
- *Alerts*. `LockInv`: at most one transaction of the stream is past the advisory
  lock, and its job is newer than the cursor. `DraftInv`: its draft is a partial
  image of its answer over the rows it read, which differ from those on disk at most
  by an acknowledgement; so what it commits is the accepted answer. `AnnounceInv` is
  the lower half of what it announces: each finding drafted as a change has its events
  queued, and each alert that was unresolved when read, and is no longer in the
  answer, is listed and then resolved, because an acknowledgement in between leaves it
  unresolved. `ExactInv` is the upper half: nothing is drafted or queued but what the
  answer makes of the rows as they still are. Together they make a commit the
  `Accept` of `AlertsPromise`; every other step but `Acknowledge` is a stutter.
- *Outbox*. `WorkInv`: a worker delivers and marks an event it has claimed and not
  finished with, and knows what the delivery came to. `SendInv`: each claim not yet delivered leaves room for one
  more message. `ClaimInv`: each claim takes up what made the event claimable, so
  that sends are bounded by attempts, retries and slips.
- *Token cache*. `StampInv`: an `updatedAt` names one secret, whoever has read it.
  `CacheInv` and `HoldInv` say where tokens are; `InFlightIsRunning` and
  `RenewalIsNewer` need them and each other. `LiveInv` counts a key's living
  authentications against the refusals that owe them.
- *Vault*. `KeyInv`: a process opens every version up to its own that is not
  retired; `RowInv`: what is stored is under a version that is not retired;
  `DrainInv`: once a rotation found all processes on its key, what is under an older
  key is still on its list; `ReSealInv`: a re-sealing under way has read the secret
  that is in the row, or will fail its comparison.
- *Authorities*. `FoundInv`: what a request found nobody takes back. `SigningInv`
  carries the check of the responsible from the read to the insert, with the
  overlap that is the exception, in both directions. `JobInv`: what had ended when
  the job was locked is found ended by the read that follows, because no
  operation brings a power or certificate back. The least threshold a finding
  falls under exists because `<` on the naturals is well-founded. `ScanInv` says that
  what a scan has listed stays good until it writes: a source in force now that was
  there when it listed, and due by its horizon, is on the list. `DaysMeasure` and
  `BandsHold` turn the code's division by the length of a day, rounded up, into the
  comparisons of the property; that a threshold is the narrowest, or the largest, is
  shown by a minimal counterexample.
- *Account*. Two facts about any step carry the rest: apart from `StartStatement` and
  `LockRow` it leaves its request without locks, and what it writes was locked or
  blank. `Core` joins the type, what a request found (`RequestInv`), the place of its
  locks in the plan (`PlaceInv`, `TableInv`, `UserInv`), exclusion, the rows as they
  were when locked (`HeldInv`) and what is spent (`RowInv`). On it rest `TryInv`, which
  counts the wrong codes still to be written with those written; `CodesInv`, which
  says that a setup holding the user row has listed every code there is;
  `SnapshotInv`, which says that of the sessions covered by a revocation under way each
  is revoked, about to be, or late; and the order of the plans, by which a transaction past the
  user row meets only what is before it in another's.

*What would repair the findings.* Four theorems say that a finding has the one
cause given above, by assuming that cause away and nothing else. The assumption is
a predicate the behaviour is supposed to keep (`Spec /\ []Assumed => ...`), which the
code as it is does not.

- Finding 1, `CountsSerialised`: of the transactions of one batch only one has begun
  to count, as if `updateBatchStatus` locked the batch's row first. While a
  transaction counts, the other jobs of its batch can then only be claimed, which
  moves them from active to active (`PlaceKept`); so its counts are those of the
  instant at which it commits (`ExactCounts`), and the last commit closes the batch.
  That no batch is empty, the theorem's other assumption, is what
  `request-ecac-sync.ts` checks.
- Finding 2, `AcknowledgedUnderLock`: no reconciliation is under way between the two
  statements of an acknowledgement, as if these ran under the stream's advisory lock. The alert
  it updates is then still unresolved (`SeenInv`), and no alert is ever acknowledged
  late (`NoneLate`), which is the one thing `AlertsPromise` makes an exception of.
- Finding 3, `RevocationsAlone`: a rotation has its row, and a completion is still to
  insert its session, only while nobody is revoking them, as if rotating, completing
  and revoking took the user row first and the completion inserted the session in its
  transaction. A completion then inserts under the version it verified (`EnterInv`),
  nothing is inserted behind a revocation, `late` stays empty, and `SurvivorsOverlap`
  becomes the promise itself.
- Finding 4, `FormerKeysRetired`: not a change of the code but the moment an operator
  has to wait for before a key is retired. It is not enough that `rotate-key` has
  nothing more to list: the polls that had read a row before must have ended, too.
  From then on no row goes back to a former key.

*Only model-checked.* Liveness (`EveryJobSettles`, `EveryEventEnds`,
`EveryCallEnds`) rests on fairness and ENABLED, which the provers do not handle. All
other properties of the runs that hold are theorems. What recursive definitions compute for every
input (there are none in these modules) would need induction over data.

## 5. Not modelled, and what is left

- *Members and invitations.* Registration and the acceptance of an invitation
  are single transactions whose single use rests on unique indexes (slug, e-mail,
  tenant and user); no operation changes a membership that exists, so
  `Authorities` and `Account` take them as constant.
- *Companies.* One insert guarded by a unique index; nothing to interleave.
- *HTTP routes, container, configuration, entry points.* Wiring, validation of
  input and I/O. The bounds of `env.ts` are used only to judge which take-overs can
  happen.
- *PKCS#12 parsing, scrypt, TOTP, AES-GCM.* Calls of libraries; sealing is modelled
  by the key version it leaves.
- *Provider envelopes and mailboxes.* An answer is the class the gateway sorts it
  into; the parsing of messages is left out.
- *Audit entries, listings, formatting, logging.* Nothing reads them back, except
  the acknowledgement of a notification event, whose look-up and insertion of an
  audit entry may both happen twice: the hazard is listed without a property, since
  a second entry is its only effect.
- *Expiry of sessions, challenges and reset tokens.* It only refuses requests.
- *Notification preferences* are constants of `EcacAlerts`.

Left to do: a composition of the
queue, the SITFIS flow and the alerts on one job, which are joined here by what
each assumes of the other (`Record` of `EcacSitfis` and `Answer` of `EcacAlerts`
happen in the transaction that `Report` of `EcacQueue` opens); more than one
stream and tenant per instance.
