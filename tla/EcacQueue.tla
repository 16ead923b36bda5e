------------------------------ MODULE EcacQueue ------------------------------
(***************************************************************************)
(* The persisted queue of e-CAC sync jobs: batches, jobs, their leases,    *)
(* and the processors (scheduled workers and manual calls of the API) that *)
(* claim due jobs, query the provider and record what happened.            *)
(*                                                                         *)
(* PostgreSQL runs at READ COMMITTED and the repository takes no lock on   *)
(* the batch, so the model keeps apart what the database keeps apart:      *)
(*   - findMany, each conditional updateMany of a claim and the closing    *)
(*     read are separate steps, each seeing what is committed by then;     *)
(*   - a transaction that records a result first writes the job row (and   *)
(*     locks it), then runs its count queries one by one, each with a      *)
(*     snapshot of its own, then writes the batch row and commits.         *)
(*                                                                         *)
(* Time is abstract: elapsed[j] says that the instant the job waits for    *)
(* has passed (nextAttemptAt of a waiting job, the lock TTL of a claimed   *)
(* one).  A token is the ordinal of the claim that issued it: like the     *)
(* UUID in the code, no later claim of the job issues it again.            *)
(***************************************************************************)
EXTENDS Integers, FiniteSets

CONSTANTS
  Jobs,             \* sync jobs, one per company of a batch
  Batches,          \* batches, named by the (tenant, requestKey) that made them
  BatchOf,          \* BatchOf[j]: the batch job j is created with
  Processors,       \* scheduled workers and manual processing calls
  Reach,            \* Reach[p]: all jobs for a worker, its tenant's for a call
  ClaimLimit,       \* jobs a processor claims per cycle
  MaxAttempts,      \* maxAttempts of every job
  MaxDisturbances,  \* bound of the model on crashes, failed transactions,
                    \* deferrals and leases outlived by their holder
  NoJob             \* "no current job"

JobsOf(b) == {j \in Jobs : BatchOf[j] = b}

ASSUME QueueAssumption ==
  /\ IsFiniteSet(Jobs)
  /\ BatchOf \in [Jobs -> Batches]
  /\ Reach \in [Processors -> SUBSET Jobs]
  /\ ClaimLimit \in Nat \ {0}
  /\ MaxAttempts \in 1 .. 10
  /\ MaxDisturbances \in Nat
  /\ NoJob \notin Jobs

VARIABLES
  \* rows of ecac_sync_jobs and ecac_sync_batches, as committed
  jobStatus,      \* EcacSyncJobStatus, or ABSENT before the batch is created
  attemptCount,   \* attempts charged to the job
  lockToken,      \* token of the current lease, 0 for null
  elapsed,        \* nextAttemptAt, or the lease's expiry, has passed
  batchStatus,    \* EcacSyncBatchStatus, or ABSENT
  succeededJobs,  \* the counters stored with the batch
  failedJobs,
  \* each processor's own state, lost when it crashes
  pc,             \* what the processor is doing
  candidates,     \* due jobs it has read and not yet tried to claim
  held,           \* held[p][j]: token p claimed j with, 0 if it did not
  current,        \* the job it is processing
  write,          \* the job write of its open transaction
  counts,         \* counts[p][c]: the jobs count query c has counted
  counted,        \* the count queries that have run
  \* history
  claims,         \* claims[j]: leases ever issued for j
  deferrals,      \* deferrals[j]: provider waits committed for j
  disturbances    \* disturbances so far

rowVars == <<jobStatus, attemptCount, lockToken, elapsed>>
batchVars == <<batchStatus, succeededJobs, failedJobs>>
txVars == <<write, counts, counted>>
historyVars == <<claims, deferrals, disturbances>>
vars == <<rowVars, batchVars, pc, candidates, held, current, txVars, historyVars>>

Waiting == {"QUEUED", "RETRY_SCHEDULED"}
Active == Waiting \union {"PROCESSING"}
Settled == {"SUCCEEDED", "FAILED"}
BatchOpen == {"ABSENT", "QUEUED", "RUNNING"}
BatchClosed == Settled \union {"PARTIAL"}
Queries == {"succeeded", "failed", "active"}
Writes == {"complete", "defer", "retry", "giveUp"}
Steps == {"idle", "claiming", "processing", "querying", "recovering", "writing"}

NoCounts == [c \in Queries |-> {}]
NoTokens == [j \in Jobs |-> 0]

------------------------------------------------------------------------------

TypeOK ==
  /\ jobStatus \in [Jobs -> Active \union Settled \union {"ABSENT"}]
  /\ attemptCount \in [Jobs -> Int]
  /\ lockToken \in [Jobs -> Nat]
  /\ elapsed \in [Jobs -> BOOLEAN]
  /\ batchStatus \in [Batches -> BatchOpen \union BatchClosed]
  /\ succeededJobs \in [Batches -> Nat]
  /\ failedJobs \in [Batches -> Nat]
  /\ pc \in [Processors -> Steps]
  /\ candidates \in [Processors -> SUBSET Jobs]
  /\ held \in [Processors -> [Jobs -> Nat]]
  /\ current \in [Processors -> Jobs \union {NoJob}]
  /\ write \in [Processors -> Writes \union {"none"}]
  /\ counts \in [Processors -> [Queries -> SUBSET Jobs]]
  /\ counted \in [Processors -> SUBSET Queries]
  /\ claims \in [Jobs -> Nat]
  /\ deferrals \in [Jobs -> Nat]
  /\ disturbances \in Nat

Init ==
  /\ jobStatus = [j \in Jobs |-> "ABSENT"]
  /\ attemptCount = [j \in Jobs |-> 0]
  /\ lockToken = NoTokens
  /\ elapsed = [j \in Jobs |-> FALSE]
  /\ batchStatus = [b \in Batches |-> "ABSENT"]
  /\ succeededJobs = [b \in Batches |-> 0]
  /\ failedJobs = [b \in Batches |-> 0]
  /\ pc = [p \in Processors |-> "idle"]
  /\ candidates = [p \in Processors |-> {}]
  /\ held = [p \in Processors |-> NoTokens]
  /\ current = [p \in Processors |-> NoJob]
  /\ write = [p \in Processors |-> "none"]
  /\ counts = [p \in Processors |-> NoCounts]
  /\ counted = [p \in Processors |-> {}]
  /\ claims = NoTokens
  /\ deferrals = NoTokens
  /\ disturbances = 0

Disturb ==
  /\ disturbances < MaxDisturbances
  /\ disturbances' = disturbances + 1

------------------------------------------------------------------------------
(***************************************************************************)
(* A batch and its jobs are inserted by one transaction, each job due at   *)
(* once.  A second request with the same key finds the batch and changes   *)
(* nothing.                                                                *)
(***************************************************************************)
CreateBatch(b) ==
  /\ batchStatus[b] = "ABSENT"
  /\ batchStatus' = [batchStatus EXCEPT ![b] = "QUEUED"]
  /\ jobStatus' = [j \in Jobs |-> IF BatchOf[j] = b THEN "QUEUED" ELSE jobStatus[j]]
  /\ elapsed' = [j \in Jobs |-> IF BatchOf[j] = b THEN TRUE ELSE elapsed[j]]
  /\ UNCHANGED <<attemptCount, lockToken, succeededJobs, failedJobs, pc,
                 candidates, held, current, txVars, historyVars>>

Claimable_NoTakeOver(j) == jobStatus[j] \in Waiting /\ elapsed[j]

(***************************************************************************)
(* The condition findMany and updateMany of a claim share: a waiting job   *)
(* that is due, or a claimed one whose lease has gone stale.               *)
(***************************************************************************)
Claimable(j) == jobStatus[j] \in Active /\ elapsed[j]

(***************************************************************************)
(* Some open transaction has written the row of j.                         *)
(***************************************************************************)
RowLocked(j) ==
  \E p \in Processors : pc[p] = "writing" /\ current[p] = j

(***************************************************************************)
(* The claim's findMany: up to ClaimLimit of the due jobs in reach.  Which *)
(* ones when there are more (nextAttemptAt, createdAt) is left open.       *)
(***************************************************************************)
FindCandidates(p) ==
  LET due == {j \in Reach[p] : Claimable(j)}
  IN  /\ pc[p] = "idle"
      /\ \E found \in SUBSET due :
           /\ found # {}
           /\ Cardinality(found) <= ClaimLimit
           /\ found # due => Cardinality(found) = ClaimLimit
           /\ candidates' = [candidates EXCEPT ![p] = found]
      /\ pc' = [pc EXCEPT ![p] = "claiming"]
      /\ UNCHANGED <<rowVars, batchVars, held, current, txVars, historyVars>>

(***************************************************************************)
(* randomUUID: a token no earlier claim of the job has had.                *)
(***************************************************************************)
NewToken(j) == claims[j] + 1

(***************************************************************************)
(* The conditional updateMany of one candidate.  It waits for a row lock   *)
(* and evaluates its condition on the row it then finds: the job may have  *)
(* been settled or claimed since it was read.  maxAttempts is not part of  *)
(* the condition.                                                          *)
(***************************************************************************)
ClaimJob(p, j) ==
  /\ pc[p] = "claiming"
  /\ j \in candidates[p]
  /\ ~RowLocked(j)
  /\ candidates' = [candidates EXCEPT ![p] = @ \ {j}]
  /\ \/ /\ Claimable(j)
        /\ claims' = [claims EXCEPT ![j] = @ + 1]
        /\ jobStatus' = [jobStatus EXCEPT ![j] = "PROCESSING"]
        /\ lockToken' = [lockToken EXCEPT ![j] = NewToken(j)]
        /\ elapsed' = [elapsed EXCEPT ![j] = FALSE]
        /\ attemptCount' = [attemptCount EXCEPT ![j] = @ + 1]
        /\ held' = [held EXCEPT ![p][j] = NewToken(j)]
     \/ /\ ~Claimable(j)
        /\ UNCHANGED <<claims, rowVars, held>>
  /\ UNCHANGED <<batchVars, pc, current, txVars, deferrals, disturbances>>

FinishClaim_AnyBatchStatus(p) ==
  LET mine == {j \in Jobs : held[p][j] # 0}
      kept == {j \in mine : lockToken[j] = held[p][j]}
  IN  /\ pc[p] = "claiming"
      /\ candidates[p] = {}
      /\ batchStatus' = [b \in Batches |->
           IF \E j \in mine : BatchOf[j] = b THEN "RUNNING" ELSE batchStatus[b]]
      /\ held' = [held EXCEPT ![p] =
           [j \in Jobs |-> IF j \in kept THEN held[p][j] ELSE 0]]
      /\ pc' = [pc EXCEPT ![p] = IF kept = {} THEN "idle" ELSE "processing"]
      /\ UNCHANGED <<rowVars, succeededJobs, failedJobs, candidates, current,
                     txVars, historyVars>>

(***************************************************************************)
(* After the loop: mark the batches of the claimed jobs as running if they *)
(* are still queued, and keep the jobs whose token is still ours.          *)
(***************************************************************************)
FinishClaim(p) ==
  LET mine == {j \in Jobs : held[p][j] # 0}
      kept == {j \in mine : lockToken[j] = held[p][j]}
  IN  /\ pc[p] = "claiming"
      /\ candidates[p] = {}
      /\ batchStatus' = [b \in Batches |->
           IF batchStatus[b] = "QUEUED" /\ \E j \in mine : BatchOf[j] = b
           THEN "RUNNING" ELSE batchStatus[b]]
      /\ held' = [held EXCEPT ![p] =
           [j \in Jobs |-> IF j \in kept THEN held[p][j] ELSE 0]]
      /\ pc' = [pc EXCEPT ![p] = IF kept = {} THEN "idle" ELSE "processing"]
      /\ UNCHANGED <<rowVars, succeededJobs, failedJobs, candidates, current,
                     txVars, historyVars>>

------------------------------------------------------------------------------
(***************************************************************************)
(* The repository records a result only under the lease it was claimed     *)
(* with: the row is PROCESSING and carries the caller's token.             *)
(***************************************************************************)
HoldsLease_IgnoresToken(p, j) == jobStatus[j] = "PROCESSING"

HoldsLease(p, j) == jobStatus[j] = "PROCESSING" /\ lockToken[j] = held[p][j]

(***************************************************************************)
(* What each kind of result writes to the job row.                         *)
(***************************************************************************)
NewStatus_ProviderState(w) ==
  CASE w = "complete" -> "SUCCEEDED"
    [] w = "defer" -> "DEFERRED"
    [] w = "retry" -> "RETRY_SCHEDULED"
    [] OTHER -> "FAILED"

NewStatus(w) ==
  CASE w = "complete" -> "SUCCEEDED"
    [] w \in {"defer", "retry"} -> "RETRY_SCHEDULED"
    [] OTHER -> "FAILED"

Refund_None(w) == 0

Refund(w) == IF w = "defer" THEN 1 ELSE 0

(***************************************************************************)
(* Processor p reports a result of its current job: it opens the           *)
(* transaction that writes w, or finds its lease lost and moves on.        *)
(***************************************************************************)
Report(p, j, w) ==
  IF HoldsLease(p, j)
  THEN /\ pc' = [pc EXCEPT ![p] = "writing"]
       /\ current' = [current EXCEPT ![p] = j]
       /\ write' = [write EXCEPT ![p] = w]
       /\ counts' = [counts EXCEPT ![p] = NoCounts]
       /\ counted' = [counted EXCEPT ![p] = {}]
       /\ UNCHANGED held
  ELSE /\ pc' = [pc EXCEPT ![p] = "processing"]
       /\ current' = [current EXCEPT ![p] = NoJob]
       /\ held' = [held EXCEPT ![p][j] = 0]
       /\ UNCHANGED txVars

(***************************************************************************)
(* Take the next claimed job.  The authorisation was judged when the job   *)
(* was claimed; if it was not valid the job fails for good.                *)
(***************************************************************************)
QueryProvider(p, j) ==
  /\ pc[p] = "processing"
  /\ held[p][j] # 0
  /\ pc' = [pc EXCEPT ![p] = "querying"]
  /\ current' = [current EXCEPT ![p] = j]
  /\ UNCHANGED <<rowVars, batchVars, candidates, held, txVars, historyVars>>

RejectUnauthorized(p, j) ==
  /\ pc[p] = "processing"
  /\ held[p][j] # 0
  /\ Report(p, j, "giveUp")
  /\ UNCHANGED <<rowVars, batchVars, candidates, historyVars>>

(***************************************************************************)
(* The provider answers, asks to come back later, or fails.                *)
(***************************************************************************)
CompleteJob(p) ==
  /\ pc[p] = "querying"
  /\ Report(p, current[p], "complete")
  /\ UNCHANGED <<rowVars, batchVars, candidates, historyVars>>

DeferJob(p) ==
  /\ pc[p] = "querying"
  /\ Disturb
  /\ Report(p, current[p], "defer")
  /\ UNCHANGED <<rowVars, batchVars, candidates, claims, deferrals>>

(***************************************************************************)
(* Does a retriable failure leave the job another attempt?                 *)
(***************************************************************************)
AttemptsLeft_OneMore(j) == attemptCount[j] <= MaxAttempts

AttemptsLeft(j) == attemptCount[j] < MaxAttempts

(***************************************************************************)
(* failJobWithAudit: after a provider error, or after an exception while   *)
(* recording a result, which counts as retriable.                          *)
(***************************************************************************)
FailJob(p, retriable) ==
  LET j == current[p]
  IN  /\ \/ pc[p] = "querying"
         \/ pc[p] = "recovering" /\ retriable
      /\ Report(p, j, IF retriable /\ AttemptsLeft(j) THEN "retry" ELSE "giveUp")
      /\ UNCHANGED <<rowVars, batchVars, candidates, historyVars>>

------------------------------------------------------------------------------
(***************************************************************************)
(* The statuses each count query of updateBatchStatus selects.  The total  *)
(* is not a query of the model: a batch never gains or loses a job.        *)
(***************************************************************************)
Selected_ForgetsRetries(c) ==
  CASE c = "succeeded" -> {"SUCCEEDED"}
    [] c = "failed" -> {"FAILED"}
    [] c = "active" -> {"QUEUED", "PROCESSING"}

Selected(c) ==
  CASE c = "succeeded" -> {"SUCCEEDED"}
    [] c = "failed" -> {"FAILED"}
    [] c = "active" -> Active

(***************************************************************************)
(* A transaction sees its own write over what is committed.  A count is    *)
(* kept as the set of jobs counted: the code compares counts only with     *)
(* zero and with the total.  Promise.all fixes no order of the queries.    *)
(***************************************************************************)
VisibleStatus(p, j) ==
  IF j = current[p] THEN NewStatus(write[p]) ELSE jobStatus[j]

CountJobs(p, c) ==
  LET b == BatchOf[current[p]]
  IN  /\ pc[p] = "writing"
      /\ c \notin counted[p]
      /\ counts' = [counts EXCEPT ![p][c] =
           {j \in JobsOf(b) : VisibleStatus(p, j) \in Selected(c)}]
      /\ counted' = [counted EXCEPT ![p] = @ \union {c}]
      /\ UNCHANGED <<rowVars, batchVars, pc, candidates, held, current, write,
                     historyVars>>

Verdict(b, n) ==
  CASE n["active"] # {} -> "RUNNING"
    [] n["active"] = {} /\ n["succeeded"] = JobsOf(b) -> "SUCCEEDED"
    [] n["active"] = {} /\ n["failed"] = JobsOf(b)
         /\ n["succeeded"] # JobsOf(b) -> "FAILED"
    [] OTHER -> "PARTIAL"

(***************************************************************************)
(* The batch row is written and the transaction commits.  next is where    *)
(* the processor goes on: normally to its next job, to the catch block     *)
(* when the acknowledgement of the commit is lost.                         *)
(***************************************************************************)
Commit(p, next) ==
  LET j == current[p]
      b == BatchOf[j]
      w == write[p]
  IN  /\ pc[p] = "writing"
      /\ counted[p] = Queries
      /\ jobStatus' = [jobStatus EXCEPT ![j] = NewStatus(w)]
      /\ attemptCount' = [attemptCount EXCEPT ![j] = @ - Refund(w)]
      /\ lockToken' = [lockToken EXCEPT ![j] = 0]
      /\ elapsed' = [elapsed EXCEPT ![j] = NewStatus(w) \in Settled]
      /\ deferrals' = [deferrals EXCEPT ![j] =
           IF w = "defer" THEN @ + 1 ELSE @]
      /\ batchStatus' = [batchStatus EXCEPT ![b] = Verdict(b, counts[p])]
      /\ succeededJobs' =
           [succeededJobs EXCEPT ![b] = Cardinality(counts[p]["succeeded"])]
      /\ failedJobs' =
           [failedJobs EXCEPT ![b] = Cardinality(counts[p]["failed"])]
      /\ pc' = [pc EXCEPT ![p] = next]
      /\ write' = [write EXCEPT ![p] = "none"]
      /\ counts' = [counts EXCEPT ![p] = NoCounts]
      /\ counted' = [counted EXCEPT ![p] = {}]
      /\ UNCHANGED <<candidates, claims>>

CommitResult(p) ==
  /\ Commit(p, "processing")
  /\ current' = [current EXCEPT ![p] = NoJob]
  /\ held' = [held EXCEPT ![p][current[p]] = 0]
  /\ UNCHANGED disturbances

CommitUnacknowledged(p) ==
  /\ Commit(p, "recovering")
  /\ write[p] \in {"complete", "defer"}
  /\ Disturb
  /\ UNCHANGED <<current, held>>

(***************************************************************************)
(* The transaction of a completion or a deferral rolls back: the exception *)
(* is caught and reported as a retriable failure.                          *)
(***************************************************************************)
RollBack(p) ==
  /\ pc[p] = "writing"
  /\ write[p] \in {"complete", "defer"}
  /\ Disturb
  /\ pc' = [pc EXCEPT ![p] = "recovering"]
  /\ write' = [write EXCEPT ![p] = "none"]
  /\ counts' = [counts EXCEPT ![p] = NoCounts]
  /\ counted' = [counted EXCEPT ![p] = {}]
  /\ UNCHANGED <<rowVars, batchVars, candidates, held, current, claims, deferrals>>

FinishCycle(p) ==
  /\ pc[p] = "processing"
  /\ held[p] = NoTokens
  /\ pc' = [pc EXCEPT ![p] = "idle"]
  /\ UNCHANGED <<rowVars, batchVars, candidates, held, current, txVars, historyVars>>

(***************************************************************************)
(* The cycle ends early: the process dies, or an exception of a claim or   *)
(* of failJobWithAudit escapes to runCycle.  What was not committed is     *)
(* lost, and the jobs it held stay PROCESSING until their leases expire.   *)
(***************************************************************************)
AbandonCycle(p) ==
  /\ pc[p] # "idle"
  /\ Disturb
  /\ pc' = [pc EXCEPT ![p] = "idle"]
  /\ candidates' = [candidates EXCEPT ![p] = {}]
  /\ held' = [held EXCEPT ![p] = NoTokens]
  /\ current' = [current EXCEPT ![p] = NoJob]
  /\ write' = [write EXCEPT ![p] = "none"]
  /\ counts' = [counts EXCEPT ![p] = NoCounts]
  /\ counted' = [counted EXCEPT ![p] = {}]
  /\ UNCHANGED <<rowVars, batchVars, claims, deferrals>>

------------------------------------------------------------------------------
(***************************************************************************)
(* Time passes.  A lease may go stale while its holder still works: the    *)
(* jobs of a cycle are processed one after the other, all claimed at the   *)
(* cycle's start.                                                          *)
(***************************************************************************)
HeldByLiveProcessor(j) ==
  \E p \in Processors : held[p][j] # 0 /\ held[p][j] = lockToken[j]

RetryComesDue(j) ==
  /\ jobStatus[j] \in Waiting
  /\ ~elapsed[j]
  /\ elapsed' = [elapsed EXCEPT ![j] = TRUE]
  /\ UNCHANGED <<jobStatus, attemptCount, lockToken, batchVars, pc, candidates,
                 held, current, txVars, historyVars>>

AbandonedLeaseExpires(j) ==
  /\ jobStatus[j] = "PROCESSING"
  /\ ~elapsed[j]
  /\ ~HeldByLiveProcessor(j)
  /\ elapsed' = [elapsed EXCEPT ![j] = TRUE]
  /\ UNCHANGED <<jobStatus, attemptCount, lockToken, batchVars, pc, candidates,
                 held, current, txVars, historyVars>>

LeaseOutlived(j) ==
  /\ jobStatus[j] = "PROCESSING"
  /\ ~elapsed[j]
  /\ HeldByLiveProcessor(j)
  /\ Disturb
  /\ elapsed' = [elapsed EXCEPT ![j] = TRUE]
  /\ UNCHANGED <<jobStatus, attemptCount, lockToken, batchVars, pc, candidates,
                 held, current, txVars, claims, deferrals>>

------------------------------------------------------------------------------
(***************************************************************************)
(* The steps a running processor takes by itself once it may.              *)
(***************************************************************************)
Work(p) ==
  \/ FindCandidates(p)
  \/ \E j \in Jobs : ClaimJob(p, j)
  \/ FinishClaim(p)
  \/ \E j \in Jobs : QueryProvider(p, j)
  \/ \E j \in Jobs : RejectUnauthorized(p, j)
  \/ CompleteJob(p)
  \/ \E retriable \in BOOLEAN : FailJob(p, retriable)
  \/ \E c \in Queries : CountJobs(p, c)
  \/ CommitResult(p)
  \/ FinishCycle(p)

Next ==
  \/ \E b \in Batches : CreateBatch(b)
  \/ \E p \in Processors :
       \/ Work(p)
       \/ DeferJob(p)
       \/ CommitUnacknowledged(p)
       \/ RollBack(p)
       \/ AbandonCycle(p)
  \/ \E j \in Jobs :
       \/ RetryComesDue(j)
       \/ AbandonedLeaseExpires(j)
       \/ LeaseOutlived(j)

Spec == Init /\ [][Next]_vars

(***************************************************************************)
(* The worker loops for ever over its cycle, every call of a cycle         *)
(* returns (the provider's HTTP client has time-outs), and time passes.    *)
(* Requesting a batch and every disturbance stay optional.                 *)
(***************************************************************************)
Fairness ==
  /\ \A p \in Processors : WF_vars(Work(p))
  /\ \A j \in Jobs : WF_vars(RetryComesDue(j)) /\ WF_vars(AbandonedLeaseExpires(j))

FairSpec == Spec /\ Fairness

------------------------------------------------------------------------------
(* Properties *)

(***************************************************************************)
(* The lease protocol.  A job carries a token exactly while it is          *)
(* PROCESSING; the token is that of its latest claim; and a processor with *)
(* an open transaction on a job still owns the job's lease, although it    *)
(* checked its token in an earlier step (completeJobWithAudit,             *)
(* deferJobWithAudit, failJobWithAudit).  So a late answer of a processor  *)
(* whose lease was taken over never reaches the row.                       *)
(***************************************************************************)
WriterOwnsLease ==
  /\ \A j \in Jobs : lockToken[j] = (IF jobStatus[j] = "PROCESSING" THEN claims[j] ELSE 0)
  /\ \A p \in Processors : pc[p] = "writing" => HoldsLease(p, current[p])

(***************************************************************************)
(* Two processors never hold the same lease of a job.                      *)
(***************************************************************************)
LeasesDisjoint ==
  \A p, q \in Processors, j \in Jobs :
    held[p][j] # 0 /\ held[p][j] = held[q][j] => p = q

(***************************************************************************)
(* attemptCount is charged once per claim and refunded once per provider   *)
(* wait ("sem consumir a franquia de falhas"), whatever crashes and        *)
(* take-overs happened in between; a claimed or settled job has been       *)
(* charged at least one attempt, so deferJobWithAudit never drives the     *)
(* counter below zero.                                                     *)
(***************************************************************************)
AttemptLedger ==
  \A j \in Jobs :
    /\ attemptCount[j] = claims[j] - deferrals[j]
    /\ attemptCount[j] >= (IF jobStatus[j] \in Settled \union {"PROCESSING"} THEN 1 ELSE 0)

(***************************************************************************)
(* The claim does not look at maxAttempts, only a failure that is reported *)
(* does.  Still a job is claimed, and the provider asked about it, at most *)
(* maxAttempts times, and once more for each wait the provider asked for   *)
(* and each time its processor died or outlived its lease.                 *)
(***************************************************************************)
ClaimsBounded == \A j \in Jobs : claims[j] <= MaxAttempts + disturbances

(***************************************************************************)
(* A closed batch has no active job, SUCCEEDED and FAILED are unanimous,   *)
(* and the stored counters never exceed the truth: what updateBatchStatus  *)
(* derives from counts taken at different instants is not premature.       *)
(***************************************************************************)
BatchVerdictSound ==
  \A b \in Batches :
    /\ batchStatus[b] \in BatchClosed => \A j \in JobsOf(b) : jobStatus[j] \in Settled
    /\ batchStatus[b] \in Settled => \A j \in JobsOf(b) : jobStatus[j] = batchStatus[b]
    /\ succeededJobs[b] <= Cardinality({j \in JobsOf(b) : jobStatus[j] = "SUCCEEDED"})
    /\ failedJobs[b] <= Cardinality({j \in JobsOf(b) : jobStatus[j] = "FAILED"})

(***************************************************************************)
(* A settled job is never claimed, retried or settled again, whichever     *)
(* processor still has it in its list.                                     *)
(***************************************************************************)
SettledJobsStay ==
  [][\A j \in Jobs : jobStatus[j] \in Settled =>
       UNCHANGED <<jobStatus[j], attemptCount[j], lockToken[j], claims[j]>>]_vars

(***************************************************************************)
(* A closed batch is never reopened nor judged anew.                       *)
(***************************************************************************)
BatchVerdictFinal ==
  [][\A b \in Batches : batchStatus[b] \in BatchClosed =>
       batchStatus'[b] = batchStatus[b]]_vars

(***************************************************************************)
(* "O lote termina como SUCCEEDED, PARTIAL ou FAILED": once every job of a *)
(* batch is settled, the batch says so.                                    *)
(***************************************************************************)
SettledBatchIsClosed ==
  \A b \in Batches :
    /\ batchStatus[b] # "ABSENT"
    /\ \A j \in JobsOf(b) : jobStatus[j] \in Settled
    => batchStatus[b] \in BatchClosed

(***************************************************************************)
(* Every requested job is eventually settled, whatever crashes, failed     *)
(* transactions and take-overs delay it.                                   *)
(***************************************************************************)
EveryJobSettles ==
  \A j \in Jobs : (jobStatus[j] = "QUEUED") ~> (jobStatus[j] \in Settled)

(***************************************************************************)
(* The queue implements what it promises to the requester.                 *)
(***************************************************************************)
Promise == INSTANCE SyncPromise WITH
  outcome <- [j \in Jobs |->
    IF jobStatus[j] \in Settled THEN jobStatus[j] ELSE "pending"],
  verdict <- [b \in Batches |->
    IF batchStatus[b] \in BatchClosed THEN batchStatus[b] ELSE "open"]

PromiseKept == Promise!Spec

------------------------------------------------------------------------------
(* Strengthenings the proofs of EcacQueueProofs use *)

(***************************************************************************)
(* A processor past the claim has a current job where it needs one.        *)
(***************************************************************************)
CurrentInv ==
  \A p \in Processors :
    /\ pc[p] \in {"querying", "recovering", "writing"} => current[p] \in Jobs
    /\ pc[p] = "writing" => write[p] \in Writes

(***************************************************************************)
(* A batch and its jobs come into being together.                          *)
(***************************************************************************)
AbsentInv ==
  \A j \in Jobs : jobStatus[j] = "ABSENT" <=> batchStatus[BatchOf[j]] = "ABSENT"

(***************************************************************************)
(* No processor holds a token that was never issued.                       *)
(***************************************************************************)
TokenInv ==
  /\ \A p \in Processors, j \in Jobs : held[p][j] <= claims[j]
  /\ \A j \in Jobs : jobStatus[j] = "PROCESSING" => claims[j] # 0

LeaseInv == CurrentInv /\ AbsentInv /\ TokenInv /\ LeasesDisjoint /\ WriterOwnsLease

(***************************************************************************)
(* A job that may be claimed is one claim below the bound: a holder that   *)
(* has left it behind, or is about to put it off, has been charged for as  *)
(* a disturbance, and a retry found an attempt left.                       *)
(***************************************************************************)
Unclaimed(j) ==
  \/ jobStatus[j] \in Waiting \union {"ABSENT"}
  \/ jobStatus[j] = "PROCESSING" /\ (elapsed[j] \/ ~HeldByLiveProcessor(j))

ChargeInv ==
  /\ \A j \in Jobs :
       /\ deferrals[j] <= disturbances
       /\ claims[j] <= MaxAttempts + disturbances
       /\ Unclaimed(j) => claims[j] < MaxAttempts + disturbances
  /\ \A p \in Processors : pc[p] = "writing" =>
       /\ write[p] = "retry" => AttemptsLeft(current[p])
       /\ write[p] = "defer" =>
            /\ deferrals[current[p]] < disturbances
            /\ claims[current[p]] < MaxAttempts + disturbances

(***************************************************************************)
(* What an open transaction has counted so far can only be exceeded: a job *)
(* counted as settled stays so, and one not counted as active has settled. *)
(***************************************************************************)
CountsInv ==
  \A p \in Processors : pc[p] = "writing" =>
    \A j \in Jobs :
      /\ j \in counts[p]["succeeded"] =>
           BatchOf[j] = BatchOf[current[p]] /\ VisibleStatus(p, j) = "SUCCEEDED"
      /\ j \in counts[p]["failed"] =>
           BatchOf[j] = BatchOf[current[p]] /\ VisibleStatus(p, j) = "FAILED"
      /\ "active" \in counted[p] /\ BatchOf[j] = BatchOf[current[p]]
           /\ j \notin counts[p]["active"] => VisibleStatus(p, j) \in Settled

(***************************************************************************)
(* The part of BatchVerdictSound about the verdict.                        *)
(***************************************************************************)
VerdictInv ==
  \A j \in Jobs :
    /\ batchStatus[BatchOf[j]] \in BatchClosed => jobStatus[j] \in Settled
    /\ batchStatus[BatchOf[j]] \in Settled => jobStatus[j] = batchStatus[BatchOf[j]]

------------------------------------------------------------------------------
(* What would repair SettledBatchIsClosed *)

(***************************************************************************)
(* That of the transactions of one batch only one counts at a time, as     *)
(* they would if updateBatchStatus locked the batch's row before its first *)
(* query.  Until they count, they may still overlap.                       *)
(***************************************************************************)
CountsSerialised ==
  \A p, q \in Processors :
    /\ pc[p] = "writing" /\ counted[p] # {}
    /\ pc[q] = "writing" /\ counted[q] # {}
    /\ BatchOf[current[p]] = BatchOf[current[q]]
    => p = q

(***************************************************************************)
(* What a transaction has counted is then what it would count now.         *)
(***************************************************************************)
ExactCounts ==
  \A p \in Processors : pc[p] = "writing" =>
    \A c \in counted[p] :
      counts[p][c] = {j \in JobsOf(BatchOf[current[p]]) : VisibleStatus(p, j) \in Selected(c)}

(***************************************************************************)
(* And a batch whose jobs are settled is not only closed: its verdict and  *)
(* its counters are the true ones.                                         *)
(***************************************************************************)
Standing(b) == [c \in Queries |-> {j \in JobsOf(b) : jobStatus[j] \in Selected(c)}]

SettledBatchIsExact ==
  \A b \in Batches :
    /\ batchStatus[b] # "ABSENT"
    /\ \A j \in JobsOf(b) : jobStatus[j] \in Settled
    => /\ batchStatus[b] = Verdict(b, Standing(b))
       /\ succeededJobs[b] = Cardinality(Standing(b)["succeeded"])
       /\ failedJobs[b] = Cardinality(Standing(b)["failed"])

==============================================================================
