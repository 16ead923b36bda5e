--------------------------- MODULE EcacQueueProofs ---------------------------
(***************************************************************************)
(* Proofs about EcacQueue, for every set of jobs, batches and processors   *)
(* and every bound.                                                        *)
(***************************************************************************)
EXTENDS EcacQueue, FiniteSetTheorems, TLAPS

(***************************************************************************)
(* A count query counts a natural number of jobs, and counts more in a     *)
(* larger set.                                                             *)
(***************************************************************************)
LEMMA CountTyping ==
  ASSUME NEW S \in SUBSET Jobs
  PROVE  /\ Cardinality(S) \in Nat
         /\ \A R \in SUBSET S : Cardinality(R) <= Cardinality(S)
<1>1. IsFiniteSet(S)
  BY FS_Subset, QueueAssumption
<1> QED
  BY <1>1, FS_Subset, FS_CardinalityType

(***************************************************************************)
(* Changing one token a processor holds.                                   *)
(***************************************************************************)
LEMMA HeldTyping ==
  ASSUME NEW h \in [Processors -> [Jobs -> Nat]], NEW p \in Processors, NEW j,
         NEW n \in Nat
  PROVE  [h EXCEPT ![p][j] = n] \in [Processors -> [Jobs -> Nat]]
<1>1. [h EXCEPT ![p][j] = n] = [h EXCEPT ![p] = [h[p] EXCEPT ![j] = n]]
  OBVIOUS
<1>2. [h[p] EXCEPT ![j] = n] \in [Jobs -> Nat]
  OBVIOUS
<1> QED
  BY <1>1, <1>2

(***************************************************************************)
(* Reporting a result leaves the processor's own state well typed, even    *)
(* were there no current job.                                              *)
(***************************************************************************)
LEMMA ReportTyping ==
  ASSUME TypeOK, NEW p \in Processors, NEW j \in Jobs \union {NoJob}, NEW w \in Writes,
         Report(p, j, w)
  PROVE  /\ pc' \in [Processors -> Steps]
         /\ current' \in [Processors -> Jobs \union {NoJob}]
         /\ write' \in [Processors -> Writes \union {"none"}]
         /\ counts' \in [Processors -> [Queries -> SUBSET Jobs]]
         /\ counted' \in [Processors -> SUBSET Queries]
         /\ held' \in [Processors -> [Jobs -> Nat]]
<1>1. CASE HoldsLease(p, j)
  <2>1. NoCounts \in [Queries -> SUBSET Jobs]
    BY DEF NoCounts
  <2>2. counts' \in [Processors -> [Queries -> SUBSET Jobs]]
    BY <1>1, <2>1 DEF Report, TypeOK
  <2>3. counted' \in [Processors -> SUBSET Queries]
    BY <1>1 DEF Report, TypeOK
  <2>4. current' \in [Processors -> Jobs \union {NoJob}]
    BY <1>1 DEF Report, TypeOK
  <2> QED
    BY <1>1, <2>2, <2>3, <2>4 DEF Report, TypeOK, Steps
<1>2. CASE ~HoldsLease(p, j)
  <2>1. UNCHANGED txVars
    BY <1>2 DEF Report
  <2>2. held' = [held EXCEPT ![p][j] = 0]
    BY <1>2 DEF Report
  <2>3. held' \in [Processors -> [Jobs -> Nat]]
    BY <2>2, HeldTyping DEF TypeOK
  <2> QED
    BY <1>2, <2>1, <2>3 DEF Report, TypeOK, Steps, txVars
<1> QED
  BY <1>1, <1>2

(***************************************************************************)
(* So does the commit of a transaction, the rows included.                 *)
(***************************************************************************)
LEMMA CommitTyping ==
  ASSUME TypeOK, NEW p \in Processors, NEW next \in Steps, Commit(p, next),
         current' \in [Processors -> Jobs \union {NoJob}],
         held' \in [Processors -> [Jobs -> Nat]],
         disturbances' \in Nat
  PROVE  TypeOK'
<1> DEFINE j == current[p]
           b == BatchOf[j]
           st == NewStatus(write[p])
           v == Verdict(b, counts[p])
<1>1. /\ jobStatus' = [jobStatus EXCEPT ![j] = st]
      /\ attemptCount' = [attemptCount EXCEPT ![j] = @ - Refund(write[p])]
      /\ lockToken' = [lockToken EXCEPT ![j] = 0]
      /\ elapsed' = [elapsed EXCEPT ![j] = st \in Settled]
      /\ deferrals' = [deferrals EXCEPT ![j] = IF write[p] = "defer" THEN @ + 1 ELSE @]
      /\ batchStatus' = [batchStatus EXCEPT ![b] = v]
      /\ succeededJobs' = [succeededJobs EXCEPT ![b] = Cardinality(counts[p]["succeeded"])]
      /\ failedJobs' = [failedJobs EXCEPT ![b] = Cardinality(counts[p]["failed"])]
      /\ pc' = [pc EXCEPT ![p] = next]
      /\ write' = [write EXCEPT ![p] = "none"]
      /\ counts' = [counts EXCEPT ![p] = NoCounts]
      /\ counted' = [counted EXCEPT ![p] = {}]
      /\ UNCHANGED <<candidates, claims>>
  BY DEF Commit
<1>2. st \in Active \union Settled \union {"ABSENT"}
  BY DEF NewStatus, Active, Waiting, Settled
<1>3. v \in BatchOpen \union BatchClosed
  BY DEF Verdict, BatchOpen, BatchClosed, Settled
<1>4. Refund(write[p]) \in Int
  BY DEF Refund
<1>5. Cardinality(counts[p]["succeeded"]) \in Nat /\ Cardinality(counts[p]["failed"]) \in Nat
  BY CountTyping DEF TypeOK, Queries
<1>6. NoCounts \in [Queries -> SUBSET Jobs]
  BY DEF NoCounts
<1>7. counts' \in [Processors -> [Queries -> SUBSET Jobs]]
  BY <1>1, <1>6 DEF TypeOK
<1>8. attemptCount' \in [Jobs -> Int] /\ deferrals' \in [Jobs -> Nat]
  <2>1. CASE j \in Jobs
    <3>1. attemptCount[j] - Refund(write[p]) \in Int /\ deferrals[j] + 1 \in Nat
      BY <2>1, <1>4 DEF TypeOK
    <3> QED
      BY <1>1, <3>1 DEF TypeOK
  <2>2. CASE j \notin Jobs
    BY <1>1, <2>2 DEF TypeOK
  <2> QED
    BY <2>1, <2>2
<1>10. (st \in Settled) \in BOOLEAN
  OBVIOUS
<1>11. elapsed' \in [Jobs -> BOOLEAN]
  BY <1>1, <1>10 DEF TypeOK
<1>12. /\ jobStatus' \in [Jobs -> Active \union Settled \union {"ABSENT"}]
       /\ batchStatus' \in [Batches -> BatchOpen \union BatchClosed]
  BY <1>1, <1>2, <1>3 DEF TypeOK
<1>13. /\ succeededJobs' \in [Batches -> Nat]
       /\ failedJobs' \in [Batches -> Nat]
       /\ lockToken' \in [Jobs -> Nat]
  BY <1>1, <1>5 DEF TypeOK
<1>14. /\ pc' \in [Processors -> Steps]
       /\ write' \in [Processors -> Writes \union {"none"}]
       /\ counted' \in [Processors -> SUBSET Queries]
       /\ candidates' \in [Processors -> SUBSET Jobs]
       /\ claims' \in [Jobs -> Nat]
  BY <1>1 DEF TypeOK
<1> QED
  BY <1>7, <1>8, <1>11, <1>12, <1>13, <1>14 DEF TypeOK

(***************************************************************************)
(* Every conjunct of the type invariant is kept by every step.             *)
(***************************************************************************)
THEOREM TypeCorrect == Spec => []TypeOK
<1>1. Init => TypeOK
  BY DEF Init, TypeOK, Active, Waiting, Settled, BatchOpen, Steps, Writes, NoCounts,
         NoTokens, Queries
<1>2. TypeOK /\ [Next]_vars => TypeOK'
  <2> SUFFICES ASSUME TypeOK, [Next]_vars PROVE TypeOK'
    OBVIOUS
  <2> USE DEF rowVars, batchVars, txVars, historyVars
  <2>1. ASSUME NEW b \in Batches, CreateBatch(b) PROVE TypeOK'
    BY <2>1 DEF CreateBatch, TypeOK, Active, Waiting, BatchOpen
  <2>2. ASSUME NEW p \in Processors, FindCandidates(p) PROVE TypeOK'
    <3>1. PICK found \in SUBSET Reach[p] : candidates' = [candidates EXCEPT ![p] = found]
      BY <2>2 DEF FindCandidates
    <3>2. found \in SUBSET Jobs
      BY QueueAssumption
    <3> QED
      BY <2>2, <3>1, <3>2 DEF FindCandidates, TypeOK, Steps
  <2>3. ASSUME NEW p \in Processors, NEW j \in Jobs, ClaimJob(p, j) PROVE TypeOK'
    <3>1. NewToken(j) \in Nat /\ claims[j] + 1 \in Nat
      BY DEF NewToken, TypeOK
    <3>2. candidates' \in [Processors -> SUBSET Jobs]
      BY <2>3 DEF ClaimJob, TypeOK
    <3>3. CASE ~Claimable(j)
      BY <2>3, <3>2, <3>3 DEF ClaimJob, TypeOK
    <3>4. CASE Claimable(j)
      <4>1. held' = [held EXCEPT ![p][j] = NewToken(j)]
        BY <2>3, <3>4 DEF ClaimJob
      <4>2. held' \in [Processors -> [Jobs -> Nat]]
        BY <4>1, <3>1, HeldTyping DEF TypeOK
      <4>3. attemptCount[j] + 1 \in Int
        BY DEF TypeOK
      <4>4. claims' \in [Jobs -> Nat] /\ attemptCount' \in [Jobs -> Int]
        BY <2>3, <3>4, <3>1, <4>3 DEF ClaimJob, TypeOK
      <4>5. jobStatus' \in [Jobs -> Active \union Settled \union {"ABSENT"}]
        BY <2>3, <3>4 DEF ClaimJob, TypeOK, Active
      <4>6. lockToken' = [lockToken EXCEPT ![j] = NewToken(j)]
        BY <2>3, <3>4 DEF ClaimJob
      <4>7. elapsed' = [elapsed EXCEPT ![j] = FALSE]
        BY <2>3, <3>4 DEF ClaimJob
      <4>8. UNCHANGED <<batchVars, pc, current, txVars, deferrals, disturbances>>
        BY <2>3 DEF ClaimJob
      <4> QED
        BY <3>1, <3>2, <4>2, <4>4, <4>5, <4>6, <4>7, <4>8 DEF TypeOK
    <3> QED
      BY <3>3, <3>4
  <2>4. ASSUME NEW p \in Processors, FinishClaim(p) PROVE TypeOK'
    BY <2>4 DEF FinishClaim, TypeOK, BatchOpen, Steps
  <2>5. ASSUME NEW p \in Processors, NEW j \in Jobs, QueryProvider(p, j) PROVE TypeOK'
    BY <2>5 DEF QueryProvider, TypeOK, Steps
  <2>6. ASSUME NEW p \in Processors, NEW j \in Jobs, RejectUnauthorized(p, j) PROVE TypeOK'
    BY <2>6, ReportTyping DEF RejectUnauthorized, TypeOK, Writes
  <2>7. ASSUME NEW p \in Processors, CompleteJob(p) PROVE TypeOK'
    <3>1. current[p] \in Jobs \union {NoJob} /\ "complete" \in Writes
      BY DEF TypeOK, Writes
    <3> QED
      BY <2>7, <3>1, ReportTyping DEF CompleteJob, TypeOK
  <2>8. ASSUME NEW p \in Processors, DeferJob(p) PROVE TypeOK'
    <3>1. current[p] \in Jobs \union {NoJob} /\ "defer" \in Writes
      BY DEF TypeOK, Writes
    <3>2. disturbances' \in Nat
      BY <2>8 DEF DeferJob, Disturb, TypeOK
    <3> QED
      BY <2>8, <3>1, <3>2, ReportTyping DEF DeferJob, TypeOK
  <2>9. ASSUME NEW p \in Processors, NEW retriable \in BOOLEAN, FailJob(p, retriable)
        PROVE TypeOK'
    <3>1. current[p] \in Jobs \union {NoJob} /\ {"retry", "giveUp"} \subseteq Writes
      BY DEF TypeOK, Writes
    <3> QED
      BY <2>9, <3>1, ReportTyping DEF FailJob, TypeOK
  <2>10. ASSUME NEW p \in Processors, NEW c \in Queries, CountJobs(p, c) PROVE TypeOK'
    <3> DEFINE n == {j \in JobsOf(BatchOf[current[p]]) : VisibleStatus(p, j) \in Selected(c)}
    <3>1. [counts[p] EXCEPT ![c] = n] \in [Queries -> SUBSET Jobs]
      BY DEF TypeOK, JobsOf
    <3>2. counts' = [counts EXCEPT ![p] = [counts[p] EXCEPT ![c] = n]]
      BY <2>10 DEF CountJobs
    <3>3. counts' \in [Processors -> [Queries -> SUBSET Jobs]]
      BY <3>1, <3>2 DEF TypeOK
    <3> QED
      BY <2>10, <3>3 DEF CountJobs, TypeOK
  <2>11. ASSUME NEW p \in Processors, CommitResult(p) PROVE TypeOK'
    <3>1. "processing" \in Steps
      BY DEF Steps
    <3>2. held' \in [Processors -> [Jobs -> Nat]]
      BY <2>11, HeldTyping DEF CommitResult, TypeOK
    <3>3. current' \in [Processors -> Jobs \union {NoJob}] /\ disturbances' \in Nat
      BY <2>11 DEF CommitResult, TypeOK
    <3> QED
      BY <2>11, <3>1, <3>2, <3>3, CommitTyping DEF CommitResult
  <2>12. ASSUME NEW p \in Processors, CommitUnacknowledged(p) PROVE TypeOK'
    <3>1. "recovering" \in Steps
      BY DEF Steps
    <3>2. disturbances' \in Nat
      BY <2>12 DEF CommitUnacknowledged, Disturb, TypeOK
    <3>3. current' = current /\ held' = held
      BY <2>12 DEF CommitUnacknowledged
    <3> QED
      BY <2>12, <3>1, <3>2, <3>3, CommitTyping DEF CommitUnacknowledged, TypeOK
  <2>13. NoCounts \in [Queries -> SUBSET Jobs] /\ NoTokens \in [Jobs -> Nat]
    BY DEF NoCounts, NoTokens
  <2>14. ASSUME NEW p \in Processors, RollBack(p) PROVE TypeOK'
    BY <2>14, <2>13 DEF RollBack, Disturb, TypeOK, Steps
  <2>15. ASSUME NEW p \in Processors, FinishCycle(p) PROVE TypeOK'
    BY <2>15 DEF FinishCycle, TypeOK, Steps
  <2>16. ASSUME NEW p \in Processors, AbandonCycle(p) PROVE TypeOK'
    BY <2>16, <2>13 DEF AbandonCycle, Disturb, TypeOK, Steps
  <2>17. ASSUME NEW j \in Jobs, RetryComesDue(j) PROVE TypeOK'
    BY <2>17 DEF RetryComesDue, TypeOK
  <2>18. ASSUME NEW j \in Jobs, AbandonedLeaseExpires(j) PROVE TypeOK'
    BY <2>18 DEF AbandonedLeaseExpires, TypeOK
  <2>19. ASSUME NEW j \in Jobs, LeaseOutlived(j) PROVE TypeOK'
    BY <2>19 DEF LeaseOutlived, Disturb, TypeOK
  <2>20. CASE UNCHANGED vars
    BY <2>20 DEF vars, TypeOK
  <2> QED
    BY <2>1, <2>2, <2>3, <2>4, <2>5, <2>6, <2>7, <2>8, <2>9, <2>10, <2>11, <2>12,
       <2>14, <2>15, <2>16, <2>17, <2>18, <2>19, <2>20 DEF Next, Work
<1> QED
  BY <1>1, <1>2, PTL DEF Spec

------------------------------------------------------------------------------
(***************************************************************************)
(* Most steps leave rows, tokens and claims alone: a processor forgets     *)
(* tokens, or opens a transaction on a job whose lease it has just found   *)
(* to be its own.                                                          *)
(***************************************************************************)
QuietStep ==
  /\ UNCHANGED <<jobStatus, lockToken, claims>>
  /\ \A b \in Batches : batchStatus'[b] = "ABSENT" <=> batchStatus[b] = "ABSENT"
  /\ \A p \in Processors, j \in Jobs : held'[p][j] \in {held[p][j], 0}
  /\ \A p \in Processors :
       /\ pc'[p] \in {"querying", "recovering", "writing"} => current'[p] \in Jobs
       /\ pc'[p] = "writing" =>
            /\ write'[p] \in Writes
            /\ HoldsLease(p, current'[p])
            /\ held'[p][current'[p]] = held[p][current'[p]]

LEMMA QuietKeepsLease ==
  ASSUME TypeOK, TypeOK', LeaseInv, QuietStep
  PROVE  LeaseInv'
<1>1. CurrentInv'
  BY DEF QuietStep, CurrentInv
<1>2. AbsentInv'
  BY QueueAssumption DEF QuietStep, AbsentInv, LeaseInv
<1>3. TokenInv'
  <2>1. ASSUME NEW p \in Processors, NEW j \in Jobs PROVE held'[p][j] <= claims[j]
    <3>1. held[p][j] <= claims[j] /\ claims[j] \in Nat
      BY DEF LeaseInv, TokenInv, TypeOK
    <3> QED
      BY <3>1 DEF QuietStep
  <2> QED
    BY <2>1 DEF QuietStep, TokenInv, LeaseInv
<1>4. LeasesDisjoint'
  <2> SUFFICES ASSUME NEW p \in Processors, NEW q \in Processors, NEW j \in Jobs,
                      held'[p][j] # 0, held'[p][j] = held'[q][j]
               PROVE  p = q
    BY DEF LeasesDisjoint
  <2> QED
    BY DEF QuietStep, LeasesDisjoint, LeaseInv
<1>5. WriterOwnsLease'
  BY DEF QuietStep, WriterOwnsLease, HoldsLease, LeaseInv
<1> QED
  BY <1>1, <1>2, <1>3, <1>4, <1>5 DEF LeaseInv

(***************************************************************************)
(* Reporting a result is quiet.                                            *)
(***************************************************************************)
LEMMA ReportIsQuiet ==
  ASSUME TypeOK, TypeOK', LeaseInv, NEW p \in Processors, NEW j \in Jobs, NEW w \in Writes,
         Report(p, j, w), UNCHANGED <<rowVars, batchVars, claims>>
  PROVE  QuietStep
<1>1. UNCHANGED <<jobStatus, lockToken, claims, batchStatus>>
  BY DEF rowVars, batchVars
<1>2. \A q \in Processors : q # p =>
        /\ pc'[q] = pc[q] /\ current'[q] = current[q] /\ write'[q] = write[q]
        /\ held'[q] = held[q]
  BY DEF Report, TypeOK, txVars
<1>3. CASE HoldsLease(p, j)
  <2>1. pc'[p] = "writing" /\ current'[p] = j /\ write'[p] = w /\ held'[p] = held[p]
    BY <1>3 DEF Report, TypeOK
  <2> QED
    BY <1>1, <1>2, <1>3, <2>1 DEF QuietStep, LeaseInv, CurrentInv, WriterOwnsLease
<1>4. CASE ~HoldsLease(p, j)
  <2>1. pc'[p] = "processing"
    BY <1>4 DEF Report, TypeOK
  <2>2. held' = [held EXCEPT ![p] = [held[p] EXCEPT ![j] = 0]]
    BY <1>4 DEF Report
  <2>3. \A i \in Jobs : held'[p][i] \in {held[p][i], 0}
    BY <2>2 DEF TypeOK
  <2> QED
    BY <1>1, <1>2, <2>1, <2>3 DEF QuietStep, LeaseInv, CurrentInv, WriterOwnsLease
<1> QED
  BY <1>3, <1>4

(***************************************************************************)
(* A claim issues a token nobody holds, of a row no transaction has        *)
(* written.                                                                *)
(***************************************************************************)
LEMMA ClaimKeepsLease ==
  ASSUME TypeOK, TypeOK', LeaseInv, NEW p \in Processors, NEW j \in Jobs, ClaimJob(p, j)
  PROVE  LeaseInv'
<1>1. CASE ~Claimable(j)
  <2>1. QuietStep
    BY <1>1 DEF ClaimJob, QuietStep, rowVars, batchVars, txVars, LeaseInv, CurrentInv,
                WriterOwnsLease
  <2> QED
    BY <2>1, QuietKeepsLease
<1>2. CASE Claimable(j)
  <2> DEFINE n == claims[j] + 1
  <2>1. /\ jobStatus' = [jobStatus EXCEPT ![j] = "PROCESSING"]
        /\ lockToken' = [lockToken EXCEPT ![j] = n]
        /\ claims' = [claims EXCEPT ![j] = n]
        /\ held' = [held EXCEPT ![p] = [held[p] EXCEPT ![j] = n]]
        /\ UNCHANGED <<batchStatus, pc, current, write>>
        /\ pc[p] = "claiming"
        /\ jobStatus[j] \in Active
    BY <1>2 DEF ClaimJob, NewToken, Claimable, batchVars, txVars
  <2>2. n \in Nat /\ n # 0 /\ claims[j] \in Nat /\ n > claims[j]
    BY DEF TypeOK
  <2>3. /\ held'[p][j] = n
        /\ \A q \in Processors, i \in Jobs : q # p \/ i # j => held'[q][i] = held[q][i]
    BY <2>1 DEF TypeOK
  <2>4. CurrentInv'
    BY <2>1 DEF CurrentInv, LeaseInv
  <2>5. AbsentInv'
    BY <2>1 DEF AbsentInv, LeaseInv, TypeOK, Active, Waiting
  <2>6. \A q \in Processors : held[q][j] \in Nat /\ held[q][j] # n
    BY <2>2 DEF LeaseInv, TokenInv, TypeOK
  <2>7. TokenInv'
    <3>1. ASSUME NEW q \in Processors, NEW i \in Jobs PROVE held'[q][i] <= claims'[i]
      <4>1. held[q][i] <= claims[i] /\ held[q][i] \in Nat
        BY DEF LeaseInv, TokenInv, TypeOK
      <4>2. CASE i = j
        BY <2>1, <2>2, <2>3, <4>1, <4>2 DEF TypeOK
      <4>3. CASE i # j
        BY <2>1, <2>3, <4>1, <4>3 DEF TypeOK
      <4> QED
        BY <4>2, <4>3
    <3>2. ASSUME NEW i \in Jobs, jobStatus'[i] = "PROCESSING" PROVE claims'[i] # 0
      BY <2>1, <2>2, <3>2 DEF LeaseInv, TokenInv, TypeOK
    <3> QED
      BY <3>1, <3>2 DEF TokenInv
  <2>8. LeasesDisjoint'
    <3> SUFFICES ASSUME NEW q \in Processors, NEW r \in Processors, NEW i \in Jobs,
                        held'[q][i] # 0, held'[q][i] = held'[r][i]
                 PROVE  q = r
      BY DEF LeasesDisjoint
    <3>1. CASE i = j
      BY <3>1, <2>3, <2>6 DEF LeaseInv, LeasesDisjoint
    <3>2. CASE i # j
      BY <3>2, <2>3 DEF LeaseInv, LeasesDisjoint
    <3> QED
      BY <3>1, <3>2
  <2>9. WriterOwnsLease'
    <3>1. \A i \in Jobs :
            lockToken'[i] = (IF jobStatus'[i] = "PROCESSING" THEN claims'[i] ELSE 0)
      BY <2>1 DEF LeaseInv, WriterOwnsLease, TypeOK
    <3>2. ASSUME NEW q \in Processors, pc'[q] = "writing" PROVE HoldsLease(q, current[q])'
      <4>1. current[q] \in Jobs /\ current[q] # j /\ q # p
        BY <3>2, <2>1 DEF ClaimJob, RowLocked, LeaseInv, CurrentInv
      <4>2. HoldsLease(q, current[q])
        BY <3>2, <2>1 DEF LeaseInv, WriterOwnsLease
      <4> QED
        BY <4>1, <4>2, <2>1, <2>3 DEF HoldsLease, TypeOK
    <3> QED
      BY <3>1, <3>2 DEF WriterOwnsLease
  <2> QED
    BY <2>4, <2>5, <2>7, <2>8, <2>9 DEF LeaseInv
<1> QED
  BY <1>1, <1>2

(***************************************************************************)
(* A commit ends the lease of its own job and of no other: no second       *)
(* transaction is open on that job.                                        *)
(***************************************************************************)
LEMMA CommitKeepsLease ==
  ASSUME TypeOK, TypeOK', LeaseInv, NEW p \in Processors, NEW next \in {"processing", "recovering"},
         Commit(p, next),
         \/ held' = held /\ current' = current
         \/ /\ held' = [held EXCEPT ![p][current[p]] = 0]
            /\ current' = [current EXCEPT ![p] = NoJob]
            /\ next = "processing"
  PROVE  LeaseInv'
<1> DEFINE j == current[p]
<1>1. /\ j \in Jobs
      /\ pc[p] = "writing"
      /\ HoldsLease(p, j)
      /\ claims[j] # 0
      /\ lockToken[j] = claims[j]
  BY DEF Commit, LeaseInv, CurrentInv, WriterOwnsLease, HoldsLease, TokenInv
<1>2. /\ jobStatus' = [jobStatus EXCEPT ![j] = NewStatus(write[p])]
      /\ lockToken' = [lockToken EXCEPT ![j] = 0]
      /\ batchStatus' = [batchStatus EXCEPT ![BatchOf[j]] = Verdict(BatchOf[j], counts[p])]
      /\ pc' = [pc EXCEPT ![p] = next]
      /\ write' = [write EXCEPT ![p] = "none"]
      /\ claims' = claims
  BY DEF Commit
<1>3. \A q \in Processors, i \in Jobs : held'[q][i] \in {held[q][i], 0}
  <2>1. CASE held' = held
    BY <2>1
  <2>2. CASE held' = [held EXCEPT ![p][j] = 0]
    <3>1. held' = [held EXCEPT ![p] = [held[p] EXCEPT ![j] = 0]]
      BY <2>2
    <3> QED
      BY <3>1 DEF TypeOK
  <2> QED
    BY <2>1, <2>2
<1>4. \A q \in Processors : q # p =>
        /\ pc'[q] = pc[q] /\ write'[q] = write[q] /\ current'[q] = current[q]
        /\ held'[q] = held[q]
  BY <1>2 DEF TypeOK
<1>5. pc'[p] = next
  BY <1>2 DEF TypeOK
<1>6. CurrentInv'
  <2>1. next = "recovering" => current'[p] \in Jobs
    BY <1>1
  <2> QED
    BY <1>4, <1>5, <2>1 DEF CurrentInv, LeaseInv
<1>7. AbsentInv'
  <2>1. NewStatus(write[p]) # "ABSENT" /\ Verdict(BatchOf[j], counts[p]) # "ABSENT"
    BY DEF NewStatus, Verdict
  <2>2. jobStatus[j] # "ABSENT"
    BY <1>1 DEF HoldsLease
  <2>3. batchStatus[BatchOf[j]] # "ABSENT"
    BY <1>1, <2>2 DEF LeaseInv, AbsentInv
  <2> QED
    BY <1>1, <1>2, <2>1, <2>2, <2>3, QueueAssumption DEF AbsentInv, LeaseInv, TypeOK
<1>8. TokenInv'
  <2>1. ASSUME NEW q \in Processors, NEW i \in Jobs PROVE held'[q][i] <= claims'[i]
    <3>1. held[q][i] <= claims[i] /\ claims[i] \in Nat
      BY DEF LeaseInv, TokenInv, TypeOK
    <3> QED
      BY <1>2, <1>3, <3>1
  <2>2. ASSUME NEW i \in Jobs, jobStatus'[i] = "PROCESSING" PROVE claims'[i] # 0
    BY <1>1, <1>2, <2>2 DEF LeaseInv, TokenInv, TypeOK
  <2> QED
    BY <2>1, <2>2 DEF TokenInv
<1>9. LeasesDisjoint'
  BY <1>3 DEF LeasesDisjoint, LeaseInv
<1>10. WriterOwnsLease'
  <2>1. NewStatus(write[p]) # "PROCESSING"
    BY DEF NewStatus
  <2>2. \A i \in Jobs :
          lockToken'[i] = (IF jobStatus'[i] = "PROCESSING" THEN claims'[i] ELSE 0)
    BY <1>1, <1>2, <2>1 DEF LeaseInv, WriterOwnsLease, TypeOK
  <2>3. ASSUME NEW q \in Processors, pc'[q] = "writing" PROVE HoldsLease(q, current[q])'
    <3>1. q # p /\ pc[q] = "writing"
      BY <2>3, <1>4, <1>5
    <3>2. HoldsLease(q, current[q]) /\ current[q] \in Jobs
      BY <3>1 DEF LeaseInv, WriterOwnsLease, CurrentInv
    <3>3. current[q] # j
      BY <3>1, <3>2, <1>1 DEF LeaseInv, LeasesDisjoint, HoldsLease
    <3> QED
      BY <3>1, <3>2, <3>3, <1>2, <1>4 DEF HoldsLease, TypeOK
  <2> QED
    BY <2>2, <2>3 DEF WriterOwnsLease
<1> QED
  BY <1>6, <1>7, <1>8, <1>9, <1>10 DEF LeaseInv

(***************************************************************************)
(* The lease protocol: a job carries the token of its latest claim exactly *)
(* while it is PROCESSING, tokens are not shared, and whoever has written  *)
(* a job row in an open transaction still owns the job's lease.            *)
(***************************************************************************)
LEMMA LeaseInvariant == Spec => []LeaseInv
<1>1. Init => LeaseInv
  BY QueueAssumption DEF Init, LeaseInv, CurrentInv, AbsentInv, TokenInv, LeasesDisjoint,
     WriterOwnsLease, NoTokens
<1>2. TypeOK /\ TypeOK' /\ LeaseInv /\ [Next]_vars => LeaseInv'
  <2> SUFFICES ASSUME TypeOK, TypeOK', LeaseInv, [Next]_vars PROVE LeaseInv'
    OBVIOUS
  <2> USE DEF rowVars, batchVars, txVars, historyVars
  <2>1. ASSUME NEW b \in Batches, CreateBatch(b) PROVE LeaseInv'
    <3>1. \A j \in Jobs : BatchOf[j] = b => jobStatus[j] = "ABSENT" /\ lockToken[j] = 0
      BY <2>1 DEF CreateBatch, LeaseInv, AbsentInv, WriterOwnsLease
    <3>2. \A p \in Processors : pc[p] = "writing" =>
            jobStatus[current[p]] = "PROCESSING" /\ current[p] \in Jobs
      BY DEF LeaseInv, CurrentInv, WriterOwnsLease, HoldsLease
    <3>3. AbsentInv'
      BY <2>1, QueueAssumption DEF CreateBatch, LeaseInv, AbsentInv, TypeOK
    <3>4. WriterOwnsLease'
      BY <2>1, <3>1, <3>2 DEF CreateBatch, LeaseInv, WriterOwnsLease, HoldsLease, TypeOK
    <3>5. CurrentInv' /\ TokenInv' /\ LeasesDisjoint'
      BY <2>1, <3>1 DEF CreateBatch, LeaseInv, CurrentInv, TokenInv, LeasesDisjoint
    <3> QED
      BY <3>3, <3>4, <3>5 DEF LeaseInv
  <2>2. ASSUME NEW p \in Processors, FindCandidates(p) PROVE QuietStep
    BY <2>2 DEF FindCandidates, QuietStep, LeaseInv, CurrentInv, WriterOwnsLease, TypeOK
  <2>3. ASSUME NEW p \in Processors, NEW j \in Jobs, ClaimJob(p, j) PROVE LeaseInv'
    BY <2>3, ClaimKeepsLease
  <2>4. ASSUME NEW p \in Processors, FinishClaim(p) PROVE QuietStep
    <3>1. \A b \in Batches : batchStatus'[b] = "ABSENT" <=> batchStatus[b] = "ABSENT"
      BY <2>4 DEF FinishClaim
    <3>2. \A q \in Processors, j \in Jobs : held'[q][j] \in {held[q][j], 0}
      BY <2>4 DEF FinishClaim, TypeOK
    <3>3. \A q \in Processors : q # p => held'[q] = held[q] /\ pc'[q] = pc[q]
      BY <2>4 DEF FinishClaim, TypeOK
    <3>4. pc'[p] \in {"idle", "processing"}
      BY <2>4 DEF FinishClaim, TypeOK
    <3> QED
      BY <2>4, <3>1, <3>2, <3>3, <3>4
      DEF FinishClaim, QuietStep, LeaseInv, CurrentInv, WriterOwnsLease
  <2>5. ASSUME NEW p \in Processors, NEW j \in Jobs, QueryProvider(p, j) PROVE QuietStep
    BY <2>5 DEF QueryProvider, QuietStep, LeaseInv, CurrentInv, WriterOwnsLease, TypeOK
  <2>6. ASSUME NEW p \in Processors, NEW j \in Jobs, RejectUnauthorized(p, j)
        PROVE QuietStep
    BY <2>6, ReportIsQuiet DEF RejectUnauthorized, Writes
  <2>7. ASSUME NEW p \in Processors, CompleteJob(p) PROVE QuietStep
    <3>1. current[p] \in Jobs /\ "complete" \in Writes
      BY <2>7 DEF CompleteJob, LeaseInv, CurrentInv, Writes
    <3> QED
      BY <2>7, <3>1, ReportIsQuiet DEF CompleteJob
  <2>8. ASSUME NEW p \in Processors, DeferJob(p) PROVE QuietStep
    <3>1. current[p] \in Jobs /\ "defer" \in Writes
      BY <2>8 DEF DeferJob, LeaseInv, CurrentInv, Writes
    <3> QED
      BY <2>8, <3>1, ReportIsQuiet DEF DeferJob
  <2>9. ASSUME NEW p \in Processors, NEW retriable \in BOOLEAN, FailJob(p, retriable)
        PROVE QuietStep
    <3>1. current[p] \in Jobs /\ {"retry", "giveUp"} \subseteq Writes
      BY <2>9 DEF FailJob, LeaseInv, CurrentInv, Writes
    <3> QED
      BY <2>9, <3>1, ReportIsQuiet DEF FailJob
  <2>10. ASSUME NEW p \in Processors, NEW c \in Queries, CountJobs(p, c) PROVE QuietStep
    BY <2>10 DEF CountJobs, QuietStep, LeaseInv, CurrentInv, WriterOwnsLease
  <2>11. ASSUME NEW p \in Processors, CommitResult(p) PROVE LeaseInv'
    BY <2>11, CommitKeepsLease DEF CommitResult
  <2>12. ASSUME NEW p \in Processors, CommitUnacknowledged(p) PROVE LeaseInv'
    BY <2>12, CommitKeepsLease DEF CommitUnacknowledged
  <2>13. ASSUME NEW p \in Processors, RollBack(p) PROVE QuietStep
    BY <2>13 DEF RollBack, QuietStep, LeaseInv, CurrentInv, WriterOwnsLease, TypeOK
  <2>14. ASSUME NEW p \in Processors, FinishCycle(p) PROVE QuietStep
    BY <2>14 DEF FinishCycle, QuietStep, LeaseInv, CurrentInv, WriterOwnsLease, TypeOK
  <2>15. ASSUME NEW p \in Processors, AbandonCycle(p) PROVE QuietStep
    BY <2>15 DEF AbandonCycle, QuietStep, LeaseInv, CurrentInv, WriterOwnsLease, TypeOK, NoTokens
  <2>16. ASSUME NEW j \in Jobs, RetryComesDue(j) \/ AbandonedLeaseExpires(j) \/ LeaseOutlived(j)
         PROVE QuietStep
    BY <2>16 DEF RetryComesDue, AbandonedLeaseExpires, LeaseOutlived, QuietStep, LeaseInv,
                 CurrentInv, WriterOwnsLease
  <2>17. CASE UNCHANGED vars
    <3>1. QuietStep
      BY <2>17 DEF vars, QuietStep, LeaseInv, CurrentInv, WriterOwnsLease
    <3> QED
      BY <3>1, QuietKeepsLease
  <2> QED
    BY QuietKeepsLease, <2>1, <2>2, <2>3, <2>4, <2>5, <2>6, <2>7, <2>8, <2>9, <2>10,
       <2>11, <2>12, <2>13, <2>14, <2>15, <2>16, <2>17 DEF Next, Work
<1> QED
  BY <1>1, <1>2, TypeCorrect, PTL DEF Spec

(***************************************************************************)
(* A processor with an open transaction on a job still owns its lease.     *)
(***************************************************************************)
THEOREM LeaseSafety == Spec => []WriterOwnsLease
BY LeaseInvariant, PTL DEF LeaseInv

------------------------------------------------------------------------------
(***************************************************************************)
(* What the database can see of a step.                                    *)
(***************************************************************************)
SeenRows == <<jobStatus, attemptCount, lockToken, batchVars, claims, deferrals>>

LEMMA RowSteps ==
  ASSUME [Next]_vars
  PROVE  \/ \E b \in Batches : CreateBatch(b)
         \/ \E p \in Processors, j \in Jobs : ClaimJob(p, j) /\ Claimable(j)
         \/ \E p \in Processors : FinishClaim(p)
         \/ \E p \in Processors : Commit(p, "processing") \/ Commit(p, "recovering")
         \/ UNCHANGED SeenRows
<1> USE DEF SeenRows, rowVars, batchVars, txVars, historyVars
<1>1. ASSUME NEW p \in Processors, NEW j \in Jobs, ClaimJob(p, j), ~Claimable(j)
      PROVE UNCHANGED SeenRows
  BY <1>1 DEF ClaimJob
<1>2. ASSUME NEW p \in Processors,
             \/ FindCandidates(p)
             \/ \E j \in Jobs : QueryProvider(p, j) \/ RejectUnauthorized(p, j)
             \/ CompleteJob(p) \/ DeferJob(p) \/ FinishCycle(p) \/ AbandonCycle(p)
             \/ \E retriable \in BOOLEAN : FailJob(p, retriable)
             \/ \E c \in Queries : CountJobs(p, c)
             \/ RollBack(p)
      PROVE UNCHANGED SeenRows
  BY <1>2 DEF FindCandidates, QueryProvider, RejectUnauthorized, CompleteJob, DeferJob,
              FinishCycle, AbandonCycle, FailJob, CountJobs, RollBack
<1>3. ASSUME NEW j \in Jobs, RetryComesDue(j) \/ AbandonedLeaseExpires(j) \/ LeaseOutlived(j)
      PROVE UNCHANGED SeenRows
  BY <1>3 DEF RetryComesDue, AbandonedLeaseExpires, LeaseOutlived
<1>4. CASE UNCHANGED vars
  BY <1>4 DEF vars
<1> QED
  BY <1>1, <1>2, <1>3, <1>4 DEF Next, Work, CommitResult, CommitUnacknowledged

(***************************************************************************)
(* A transaction commits on a PROCESSING job of an open batch's lease.     *)
(***************************************************************************)
LEMMA CommitsOnLease ==
  ASSUME TypeOK, LeaseInv, NEW p \in Processors, NEW next, Commit(p, next)
  PROVE  /\ current[p] \in Jobs
         /\ jobStatus[current[p]] = "PROCESSING"
         /\ BatchOf[current[p]] \in Batches
         /\ write[p] \in Writes
         /\ jobStatus' = [jobStatus EXCEPT ![current[p]] = NewStatus(write[p])]
         /\ jobStatus'[current[p]] = NewStatus(write[p])
  BY QueueAssumption DEF Commit, LeaseInv, CurrentInv, WriterOwnsLease, HoldsLease, TypeOK

(***************************************************************************)
(* Every claim is charged once and every committed provider wait refunded  *)
(* once, so the counter of a claimed or settled job is at least one.       *)
(***************************************************************************)
THEOREM AttemptsAccounted == Spec => []AttemptLedger
<1>1. Init => AttemptLedger
  BY DEF Init, AttemptLedger, NoTokens, Settled
<1>2. TypeOK /\ LeaseInv /\ AttemptLedger /\ [Next]_vars => AttemptLedger'
  <2> SUFFICES ASSUME TypeOK, LeaseInv, AttemptLedger, [Next]_vars PROVE AttemptLedger'
    OBVIOUS
  <2> USE DEF AttemptLedger, historyVars, rowVars
  <2>1. ASSUME NEW b \in Batches, CreateBatch(b) PROVE AttemptLedger'
    <3> SUFFICES ASSUME NEW j \in Jobs
                 PROVE  /\ attemptCount'[j] = claims'[j] - deferrals'[j]
                        /\ attemptCount'[j] >= (IF jobStatus'[j] \in Settled \union {"PROCESSING"} THEN 1 ELSE 0)
      OBVIOUS
    <3>1. UNCHANGED <<attemptCount, claims, deferrals>>
      BY <2>1 DEF CreateBatch
    <3>2. jobStatus'[j] \in {jobStatus[j], "QUEUED"}
      BY <2>1 DEF CreateBatch
    <3>3. attemptCount[j] \in Int
      BY DEF TypeOK
    <3> QED
      BY <3>1, <3>2, <3>3 DEF Settled
  <2>2. ASSUME NEW p \in Processors, NEW i \in Jobs, ClaimJob(p, i), Claimable(i)
        PROVE AttemptLedger'
    <3> SUFFICES ASSUME NEW j \in Jobs
                 PROVE  /\ attemptCount'[j] = claims'[j] - deferrals'[j]
                        /\ attemptCount'[j] >= (IF jobStatus'[j] \in Settled \union {"PROCESSING"} THEN 1 ELSE 0)
      OBVIOUS
    <3>1. /\ claims' = [claims EXCEPT ![i] = @ + 1]
          /\ attemptCount' = [attemptCount EXCEPT ![i] = @ + 1]
          /\ jobStatus' = [jobStatus EXCEPT ![i] = "PROCESSING"]
          /\ deferrals' = deferrals
      BY <2>2 DEF ClaimJob
    <3>2. attemptCount[j] \in Int /\ claims[j] \in Nat /\ deferrals[j] \in Nat
      BY DEF TypeOK
    <3>3. attemptCount[j] = claims[j] - deferrals[j] /\ attemptCount[j] >= 0
      BY <3>2
    <3>4. CASE j = i
      <4>1. /\ claims'[j] = claims[j] + 1
            /\ attemptCount'[j] = attemptCount[j] + 1
            /\ deferrals'[j] = deferrals[j]
        BY <3>1, <3>4 DEF TypeOK
      <4> QED
        BY <3>2, <3>3, <4>1
    <3>5. CASE j # i
      BY <3>1, <3>5 DEF TypeOK
    <3> QED
      BY <3>4, <3>5
  <2>3. ASSUME NEW p \in Processors, NEW next, Commit(p, next) PROVE AttemptLedger'
    <3> DEFINE i == current[p]
    <3>1. /\ i \in Jobs /\ jobStatus[i] = "PROCESSING"
          /\ jobStatus' = [jobStatus EXCEPT ![i] = NewStatus(write[p])]
      BY <2>3, CommitsOnLease
    <3>2. /\ attemptCount' = [attemptCount EXCEPT ![i] = @ - Refund(write[p])]
          /\ deferrals' = [deferrals EXCEPT ![i] = IF write[p] = "defer" THEN @ + 1 ELSE @]
          /\ claims' = claims
      BY <2>3 DEF Commit
    <3>3. attemptCount[i] \in Int /\ claims[i] \in Nat /\ deferrals[i] \in Nat
      BY <3>1 DEF TypeOK
    <3>4. attemptCount[i] = claims[i] - deferrals[i] /\ attemptCount[i] >= 1
      BY <3>1
    <3>5. /\ attemptCount'[i] = claims'[i] - deferrals'[i]
          /\ attemptCount'[i] >= (IF jobStatus'[i] \in Settled \union {"PROCESSING"} THEN 1 ELSE 0)
      <4>1. CASE write[p] = "defer"
        <5>1. NewStatus(write[p]) \notin Settled \union {"PROCESSING"} /\ Refund(write[p]) = 1
          BY <4>1 DEF NewStatus, Settled, Refund
        <5> QED
          BY <4>1, <5>1, <3>1, <3>2, <3>3, <3>4 DEF TypeOK
      <4>2. CASE write[p] # "defer"
        <5>1. Refund(write[p]) = 0
          BY <4>2 DEF Refund
        <5> QED
          BY <4>2, <5>1, <3>1, <3>2, <3>3, <3>4 DEF TypeOK
      <4> QED
        BY <4>1, <4>2
    <3>6. ASSUME NEW j \in Jobs, j # i
          PROVE  /\ attemptCount'[j] = attemptCount[j] /\ deferrals'[j] = deferrals[j]
                 /\ jobStatus'[j] = jobStatus[j]
      BY <3>1, <3>2, <3>6 DEF TypeOK
    <3> QED
      BY <3>2, <3>5, <3>6
  <2>4. CASE UNCHANGED SeenRows
    BY <2>4 DEF SeenRows
  <2>5. ASSUME NEW p \in Processors, FinishClaim(p) PROVE AttemptLedger'
    BY <2>5 DEF FinishClaim
  <2> QED
    BY RowSteps, <2>1, <2>2, <2>3, <2>4, <2>5
<1> QED
  BY <1>1, <1>2, TypeCorrect, LeaseInvariant, PTL DEF Spec

(***************************************************************************)
(* What bounds the claims looks at a few variables; a step that only gives *)
(* up tokens of its processor, and leaves the rest but maybe one more      *)
(* disturbance, keeps it, if the leases given up are stale or charged for. *)
(***************************************************************************)
ChargeStep ==
  /\ UNCHANGED <<jobStatus, attemptCount, lockToken, claims, deferrals>>
  /\ disturbances' \in {disturbances, disturbances + 1}
  /\ disturbances' = disturbances =>
       \A j \in Jobs : jobStatus[j] = "PROCESSING" /\ Unclaimed(j)' => Unclaimed(j)
  /\ \A p \in Processors : pc'[p] = "writing" =>
       \/ pc[p] = "writing" /\ current'[p] = current[p] /\ write'[p] = write[p]
       \/ write'[p] \notin {"retry", "defer"}
       \/ write'[p] = "retry" /\ AttemptsLeft(current'[p])
       \/ write'[p] = "defer" /\ disturbances' = disturbances + 1 /\ current'[p] \in Jobs

LEMMA ChargeStepKeeps ==
  ASSUME TypeOK, LeaseInv, ChargeInv, ChargeStep
  PROVE  ChargeInv'
<1>1. \A j \in Jobs : deferrals[j] \in Nat /\ claims[j] \in Nat
  BY DEF TypeOK
<1>2. disturbances \in Nat /\ MaxAttempts \in Nat
  BY QueueAssumption DEF TypeOK
<1>3. disturbances <= disturbances' /\ disturbances' \in Nat
  BY <1>2 DEF ChargeStep
<1>4. ASSUME NEW j \in Jobs
      PROVE  /\ deferrals'[j] <= disturbances'
             /\ claims'[j] <= MaxAttempts + disturbances'
             /\ Unclaimed(j)' => claims'[j] < MaxAttempts + disturbances'
  <2>1. /\ deferrals[j] <= disturbances
        /\ claims[j] <= MaxAttempts + disturbances
        /\ Unclaimed(j) => claims[j] < MaxAttempts + disturbances
    BY DEF ChargeInv
  <2>2. deferrals'[j] = deferrals[j] /\ claims'[j] = claims[j] /\ jobStatus'[j] = jobStatus[j]
    BY DEF ChargeStep
  <2>3. CASE disturbances' = disturbances
    <3>1. Unclaimed(j)' => Unclaimed(j)
      <4>1. CASE jobStatus[j] = "PROCESSING"
        BY <2>3, <4>1 DEF ChargeStep
      <4>2. CASE jobStatus[j] # "PROCESSING"
        BY <2>2, <4>2 DEF Unclaimed
      <4> QED
        BY <4>1, <4>2
    <3> QED
      BY <2>1, <2>2, <2>3, <3>1
  <2>4. CASE disturbances' = disturbances + 1
    BY <1>1, <1>2, <2>1, <2>2, <2>4
  <2> QED
    BY <2>3, <2>4 DEF ChargeStep
<1>5. ASSUME NEW p \in Processors, pc'[p] = "writing"
      PROVE  /\ write'[p] = "retry" => AttemptsLeft(current[p])'
             /\ write'[p] = "defer" =>
                  /\ deferrals'[current'[p]] < disturbances'
                  /\ claims'[current'[p]] < MaxAttempts + disturbances'
  <2>1. UNCHANGED <<attemptCount, claims, deferrals>>
    BY DEF ChargeStep
  <2>2. CASE pc[p] = "writing" /\ current'[p] = current[p] /\ write'[p] = write[p]
    <3>1. current[p] \in Jobs
      BY <2>2 DEF LeaseInv, CurrentInv
    <3>2. /\ write[p] = "retry" => AttemptsLeft(current[p])
          /\ write[p] = "defer" =>
               /\ deferrals[current[p]] < disturbances
               /\ claims[current[p]] < MaxAttempts + disturbances
      BY <2>2 DEF ChargeInv
    <3>3. AttemptsLeft(current[p]) => AttemptsLeft(current[p])'
      BY <2>1, <2>2 DEF AttemptsLeft
    <3>4. deferrals[current[p]] \in Nat /\ claims[current[p]] \in Nat
      BY <1>1, <3>1
    <3> QED
      BY <1>2, <1>3, <2>1, <2>2, <3>2, <3>3, <3>4
  <2>3. CASE write'[p] = "retry" /\ AttemptsLeft(current'[p])
    BY <2>1, <2>3 DEF AttemptsLeft
  <2>4. CASE write'[p] = "defer" /\ disturbances' = disturbances + 1 /\ current'[p] \in Jobs
    <3>1. /\ deferrals[current'[p]] <= disturbances
          /\ claims[current'[p]] <= MaxAttempts + disturbances
      BY <2>4 DEF ChargeInv
    <3>2. deferrals[current'[p]] \in Nat /\ claims[current'[p]] \in Nat
      BY <1>1, <2>4
    <3> QED
      BY <1>2, <2>1, <2>4, <3>1, <3>2
  <2> QED
    BY <1>5, <2>2, <2>3, <2>4 DEF ChargeStep
<1> QED
  BY <1>4, <1>5 DEF ChargeInv

(***************************************************************************)
(* A lease that is still in the row keeps its holder, if nobody but those  *)
(* with another token gives one up.                                        *)
(***************************************************************************)
LEMMA HoldersStay ==
  ASSUME TypeOK, UNCHANGED <<jobStatus, lockToken, elapsed>>,
         \A q \in Processors, j \in Jobs :
           held'[q][j] # held[q][j] => held[q][j] # lockToken[j] \/ jobStatus[j] # "PROCESSING"
  PROVE  \A j \in Jobs : jobStatus[j] = "PROCESSING" /\ Unclaimed(j)' => Unclaimed(j)
<1> SUFFICES ASSUME NEW j \in Jobs, jobStatus[j] = "PROCESSING", ~Unclaimed(j)
             PROVE  ~Unclaimed(j)'
  OBVIOUS
<1>1. ~elapsed[j] /\ HeldByLiveProcessor(j)
  BY DEF Unclaimed
<1>2. PICK q \in Processors : held[q][j] # 0 /\ held[q][j] = lockToken[j]
  BY <1>1 DEF HeldByLiveProcessor
<1>3. held'[q][j] = held[q][j]
  BY <1>2
<1>4. HeldByLiveProcessor(j)'
  BY <1>2, <1>3 DEF HeldByLiveProcessor
<1> QED
  BY <1>1, <1>4 DEF Unclaimed, Waiting

LEMMA ReportCharges ==
  ASSUME TypeOK, TypeOK', LeaseInv, NEW p \in Processors, NEW j \in Jobs, NEW w \in Writes,
         Report(p, j, w), UNCHANGED <<rowVars, claims, deferrals>>,
         \/ disturbances' = disturbances /\ w # "defer"
         \/ disturbances' = disturbances + 1,
         w = "retry" => AttemptsLeft(j)
  PROVE  ChargeStep
<1>1. UNCHANGED <<jobStatus, attemptCount, lockToken, elapsed, claims, deferrals>>
  BY DEF rowVars
<1>2. \A q \in Processors : q # p =>
        /\ pc'[q] = pc[q] /\ current'[q] = current[q] /\ write'[q] = write[q]
        /\ held'[q] = held[q]
  BY DEF Report, TypeOK, txVars
<1>3. CASE HoldsLease(p, j)
  <2>1. pc'[p] = "writing" /\ current'[p] = j /\ write'[p] = w /\ held' = held
    BY <1>3 DEF Report, TypeOK
  <2>2. \A i \in Jobs : jobStatus[i] = "PROCESSING" /\ Unclaimed(i)' => Unclaimed(i)
    BY <1>1, <2>1, HoldersStay
  <2> QED
    BY <1>1, <1>2, <2>1, <2>2 DEF ChargeStep
<1>4. CASE ~HoldsLease(p, j)
  <2>1. pc'[p] = "processing"
    BY <1>4 DEF Report, TypeOK
  <2>2. held' = [held EXCEPT ![p] = [held[p] EXCEPT ![j] = 0]]
    BY <1>4 DEF Report
  <2>3. \A q \in Processors, i \in Jobs :
          held'[q][i] # held[q][i] => held[q][i] # lockToken[i] \/ jobStatus[i] # "PROCESSING"
    BY <1>2, <1>4, <2>2 DEF TypeOK, HoldsLease
  <2>4. \A i \in Jobs : jobStatus[i] = "PROCESSING" /\ Unclaimed(i)' => Unclaimed(i)
    BY <1>1, <2>3, HoldersStay
  <2> QED
    BY <1>1, <1>2, <2>1, <2>4 DEF ChargeStep
<1> QED
  BY <1>3, <1>4

(***************************************************************************)
(* A claim takes a job that may be claimed, and its row from no open       *)
(* transaction.                                                            *)
(***************************************************************************)
LEMMA ClaimCharges ==
  ASSUME TypeOK, TypeOK', LeaseInv, ChargeInv, NEW p \in Processors, NEW i \in Jobs,
         ClaimJob(p, i), Claimable(i)
  PROVE  ChargeInv'
<1>1. /\ claims' = [claims EXCEPT ![i] = @ + 1]
      /\ jobStatus' = [jobStatus EXCEPT ![i] = "PROCESSING"]
      /\ lockToken' = [lockToken EXCEPT ![i] = NewToken(i)]
      /\ elapsed' = [elapsed EXCEPT ![i] = FALSE]
      /\ attemptCount' = [attemptCount EXCEPT ![i] = @ + 1]
      /\ held' = [held EXCEPT ![p] = [held[p] EXCEPT ![i] = NewToken(i)]]
      /\ UNCHANGED <<pc, current, write, deferrals, disturbances>>
      /\ ~RowLocked(i)
  BY DEF ClaimJob, txVars
<1>2. \A j \in Jobs : deferrals[j] \in Nat /\ claims[j] \in Nat
  BY DEF TypeOK
<1>3. disturbances \in Nat /\ MaxAttempts \in Nat
  BY QueueAssumption DEF TypeOK
<1>4. claims[i] < MaxAttempts + disturbances
  <2>1. Unclaimed(i)
    BY DEF Claimable, Unclaimed, Active
  <2> QED
    BY <2>1 DEF ChargeInv
<1>5. ~Unclaimed(i)'
  <2>1. jobStatus'[i] = "PROCESSING" /\ ~elapsed'[i]
    BY <1>1 DEF TypeOK
  <2>2. held'[p][i] = NewToken(i) /\ lockToken'[i] = NewToken(i) /\ NewToken(i) # 0
    BY <1>1, <1>2 DEF TypeOK, NewToken
  <2>3. HeldByLiveProcessor(i)'
    BY <2>2 DEF HeldByLiveProcessor
  <2> QED
    BY <2>1, <2>3 DEF Unclaimed, Waiting
<1>6. ASSUME NEW j \in Jobs
      PROVE  /\ deferrals'[j] <= disturbances'
             /\ claims'[j] <= MaxAttempts + disturbances'
             /\ Unclaimed(j)' => claims'[j] < MaxAttempts + disturbances'
  <2>1. /\ deferrals[j] <= disturbances
        /\ claims[j] <= MaxAttempts + disturbances
        /\ Unclaimed(j) => claims[j] < MaxAttempts + disturbances
    BY DEF ChargeInv
  <2>2. CASE j = i
    <3>1. claims'[i] = claims[i] + 1
      BY <1>1 DEF TypeOK
    <3> QED
      BY <1>1, <1>2, <1>3, <1>4, <1>5, <2>1, <2>2, <3>1
  <2>3. CASE j # i
    <3>1. /\ claims'[j] = claims[j] /\ jobStatus'[j] = jobStatus[j]
          /\ lockToken'[j] = lockToken[j] /\ elapsed'[j] = elapsed[j]
          /\ \A q \in Processors : held'[q][j] = held[q][j]
      BY <1>1, <2>3 DEF TypeOK
    <3>2. Unclaimed(j)' => Unclaimed(j)
      BY <3>1 DEF Unclaimed, HeldByLiveProcessor
    <3> QED
      BY <1>1, <2>1, <3>1, <3>2
  <2> QED
    BY <2>2, <2>3
<1>7. ASSUME NEW q \in Processors, pc'[q] = "writing"
      PROVE  /\ write'[q] = "retry" => AttemptsLeft(current[q])'
             /\ write'[q] = "defer" =>
                  /\ deferrals'[current'[q]] < disturbances'
                  /\ claims'[current'[q]] < MaxAttempts + disturbances'
  <2>1. pc[q] = "writing" /\ current[q] \in Jobs /\ current[q] # i
    BY <1>1, <1>7 DEF RowLocked, LeaseInv, CurrentInv
  <2>2. attemptCount'[current[q]] = attemptCount[current[q]] /\ claims'[current[q]] = claims[current[q]]
    BY <1>1, <2>1 DEF TypeOK
  <2>3. current'[q] = current[q]
    BY <1>1
  <2>4. AttemptsLeft(current[q]) => AttemptsLeft(current[q])'
    BY <2>2, <2>3 DEF AttemptsLeft
  <2> QED
    BY <1>1, <2>1, <2>2, <2>3, <2>4 DEF ChargeInv
<1> QED
  BY <1>6, <1>7 DEF ChargeInv

(***************************************************************************)
(* A commit makes its job claimable only if it was put off, which has been *)
(* charged for, or if an attempt was left.  No second transaction is open  *)
(* on the job.                                                             *)
(***************************************************************************)
LEMMA CommitCharges ==
  ASSUME TypeOK, TypeOK', LeaseInv, AttemptLedger, ChargeInv, NEW p \in Processors, NEW next,
         next # "writing", Commit(p, next),
         \A q \in Processors, j \in Jobs : j # current[p] => held'[q][j] = held[q][j],
         \A q \in Processors : q # p => current'[q] = current[q],
         disturbances' \in {disturbances, disturbances + 1}
  PROVE  ChargeInv'
<1>0. PICK i \in Jobs : i = current[p]
  BY CommitsOnLease
<1>1. /\ jobStatus[i] = "PROCESSING" /\ write[p] \in Writes
      /\ jobStatus' = [jobStatus EXCEPT ![i] = NewStatus(write[p])]
  BY <1>0, CommitsOnLease
<1>2. /\ attemptCount' = [attemptCount EXCEPT ![i] = @ - Refund(write[p])]
      /\ lockToken' = [lockToken EXCEPT ![i] = 0]
      /\ elapsed' = [elapsed EXCEPT ![i] = NewStatus(write[p]) \in Settled]
      /\ deferrals' = [deferrals EXCEPT ![i] = IF write[p] = "defer" THEN @ + 1 ELSE @]
      /\ claims' = claims
      /\ pc[p] = "writing"
      /\ pc' = [pc EXCEPT ![p] = next]
      /\ write' = [write EXCEPT ![p] = "none"]
  BY <1>0 DEF Commit
<1>3. \A j \in Jobs : deferrals[j] \in Nat /\ claims[j] \in Nat /\ attemptCount[j] \in Int
  BY DEF TypeOK
<1>4. disturbances \in Nat /\ MaxAttempts \in Nat
  BY QueueAssumption DEF TypeOK
<1>5. disturbances <= disturbances' /\ disturbances' \in Nat
  BY <1>4
<1>6. /\ deferrals'[i] <= disturbances
      /\ claims[i] <= MaxAttempts + disturbances
      /\ Unclaimed(i)' => claims[i] < MaxAttempts + disturbances
  <2>1. /\ deferrals[i] <= disturbances /\ claims[i] <= MaxAttempts + disturbances
        /\ write[p] = "retry" => AttemptsLeft(i)
        /\ write[p] = "defer" =>
             deferrals[i] < disturbances /\ claims[i] < MaxAttempts + disturbances
    BY <1>0, <1>2 DEF ChargeInv
  <2>2. jobStatus'[i] = NewStatus(write[p])
    BY <1>1 DEF TypeOK
  <2>3. CASE write[p] = "defer"
    <3>1. deferrals'[i] = deferrals[i] + 1
      BY <1>1, <1>2, <2>3 DEF TypeOK
    <3> QED
      BY <1>1, <1>3, <1>4, <2>1, <2>3, <3>1
  <2>4. CASE write[p] = "retry"
    <3>1. deferrals'[i] = deferrals[i]
      BY <1>1, <1>2, <2>4 DEF TypeOK
    <3>2. attemptCount[i] = claims[i] - deferrals[i] /\ attemptCount[i] < MaxAttempts
      BY <1>1, <2>1, <2>4 DEF AttemptLedger, AttemptsLeft
    <3>3. claims[i] < MaxAttempts + disturbances
      BY <1>1, <1>3, <1>4, <2>1, <3>2
    <3> QED
      BY <2>1, <3>1, <3>3
  <2>5. CASE write[p] \notin {"defer", "retry"}
    <3>1. deferrals'[i] = deferrals[i]
      BY <1>1, <1>2, <2>5 DEF TypeOK
    <3>2. NewStatus(write[p]) \notin Waiting \union {"ABSENT", "PROCESSING"}
      BY <2>5 DEF NewStatus, Waiting
    <3> QED
      BY <2>1, <2>2, <3>1, <3>2 DEF Unclaimed
  <2> QED
    BY <2>3, <2>4, <2>5
<1>7. ASSUME NEW j \in Jobs
      PROVE  /\ deferrals'[j] <= disturbances'
             /\ claims'[j] <= MaxAttempts + disturbances'
             /\ Unclaimed(j)' => claims'[j] < MaxAttempts + disturbances'
  <2>1. CASE j = i
    <3>1. deferrals'[i] \in Nat
      BY <1>1 DEF TypeOK
    <3> QED
      BY <1>2, <1>3, <1>4, <1>5, <1>6, <2>1, <3>1
  <2>2. CASE j # i
    <3>1. /\ deferrals[j] <= disturbances
          /\ claims[j] <= MaxAttempts + disturbances
          /\ Unclaimed(j) => claims[j] < MaxAttempts + disturbances
      BY DEF ChargeInv
    <3>2. /\ jobStatus'[j] = jobStatus[j] /\ lockToken'[j] = lockToken[j]
          /\ elapsed'[j] = elapsed[j] /\ deferrals'[j] = deferrals[j]
          /\ \A q \in Processors : held'[q][j] = held[q][j]
      BY <1>0, <1>1, <1>2, <2>2 DEF TypeOK
    <3>3. Unclaimed(j)' => Unclaimed(j)
      BY <3>2 DEF Unclaimed, HeldByLiveProcessor
    <3> QED
      BY <1>2, <1>3, <1>4, <1>5, <3>1, <3>2, <3>3
  <2> QED
    BY <2>1, <2>2
<1>8. ASSUME NEW q \in Processors, pc'[q] = "writing"
      PROVE  /\ write'[q] = "retry" => AttemptsLeft(current[q])'
             /\ write'[q] = "defer" =>
                  /\ deferrals'[current'[q]] < disturbances'
                  /\ claims'[current'[q]] < MaxAttempts + disturbances'
  <2>1. q # p /\ pc[q] = "writing" /\ write'[q] = write[q] /\ current'[q] = current[q]
    BY <1>2, <1>8 DEF TypeOK
  <2>2. current[q] \in Jobs /\ HoldsLease(q, current[q]) /\ HoldsLease(p, i)
    BY <1>0, <1>2, <2>1 DEF LeaseInv, CurrentInv, WriterOwnsLease
  <2>3. current[q] # i
    <3>1. lockToken[i] = claims[i] /\ claims[i] # 0
      BY <1>1 DEF LeaseInv, WriterOwnsLease, TokenInv
    <3>2. current[q] = i => held[q][i] = held[p][i] /\ held[p][i] # 0
      BY <2>2, <3>1 DEF HoldsLease
    <3> QED
      BY <2>1, <3>2 DEF LeaseInv, LeasesDisjoint
  <2>4. /\ attemptCount'[current[q]] = attemptCount[current[q]]
        /\ deferrals'[current[q]] = deferrals[current[q]]
    BY <1>1, <1>2, <2>2, <2>3 DEF TypeOK
  <2>5. /\ write[q] = "retry" => AttemptsLeft(current[q])
        /\ write[q] = "defer" =>
             /\ deferrals[current[q]] < disturbances
             /\ claims[current[q]] < MaxAttempts + disturbances
    BY <2>1 DEF ChargeInv
  <2>6. AttemptsLeft(current[q]) => AttemptsLeft(current[q])'
    BY <2>1, <2>4 DEF AttemptsLeft
  <2>7. deferrals[current[q]] \in Nat /\ claims[current[q]] \in Nat
    BY <1>3, <2>2
  <2> QED
    BY <1>2, <1>4, <1>5, <2>1, <2>4, <2>5, <2>6, <2>7
<1> QED
  BY <1>7, <1>8 DEF ChargeInv

(***************************************************************************)
(* Although no claim looks at maxAttempts, a job is claimed, and the       *)
(* provider asked about it, at most maxAttempts times and once more per    *)
(* disturbance.                                                            *)
(***************************************************************************)
THEOREM ClaimsAreBounded == Spec => []ClaimsBounded
<1>1. Init => ChargeInv
  BY QueueAssumption DEF Init, ChargeInv, NoTokens
<1>2. TypeOK /\ TypeOK' /\ LeaseInv /\ AttemptLedger /\ ChargeInv /\ [Next]_vars => ChargeInv'
  <2> SUFFICES ASSUME TypeOK, TypeOK', LeaseInv, AttemptLedger, ChargeInv, [Next]_vars
               PROVE  ChargeInv'
    OBVIOUS
  <2> USE DEF rowVars, batchVars, txVars, historyVars
  <2>1. ASSUME NEW b \in Batches, CreateBatch(b) PROVE ChargeInv'
    <3>1. \A j \in Jobs : jobStatus[j] = "ABSENT" \/ BatchOf[j] # b
      BY <2>1 DEF CreateBatch, LeaseInv, AbsentInv
    <3>2. \A j \in Jobs : Unclaimed(j)' => Unclaimed(j)
      BY <2>1, <3>1 DEF CreateBatch, Unclaimed, HeldByLiveProcessor, TypeOK
    <3>3. UNCHANGED <<attemptCount, claims, deferrals, disturbances, pc, current, write>>
      BY <2>1 DEF CreateBatch
    <3> QED
      BY <3>2, <3>3 DEF ChargeInv, AttemptsLeft
  <2>2. ASSUME NEW p \in Processors,
               \/ FindCandidates(p) \/ FinishCycle(p)
               \/ \E j \in Jobs : QueryProvider(p, j)
               \/ \E c \in Queries : CountJobs(p, c)
        PROVE ChargeStep
    <3>1. /\ UNCHANGED <<jobStatus, attemptCount, lockToken, elapsed, claims, deferrals,
                         disturbances, held, write>>
          /\ \A q \in Processors : pc'[q] = "writing" =>
               pc[q] = "writing" /\ current'[q] = current[q]
      BY <2>2 DEF FindCandidates, FinishCycle, QueryProvider, CountJobs, TypeOK
    <3> QED
      BY <3>1, HoldersStay DEF ChargeStep
  <2>3. ASSUME NEW p \in Processors, NEW j \in Jobs, ClaimJob(p, j) PROVE ChargeInv'
    <3>1. CASE ~Claimable(j)
      <4>1. UNCHANGED <<jobStatus, attemptCount, lockToken, elapsed, claims, deferrals,
                        disturbances, held, write, pc, current>>
        BY <2>3, <3>1 DEF ClaimJob
      <4>2. ChargeStep
        BY <4>1, HoldersStay DEF ChargeStep
      <4> QED
        BY <4>2, ChargeStepKeeps
    <3> QED
      BY <2>3, <3>1, ClaimCharges
  <2>4. ASSUME NEW p \in Processors, FinishClaim(p) PROVE ChargeStep
    <3>1. /\ UNCHANGED <<jobStatus, attemptCount, lockToken, elapsed, claims, deferrals,
                         disturbances, write, current>>
          /\ \A q \in Processors : pc'[q] = "writing" => pc[q] = "writing"
      BY <2>4 DEF FinishClaim, TypeOK
    <3>2. \A q \in Processors, j \in Jobs :
            held'[q][j] # held[q][j] => held[q][j] # lockToken[j]
      BY <2>4 DEF FinishClaim, TypeOK
    <3> QED
      BY <3>1, <3>2, HoldersStay DEF ChargeStep
  <2>5. ASSUME NEW p \in Processors, NEW j \in Jobs, RejectUnauthorized(p, j)
        PROVE ChargeStep
    BY <2>5, ReportCharges DEF RejectUnauthorized, Writes
  <2>6. ASSUME NEW p \in Processors, CompleteJob(p) PROVE ChargeStep
    <3>1. current[p] \in Jobs /\ "complete" \in Writes
      BY <2>6 DEF CompleteJob, LeaseInv, CurrentInv, Writes
    <3> QED
      BY <2>6, <3>1, ReportCharges DEF CompleteJob
  <2>7. ASSUME NEW p \in Processors, DeferJob(p) PROVE ChargeStep
    <3>1. current[p] \in Jobs /\ "defer" \in Writes
      BY <2>7 DEF DeferJob, LeaseInv, CurrentInv, Writes
    <3>2. disturbances' = disturbances + 1
      BY <2>7 DEF DeferJob, Disturb
    <3> QED
      BY <2>7, <3>1, <3>2, ReportCharges DEF DeferJob
  <2>8. ASSUME NEW p \in Processors, NEW retriable \in BOOLEAN, FailJob(p, retriable)
        PROVE ChargeStep
    <3>1. current[p] \in Jobs /\ {"retry", "giveUp"} \subseteq Writes
      BY <2>8 DEF FailJob, LeaseInv, CurrentInv, Writes
    <3>2. CASE retriable /\ AttemptsLeft(current[p])
      BY <2>8, <3>1, <3>2, ReportCharges DEF FailJob
    <3>3. CASE ~(retriable /\ AttemptsLeft(current[p]))
      BY <2>8, <3>1, <3>3, ReportCharges DEF FailJob
    <3> QED
      BY <3>2, <3>3
  <2>9. ASSUME NEW p \in Processors, CommitResult(p) PROVE ChargeInv'
    <3>1. held' = [held EXCEPT ![p] = [held[p] EXCEPT ![current[p]] = 0]]
      BY <2>9 DEF CommitResult
    <3>2. \A q \in Processors, j \in Jobs : j # current[p] => held'[q][j] = held[q][j]
      BY <3>1 DEF TypeOK
    <3>3. \A q \in Processors : q # p => current'[q] = current[q]
      BY <2>9 DEF CommitResult, TypeOK
    <3> QED
      BY <2>9, <3>2, <3>3, CommitCharges DEF CommitResult
  <2>10. ASSUME NEW p \in Processors, CommitUnacknowledged(p) PROVE ChargeInv'
    BY <2>10, CommitCharges DEF CommitUnacknowledged, Disturb
  <2>11. ASSUME NEW p \in Processors, RollBack(p) \/ AbandonCycle(p) PROVE ChargeStep
    <3>1. /\ UNCHANGED <<jobStatus, attemptCount, lockToken, claims, deferrals>>
          /\ disturbances' = disturbances + 1
      BY <2>11 DEF RollBack, AbandonCycle, Disturb
    <3>2. \A q \in Processors : pc'[q] = "writing" =>
            pc[q] = "writing" /\ current'[q] = current[q] /\ write'[q] = write[q]
      BY <2>11 DEF RollBack, AbandonCycle, TypeOK
    <3>3. disturbances' # disturbances
      BY <3>1 DEF TypeOK
    <3> QED
      BY <3>1, <3>2, <3>3 DEF ChargeStep
  <2>12. ASSUME NEW j \in Jobs, RetryComesDue(j) \/ AbandonedLeaseExpires(j) \/ LeaseOutlived(j)
         PROVE ChargeStep
    <3>1. UNCHANGED <<jobStatus, attemptCount, lockToken, claims, deferrals, pc, current, write, held>>
      BY <2>12 DEF RetryComesDue, AbandonedLeaseExpires, LeaseOutlived
    <3>2. CASE LeaseOutlived(j)
      <4>1. disturbances' = disturbances + 1 /\ disturbances' # disturbances
        BY <3>2 DEF LeaseOutlived, Disturb, TypeOK
      <4> QED
        BY <3>1, <4>1 DEF ChargeStep
    <3>3. CASE RetryComesDue(j) \/ AbandonedLeaseExpires(j)
      <4>1. disturbances' = disturbances /\ elapsed' = [elapsed EXCEPT ![j] = TRUE]
        BY <3>3 DEF RetryComesDue, AbandonedLeaseExpires
      <4>2. jobStatus[j] = "PROCESSING" => ~HeldByLiveProcessor(j)
        BY <3>3 DEF RetryComesDue, AbandonedLeaseExpires, Waiting
      <4>3. \A i \in Jobs : jobStatus[i] = "PROCESSING" /\ Unclaimed(i)' => Unclaimed(i)
        BY <3>1, <4>1, <4>2 DEF Unclaimed, HeldByLiveProcessor, TypeOK
      <4> QED
        BY <3>1, <4>1, <4>3 DEF ChargeStep
    <3> QED
      BY <2>12, <3>2, <3>3
  <2>13. CASE UNCHANGED vars
    BY <2>13 DEF vars, ChargeInv, Unclaimed, HeldByLiveProcessor, AttemptsLeft
  <2> QED
    BY ChargeStepKeeps, <2>1, <2>2, <2>3, <2>4, <2>5, <2>6, <2>7, <2>8, <2>9, <2>10,
       <2>11, <2>12, <2>13 DEF Next, Work
<1>3. ChargeInv => ClaimsBounded
  BY DEF ChargeInv, ClaimsBounded
<1> QED
  BY <1>1, <1>2, <1>3, TypeCorrect, LeaseInvariant, AttemptsAccounted, PTL DEF Spec

------------------------------------------------------------------------------
(***************************************************************************)
(* No step touches the row of a settled job.                               *)
(***************************************************************************)
LEMMA SettledRowKept ==
  ASSUME TypeOK, LeaseInv, [Next]_vars, NEW j \in Jobs, jobStatus[j] \in Settled
  PROVE  UNCHANGED <<jobStatus[j], attemptCount[j], lockToken[j], claims[j]>>
<1>1. jobStatus[j] \notin Active \union {"ABSENT", "PROCESSING"}
  BY DEF Settled, Active, Waiting
<1>2. ASSUME NEW b \in Batches, CreateBatch(b)
      PROVE UNCHANGED <<jobStatus[j], attemptCount[j], lockToken[j], claims[j]>>
  <2>1. BatchOf[j] # b
    BY <1>1, <1>2 DEF CreateBatch, LeaseInv, AbsentInv
  <2> QED
    BY <1>2, <2>1 DEF CreateBatch, historyVars
<1>3. ASSUME NEW p \in Processors, NEW i \in Jobs, ClaimJob(p, i), Claimable(i)
      PROVE UNCHANGED <<jobStatus[j], attemptCount[j], lockToken[j], claims[j]>>
  <2>1. i # j
    BY <1>1, <1>3 DEF Claimable
  <2> QED
    BY <1>3, <2>1 DEF ClaimJob, TypeOK
<1>4. ASSUME NEW p \in Processors, NEW next, Commit(p, next)
      PROVE UNCHANGED <<jobStatus[j], attemptCount[j], lockToken[j], claims[j]>>
  <2>1. current[p] # j
    BY <1>1, <1>4, CommitsOnLease
  <2> QED
    BY <1>4, <2>1 DEF Commit, TypeOK
<1>5. ASSUME NEW p \in Processors, FinishClaim(p)
      PROVE UNCHANGED <<jobStatus[j], attemptCount[j], lockToken[j], claims[j]>>
  BY <1>5 DEF FinishClaim, rowVars, historyVars
<1>6. CASE UNCHANGED SeenRows
  BY <1>6 DEF SeenRows
<1> QED
  BY RowSteps, <1>2, <1>3, <1>4, <1>5, <1>6

(***************************************************************************)
(* A settled job is never claimed, retried or settled again.               *)
(***************************************************************************)
THEOREM SettledForGood == Spec => SettledJobsStay
<1>1. TypeOK /\ LeaseInv /\ [Next]_vars =>
        [\A j \in Jobs : jobStatus[j] \in Settled =>
           UNCHANGED <<jobStatus[j], attemptCount[j], lockToken[j], claims[j]>>]_vars
  BY SettledRowKept
<1> QED
  BY <1>1, TypeCorrect, LeaseInvariant, PTL DEF Spec, SettledJobsStay

(***************************************************************************)
(* How a processor comes to be inside a transaction.                       *)
(***************************************************************************)
LEMMA InsideTransaction ==
  ASSUME TypeOK, [Next]_vars, NEW p \in Processors, pc'[p] = "writing"
  PROVE  \/ /\ pc[p] = "writing"
            /\ UNCHANGED <<current[p], write[p], counts[p], counted[p]>>
         \/ counts'[p] = NoCounts /\ counted'[p] = {}
         \/ \E c \in Queries : CountJobs(p, c)
<1> DEFINE Goal == \/ /\ pc[p] = "writing"
                      /\ UNCHANGED <<current[p], write[p], counts[p], counted[p]>>
                   \/ counts'[p] = NoCounts /\ counted'[p] = {}
                   \/ \E c \in Queries : CountJobs(p, c)
<1> USE DEF txVars, TypeOK
<1>1. ASSUME NEW q \in Processors, NEW j, NEW w, Report(q, j, w) PROVE Goal
  <2>1. CASE q = p
    BY <1>1, <2>1 DEF Report
  <2>2. CASE q # p
    <3>1. pc'[p] = pc[p] /\ current'[p] = current[p]
      BY <1>1, <2>2 DEF Report
    <3>2. write'[p] = write[p] /\ counts'[p] = counts[p] /\ counted'[p] = counted[p]
      BY <1>1, <2>2 DEF Report
    <3> QED
      BY <3>1, <3>2
  <2> QED
    BY <2>1, <2>2
<1>2. ASSUME NEW q \in Processors,
             \/ FindCandidates(q) \/ FinishClaim(q) \/ FinishCycle(q)
             \/ RollBack(q) \/ AbandonCycle(q)
             \/ \E j \in Jobs : QueryProvider(q, j)
      PROVE Goal
  <2>1. q # p
    BY <1>2 DEF FindCandidates, FinishClaim, FinishCycle, RollBack, AbandonCycle, QueryProvider
  <2> QED
    BY <1>2, <2>1
    DEF FindCandidates, FinishClaim, FinishCycle, RollBack, AbandonCycle, QueryProvider
<1>3. ASSUME NEW q \in Processors, NEW j \in Jobs, ClaimJob(q, j) PROVE Goal
  BY <1>3 DEF ClaimJob
<1>4. ASSUME NEW q \in Processors, NEW c \in Queries, CountJobs(q, c) PROVE Goal
  BY <1>4 DEF CountJobs
<1>5. ASSUME NEW q \in Processors, CommitResult(q) PROVE Goal
  <2>1. q # p
    BY <1>5 DEF CommitResult, Commit
  <2> QED
    BY <1>5, <2>1 DEF CommitResult, Commit
<1>6. ASSUME NEW q \in Processors, CommitUnacknowledged(q) PROVE Goal
  <2>1. q # p
    BY <1>6 DEF CommitUnacknowledged, Commit
  <2> QED
    BY <1>6, <2>1 DEF CommitUnacknowledged, Commit
<1>7. ASSUME NEW b \in Batches, CreateBatch(b) PROVE Goal
  BY <1>7 DEF CreateBatch
<1>8. ASSUME NEW j \in Jobs, RetryComesDue(j) \/ AbandonedLeaseExpires(j) \/ LeaseOutlived(j)
      PROVE Goal
  BY <1>8 DEF RetryComesDue, AbandonedLeaseExpires, LeaseOutlived
<1>9. CASE UNCHANGED vars
  BY <1>9 DEF vars
<1> QED
  BY <1>1, <1>2, <1>3, <1>4, <1>5, <1>6, <1>7, <1>8, <1>9
  DEF Next, Work, RejectUnauthorized, CompleteJob, DeferJob, FailJob

------------------------------------------------------------------------------
(***************************************************************************)
(* The database's counts of an open transaction: what was counted as       *)
(* settled is settled, what was not counted as active is settled.          *)
(***************************************************************************)
LEMMA CountsInvariant == Spec => []CountsInv
<1>1. Init => CountsInv
  BY DEF Init, CountsInv
<1>2. TypeOK /\ LeaseInv /\ CountsInv /\ [Next]_vars => CountsInv'
  <2> SUFFICES ASSUME TypeOK, LeaseInv, CountsInv, [Next]_vars,
                      NEW p \in Processors, pc'[p] = "writing", NEW j \in Jobs
               PROVE  /\ j \in counts'[p]["succeeded"] =>
                           BatchOf[j] = BatchOf[current'[p]] /\ VisibleStatus(p, j)' = "SUCCEEDED"
                      /\ j \in counts'[p]["failed"] =>
                           BatchOf[j] = BatchOf[current'[p]] /\ VisibleStatus(p, j)' = "FAILED"
                      /\ "active" \in counted'[p] /\ BatchOf[j] = BatchOf[current'[p]]
                           /\ j \notin counts'[p]["active"] => VisibleStatus(p, j)' \in Settled
    BY DEF CountsInv
  <2>1. CASE /\ pc[p] = "writing"
             /\ UNCHANGED <<current[p], write[p], counts[p], counted[p]>>
    <3>1. VisibleStatus(p, j) \in Settled => VisibleStatus(p, j)' = VisibleStatus(p, j)
      <4>1. CASE j = current[p]
        BY <2>1, <4>1 DEF VisibleStatus
      <4>2. CASE j # current[p]
        BY <2>1, <4>2, SettledRowKept DEF VisibleStatus
      <4> QED
        BY <4>1, <4>2
    <3> QED
      BY <2>1, <3>1 DEF CountsInv, Settled
  <2>2. CASE counts'[p] = NoCounts /\ counted'[p] = {}
    BY <2>2 DEF NoCounts, Queries
  <2>3. ASSUME NEW c \in Queries, CountJobs(p, c)
        PROVE  /\ j \in counts'[p]["succeeded"] =>
                    BatchOf[j] = BatchOf[current'[p]] /\ VisibleStatus(p, j)' = "SUCCEEDED"
               /\ j \in counts'[p]["failed"] =>
                    BatchOf[j] = BatchOf[current'[p]] /\ VisibleStatus(p, j)' = "FAILED"
               /\ "active" \in counted'[p] /\ BatchOf[j] = BatchOf[current'[p]]
                    /\ j \notin counts'[p]["active"] => VisibleStatus(p, j)' \in Settled
    <3> DEFINE n == {i \in JobsOf(BatchOf[current[p]]) : VisibleStatus(p, i) \in Selected(c)}
    <3>1. /\ pc[p] = "writing"
          /\ counts' = [counts EXCEPT ![p] = [counts[p] EXCEPT ![c] = n]]
          /\ counted' = [counted EXCEPT ![p] = @ \union {c}]
          /\ current' = current /\ jobStatus' = jobStatus /\ write' = write
      BY <2>3 DEF CountJobs, rowVars
    <3>2. counts'[p] = [counts[p] EXCEPT ![c] = n] /\ counted'[p] = counted[p] \union {c}
      BY <3>1 DEF TypeOK
    <3>3. VisibleStatus(p, j)' = VisibleStatus(p, j)
      BY <3>1 DEF VisibleStatus
    <3>4. counts'[p][c] = n /\ \A d \in Queries : d # c => counts'[p][d] = counts[p][d]
      BY <3>2 DEF TypeOK
    <3>5. VisibleStatus(p, j) \in Active \union Settled \union {"ABSENT"}
      BY DEF VisibleStatus, NewStatus, TypeOK, Active, Waiting, Settled
    <3>6. VisibleStatus(p, j) # "ABSENT" \/ BatchOf[j] # BatchOf[current[p]]
      <4>1. current[p] \in Jobs /\ jobStatus[current[p]] = "PROCESSING"
        BY <3>1 DEF LeaseInv, CurrentInv, WriterOwnsLease, HoldsLease
      <4> QED
        BY <4>1 DEF VisibleStatus, NewStatus, LeaseInv, AbsentInv
    <3>7. CASE c = "succeeded"
      BY <3>1, <3>2, <3>3, <3>4, <3>7 DEF CountsInv, Selected, JobsOf, Queries
    <3>8. CASE c = "failed"
      BY <3>1, <3>2, <3>3, <3>4, <3>8 DEF CountsInv, Selected, JobsOf, Queries
    <3>9. CASE c = "active"
      <4>1. j \in n <=> BatchOf[j] = BatchOf[current[p]] /\ VisibleStatus(p, j) \in Active
        BY <3>9 DEF Selected, JobsOf
      <4> QED
        BY <3>1, <3>2, <3>3, <3>4, <3>5, <3>6, <3>9, <4>1 DEF CountsInv, Queries
    <3> QED
      BY <3>7, <3>8, <3>9 DEF Queries
  <2> QED
    BY <2>1, <2>2, <2>3, InsideTransaction
<1> QED
  BY <1>1, <1>2, TypeCorrect, LeaseInvariant, PTL DEF Spec

(***************************************************************************)
(* What a commit makes of its batch: every job a closing verdict speaks of *)
(* is settled by then, and as the verdict says if it is unanimous.         *)
(***************************************************************************)
LEMMA CommitVerdict ==
  ASSUME TypeOK, LeaseInv, CountsInv, NEW p \in Processors, NEW next, Commit(p, next),
         NEW j \in Jobs
  PROVE  /\ BatchOf[j] # BatchOf[current[p]] =>
              UNCHANGED <<jobStatus[j], batchStatus[BatchOf[j]]>>
         /\ BatchOf[j] = BatchOf[current[p]] =>
              /\ batchStatus'[BatchOf[j]] \in {"RUNNING"} \union BatchClosed
              /\ batchStatus'[BatchOf[j]] \in BatchClosed => jobStatus'[j] \in Settled
              /\ batchStatus'[BatchOf[j]] \in Settled =>
                   jobStatus'[j] = batchStatus'[BatchOf[j]]
<1> DEFINE b == BatchOf[current[p]]
           n == counts[p]
<1>1. /\ pc[p] = "writing" /\ counted[p] = Queries
      /\ batchStatus' = [batchStatus EXCEPT ![b] = Verdict(b, n)]
  BY DEF Commit
<1>2. /\ current[p] \in Jobs /\ b \in Batches
      /\ jobStatus' = [jobStatus EXCEPT ![current[p]] = NewStatus(write[p])]
  BY CommitsOnLease
<1>3. CASE BatchOf[j] # b
  BY <1>1, <1>2, <1>3 DEF TypeOK
<1>4. CASE BatchOf[j] = b
  <2>1. batchStatus'[b] = Verdict(b, n)
    BY <1>1, <1>2 DEF TypeOK
  <2>2. jobStatus'[j] = VisibleStatus(p, j)
    BY <1>2 DEF VisibleStatus, TypeOK
  <2>3. j \in JobsOf(b) /\ "active" \in counted[p]
    BY <1>1, <1>4 DEF JobsOf, Queries
  <2>4. /\ j \in n["succeeded"] => VisibleStatus(p, j) = "SUCCEEDED"
        /\ j \in n["failed"] => VisibleStatus(p, j) = "FAILED"
        /\ n["active"] = {} => VisibleStatus(p, j) \in Settled
    BY <1>1, <1>4, <2>3 DEF CountsInv
  <2>5. CASE n["active"] # {}
    BY <2>1, <2>5, <1>4 DEF Verdict, BatchClosed, Settled
  <2>6. CASE n["active"] = {} /\ n["succeeded"] = JobsOf(b)
    BY <2>1, <2>2, <2>3, <2>4, <2>6, <1>4 DEF Verdict, BatchClosed, Settled
  <2>7. CASE n["active"] = {} /\ n["succeeded"] # JobsOf(b) /\ n["failed"] = JobsOf(b)
    BY <2>1, <2>2, <2>3, <2>4, <2>7, <1>4 DEF Verdict, BatchClosed, Settled
  <2>8. CASE n["active"] = {} /\ n["succeeded"] # JobsOf(b) /\ n["failed"] # JobsOf(b)
    BY <2>1, <2>2, <2>4, <2>8, <1>4 DEF Verdict, BatchClosed, Settled
  <2> QED
    BY <2>5, <2>6, <2>7, <2>8
<1> QED
  BY <1>3, <1>4

(***************************************************************************)
(* The part of a closed verdict that speaks of the jobs.                   *)
(***************************************************************************)
LEMMA VerdictInvariant == Spec => []VerdictInv
<1>1. Init => VerdictInv
  BY QueueAssumption DEF Init, VerdictInv, BatchClosed, Settled
<1>2. TypeOK /\ LeaseInv /\ CountsInv /\ VerdictInv /\ [Next]_vars => VerdictInv'
  <2> SUFFICES ASSUME TypeOK, LeaseInv, CountsInv, VerdictInv, [Next]_vars, NEW j \in Jobs
               PROVE  /\ batchStatus'[BatchOf[j]] \in BatchClosed => jobStatus'[j] \in Settled
                      /\ batchStatus'[BatchOf[j]] \in Settled =>
                           jobStatus'[j] = batchStatus'[BatchOf[j]]
    BY DEF VerdictInv
  <2> DEFINE Goal == /\ batchStatus'[BatchOf[j]] \in BatchClosed => jobStatus'[j] \in Settled
                     /\ batchStatus'[BatchOf[j]] \in Settled =>
                          jobStatus'[j] = batchStatus'[BatchOf[j]]
  <2>1. batchStatus'[BatchOf[j]] = batchStatus[BatchOf[j]] => Goal
    <3>1. jobStatus[j] \in Settled => jobStatus'[j] = jobStatus[j]
      BY SettledRowKept
    <3> QED
      BY <3>1 DEF VerdictInv, BatchClosed
  <2>2. BatchOf[j] \in Batches
    BY QueueAssumption
  <2>3. ASSUME NEW b \in Batches, CreateBatch(b) PROVE Goal
    <3>1. CASE BatchOf[j] = b
      BY <2>3, <3>1 DEF CreateBatch, TypeOK, BatchClosed, Settled
    <3>2. CASE BatchOf[j] # b
      BY <2>1, <2>2, <2>3, <3>2 DEF CreateBatch, TypeOK
    <3> QED
      BY <3>1, <3>2
  <2>4. ASSUME NEW p \in Processors, NEW i \in Jobs, ClaimJob(p, i) PROVE Goal
    BY <2>1, <2>4 DEF ClaimJob, batchVars
  <2>5. ASSUME NEW p \in Processors, FinishClaim(p) PROVE Goal
    <3>1. batchStatus'[BatchOf[j]] \in {batchStatus[BatchOf[j]], "RUNNING"}
      BY <2>2, <2>5 DEF FinishClaim
    <3> QED
      BY <2>1, <3>1 DEF BatchClosed, Settled
  <2>6. ASSUME NEW p \in Processors, NEW next, Commit(p, next) PROVE Goal
    BY <2>1, <2>6, CommitVerdict
  <2>7. CASE UNCHANGED SeenRows
    BY <2>1, <2>7 DEF SeenRows, batchVars
  <2> QED
    BY RowSteps, <2>3, <2>4, <2>5, <2>6, <2>7
<1> QED
  BY <1>1, <1>2, TypeCorrect, LeaseInvariant, CountsInvariant, PTL DEF Spec

(***************************************************************************)
(* The counters stored with a batch never exceed the truth.                *)
(***************************************************************************)
Ended(b, o) == {j \in JobsOf(b) : jobStatus[j] = o}

CountersInv ==
  \A b \in Batches :
    /\ succeededJobs[b] <= Cardinality(Ended(b, "SUCCEEDED"))
    /\ failedJobs[b] <= Cardinality(Ended(b, "FAILED"))

LEMMA CountersInvariant == Spec => []CountersInv
<1>1. Init => CountersInv
  <2> SUFFICES ASSUME Init, NEW b \in Batches
               PROVE  /\ succeededJobs[b] <= Cardinality(Ended(b, "SUCCEEDED"))
                      /\ failedJobs[b] <= Cardinality(Ended(b, "FAILED"))
    BY DEF CountersInv
  <2>1. succeededJobs[b] = 0 /\ failedJobs[b] = 0
    BY DEF Init
  <2>2. Ended(b, "SUCCEEDED") \in SUBSET Jobs /\ Ended(b, "FAILED") \in SUBSET Jobs
    BY DEF Ended, JobsOf
  <2>3. Cardinality(Ended(b, "SUCCEEDED")) \in Nat /\ Cardinality(Ended(b, "FAILED")) \in Nat
    BY <2>2, CountTyping
  <2> QED
    BY <2>1, <2>3
<1>2. TypeOK /\ LeaseInv /\ CountsInv /\ CountersInv /\ [Next]_vars => CountersInv'
  <2> SUFFICES ASSUME TypeOK, LeaseInv, CountsInv, CountersInv, [Next]_vars, NEW b \in Batches
               PROVE  /\ succeededJobs'[b] <= Cardinality(Ended(b, "SUCCEEDED")')
                      /\ failedJobs'[b] <= Cardinality(Ended(b, "FAILED")')
    BY DEF CountersInv
  <2> DEFINE Goal == /\ succeededJobs'[b] <= Cardinality(Ended(b, "SUCCEEDED")')
                     /\ failedJobs'[b] <= Cardinality(Ended(b, "FAILED")')
  <2>1. Ended(b, "SUCCEEDED")' \in SUBSET Jobs /\ Ended(b, "FAILED")' \in SUBSET Jobs
    BY DEF Ended, JobsOf
  <2>2. /\ Ended(b, "SUCCEEDED") \in SUBSET Ended(b, "SUCCEEDED")'
        /\ Ended(b, "FAILED") \in SUBSET Ended(b, "FAILED")'
    <3>1. ASSUME NEW j \in Jobs, jobStatus[j] \in Settled PROVE jobStatus'[j] = jobStatus[j]
      BY <3>1, SettledRowKept
    <3> QED
      BY <3>1 DEF Ended, JobsOf, Settled
  <2>3. Ended(b, "SUCCEEDED") \in SUBSET Jobs /\ Ended(b, "FAILED") \in SUBSET Jobs
    BY DEF Ended, JobsOf
  <2>4. /\ Cardinality(Ended(b, "SUCCEEDED")) \in Nat
        /\ Cardinality(Ended(b, "FAILED")) \in Nat
        /\ Cardinality(Ended(b, "SUCCEEDED")') \in Nat
        /\ Cardinality(Ended(b, "FAILED")') \in Nat
        /\ Cardinality(Ended(b, "SUCCEEDED")) <= Cardinality(Ended(b, "SUCCEEDED")')
        /\ Cardinality(Ended(b, "FAILED")) <= Cardinality(Ended(b, "FAILED")')
    BY <2>1, <2>2, <2>3, CountTyping
  <2>5. succeededJobs[b] \in Nat /\ failedJobs[b] \in Nat
    BY DEF TypeOK
  <2>6. succeededJobs'[b] = succeededJobs[b] /\ failedJobs'[b] = failedJobs[b] => Goal
    BY <2>4, <2>5 DEF CountersInv
  <2>7. ASSUME NEW c \in Batches, CreateBatch(c) PROVE Goal
    BY <2>6, <2>7 DEF CreateBatch
  <2>8. ASSUME NEW p \in Processors, NEW i \in Jobs, ClaimJob(p, i) PROVE Goal
    BY <2>6, <2>8 DEF ClaimJob, batchVars
  <2>9. ASSUME NEW p \in Processors, FinishClaim(p) PROVE Goal
    BY <2>6, <2>9 DEF FinishClaim
  <2>10. ASSUME NEW p \in Processors, NEW next, Commit(p, next) PROVE Goal
    <3>1. /\ succeededJobs' = [succeededJobs EXCEPT ![BatchOf[current[p]]] =
                                 Cardinality(counts[p]["succeeded"])]
          /\ failedJobs' = [failedJobs EXCEPT ![BatchOf[current[p]]] =
                                 Cardinality(counts[p]["failed"])]
          /\ pc[p] = "writing"
      BY <2>10 DEF Commit
    <3>2. CASE b # BatchOf[current[p]]
      BY <2>6, <3>1, <3>2 DEF TypeOK
    <3>3. CASE b = BatchOf[current[p]]
      <4>1. /\ succeededJobs'[b] = Cardinality(counts[p]["succeeded"])
            /\ failedJobs'[b] = Cardinality(counts[p]["failed"])
        BY <3>1, <3>3 DEF TypeOK
      <4>2. \A j \in Jobs : jobStatus'[j] = VisibleStatus(p, j)
        BY <2>10, CommitsOnLease DEF VisibleStatus, TypeOK
      <4>3. counts[p]["succeeded"] \in SUBSET Jobs /\ counts[p]["failed"] \in SUBSET Jobs
        BY DEF TypeOK, Queries
      <4>4. /\ counts[p]["succeeded"] \in SUBSET Ended(b, "SUCCEEDED")'
            /\ counts[p]["failed"] \in SUBSET Ended(b, "FAILED")'
        BY <3>1, <3>3, <4>2, <4>3 DEF CountsInv, Ended, JobsOf
      <4> QED
        BY <2>1, <4>1, <4>4, CountTyping
    <3> QED
      BY <3>2, <3>3
  <2>11. CASE UNCHANGED SeenRows
    BY <2>6, <2>11 DEF SeenRows, batchVars
  <2> QED
    BY RowSteps, <2>7, <2>8, <2>9, <2>10, <2>11
<1> QED
  BY <1>1, <1>2, TypeCorrect, LeaseInvariant, CountsInvariant, PTL DEF Spec

(***************************************************************************)
(* A batch is never closed early, never unanimously for a mixed result,    *)
(* and its counters never run ahead of its jobs.                           *)
(***************************************************************************)
THEOREM VerdictsSound == Spec => []BatchVerdictSound
<1>1. TypeOK /\ VerdictInv /\ CountersInv => BatchVerdictSound
  BY DEF VerdictInv, CountersInv, BatchVerdictSound, Ended, JobsOf
<1> QED
  BY <1>1, TypeCorrect, VerdictInvariant, CountersInvariant, PTL

(***************************************************************************)
(* A closed batch is never reopened nor judged anew: all its jobs are      *)
(* settled, so nothing of it is left to commit.                            *)
(***************************************************************************)
THEOREM VerdictsFinal == Spec => BatchVerdictFinal
<1>1. TypeOK /\ LeaseInv /\ VerdictInv /\ [Next]_vars =>
        [\A b \in Batches : batchStatus[b] \in BatchClosed => batchStatus'[b] = batchStatus[b]]_vars
  <2> SUFFICES ASSUME TypeOK, LeaseInv, VerdictInv, [Next]_vars,
                      NEW b \in Batches, batchStatus[b] \in BatchClosed
               PROVE  batchStatus'[b] = batchStatus[b]
    OBVIOUS
  <2>1. batchStatus[b] \notin {"ABSENT", "QUEUED"}
    BY DEF BatchClosed, Settled
  <2>2. ASSUME NEW c \in Batches, CreateBatch(c) PROVE batchStatus'[b] = batchStatus[b]
    BY <2>1, <2>2 DEF CreateBatch, TypeOK
  <2>3. ASSUME NEW p \in Processors, NEW i \in Jobs, ClaimJob(p, i)
        PROVE  batchStatus'[b] = batchStatus[b]
    BY <2>3 DEF ClaimJob, batchVars
  <2>4. ASSUME NEW p \in Processors, FinishClaim(p) PROVE batchStatus'[b] = batchStatus[b]
    BY <2>1, <2>4 DEF FinishClaim
  <2>5. ASSUME NEW p \in Processors, NEW next, Commit(p, next)
        PROVE  batchStatus'[b] = batchStatus[b]
    <3>1. BatchOf[current[p]] # b
      BY <2>5, CommitsOnLease DEF VerdictInv, Settled
    <3> QED
      BY <2>5, <3>1 DEF Commit, TypeOK
  <2>6. CASE UNCHANGED SeenRows
    BY <2>6 DEF SeenRows, batchVars
  <2> QED
    BY RowSteps, <2>2, <2>3, <2>4, <2>5, <2>6
<1> QED
  BY <1>1, TypeCorrect, LeaseInvariant, VerdictInvariant, PTL DEF Spec, BatchVerdictFinal

------------------------------------------------------------------------------
(***************************************************************************)
(* The refinement of SyncPromise.  What the requester sees of a state.     *)
(***************************************************************************)
Outcome == [j \in Jobs |-> IF jobStatus[j] \in Settled THEN jobStatus[j] ELSE "pending"]

Closed == [b \in Batches |-> IF batchStatus[b] \in BatchClosed THEN batchStatus[b] ELSE "open"]

(***************************************************************************)
(* A commit that settles a job is a step of the promise, one that defers   *)
(* or reschedules it is invisible.                                         *)
(***************************************************************************)
LEMMA CommitRefines ==
  ASSUME TypeOK, LeaseInv, CountsInv, VerdictInv, NEW p \in Processors, NEW next,
         Commit(p, next)
  PROVE  Promise!Next \/ UNCHANGED <<Outcome, Closed>>
<1> DEFINE j == current[p]
           b == BatchOf[j]
           o == NewStatus(write[p])
<1>1. /\ j \in Jobs /\ b \in Batches
      /\ jobStatus[j] = "PROCESSING"
      /\ jobStatus' = [jobStatus EXCEPT ![j] = o]
      /\ batchStatus' = [batchStatus EXCEPT ![b] = Verdict(b, counts[p])]
      /\ pc[p] = "writing"
      /\ counted[p] = Queries
  BY CommitsOnLease DEF Commit
<1>2. batchStatus[b] \notin BatchClosed
  BY <1>1 DEF VerdictInv, Settled
<1>3. batchStatus'[b] = Verdict(b, counts[p])
  BY <1>1 DEF TypeOK
<1>4. o \in Settled \union {"RETRY_SCHEDULED"}
  BY DEF NewStatus, Settled
<1>5. CASE o \notin Settled
  <2>1. j \in counts[p]["active"]
    BY <1>1, <1>5 DEF CountsInv, VisibleStatus, Queries
  <2>2. batchStatus'[b] \notin BatchClosed
    BY <1>3, <2>1 DEF Verdict, BatchClosed, Settled
  <2>3. Closed' = Closed
    BY <1>1, <1>2, <2>2 DEF Closed, TypeOK
  <2>4. jobStatus[j] \notin Settled
    BY <1>1 DEF Settled
  <2>5. Outcome' = Outcome
    BY <1>1, <1>5, <2>4 DEF Outcome, TypeOK
  <2> QED
    BY <2>3, <2>5
<1>6. CASE o \in Settled
  <2>1. Outcome[j] = "pending" /\ Closed[b] = "open"
    BY <1>1, <1>2 DEF Outcome, Closed, Settled
  <2>2. Outcome' = [Outcome EXCEPT ![j] = o]
    BY <1>1, <1>6 DEF Outcome, TypeOK
  <2>3. \/ Closed' = Closed
        \/ \E v \in Promise!Verdicts :
             /\ Promise!MayClose(b, v, Outcome')
             /\ Closed' = [Closed EXCEPT ![b] = v]
    <3>1. CASE batchStatus'[b] \notin BatchClosed
      BY <1>1, <1>2, <3>1 DEF Closed, TypeOK
    <3>2. CASE batchStatus'[b] \in BatchClosed
      <4> DEFINE v == batchStatus'[b]
      <4>1. Closed' = [Closed EXCEPT ![b] = v]
        BY <1>1, <3>2 DEF Closed, TypeOK
      <4>2. v \in Promise!Verdicts
        BY <3>2 DEF Promise!Verdicts, Promise!Outcomes, BatchClosed, Settled
      <4>3. ASSUME NEW i \in Jobs, BatchOf[i] = b
            PROVE  /\ jobStatus'[i] \in Settled
                   /\ v \in Settled => jobStatus'[i] = v
        BY <1>1, <3>2, <4>3, CommitVerdict
      <4>4. ASSUME NEW i \in Jobs, BatchOf[i] = b
            PROVE  Outcome'[i] # "pending" /\ (v \in Settled => Outcome'[i] = v)
        <5>1. Outcome'[i] = IF jobStatus'[i] \in Settled THEN jobStatus'[i] ELSE "pending"
          BY DEF Outcome
        <5> QED
          BY <4>3, <4>4, <5>1 DEF Settled
      <4>5. Promise!MayClose(b, v, Outcome')
        BY <4>4 DEF Promise!MayClose, Promise!Outcomes, Settled
      <4> QED
        BY <4>1, <4>2, <4>5
    <3> QED
      BY <3>1, <3>2
  <2>4. o \in Promise!Outcomes
    BY <1>6 DEF Promise!Outcomes, Settled
  <2>5. PICK i \in Jobs, q \in Promise!Outcomes : i = j /\ q = o
    BY <1>1, <2>4
  <2>6. Promise!Settle(i, q)
    BY <2>1, <2>2, <2>3, <2>5 DEF Promise!Settle, Outcome, Closed
  <2> QED
    BY <2>6 DEF Promise!Next
<1> QED
  BY <1>4, <1>5, <1>6

(***************************************************************************)
(* The queue implements SyncPromise: whatever leases, take-overs, lost     *)
(* acknowledgements and concurrent counts happen underneath, the requester *)
(* sees each job settled once and each verdict given once, on a settled    *)
(* batch, and unanimous only if its jobs are.                              *)
(***************************************************************************)
THEOREM KeepsPromise == Spec => PromiseKept
<1>1. Init => Promise!Init
  BY QueueAssumption DEF Init, Promise!Init, Settled, BatchClosed
<1>2. TypeOK /\ LeaseInv /\ CountsInv /\ VerdictInv /\ [Next]_vars =>
        [Promise!Next]_(Promise!promiseVars)
  <2> SUFFICES ASSUME TypeOK, LeaseInv, CountsInv, VerdictInv, [Next]_vars
               PROVE  Promise!Next \/ UNCHANGED <<Outcome, Closed>>
    BY DEF Outcome, Closed, Promise!promiseVars
  <2>1. ASSUME NEW b \in Batches, CreateBatch(b) PROVE UNCHANGED <<Outcome, Closed>>
    <3>1. \A j \in Jobs : BatchOf[j] = b => jobStatus[j] = "ABSENT"
      BY <2>1 DEF CreateBatch, LeaseInv, AbsentInv
    <3>2. Outcome' = Outcome
      BY <2>1, <3>1 DEF CreateBatch, Outcome, Settled
    <3>3. Closed' = Closed
      BY <2>1 DEF CreateBatch, Closed, BatchClosed, Settled, TypeOK
    <3> QED
      BY <3>2, <3>3
  <2>2. ASSUME NEW p \in Processors, NEW j \in Jobs, ClaimJob(p, j), Claimable(j)
        PROVE UNCHANGED <<Outcome, Closed>>
    <3>1. jobStatus[j] \notin Settled
      BY <2>2 DEF Claimable, Active, Waiting, Settled
    <3>2. jobStatus' = [jobStatus EXCEPT ![j] = "PROCESSING"] /\ batchStatus' = batchStatus
      BY <2>2 DEF ClaimJob, batchVars
    <3> QED
      BY <3>1, <3>2 DEF Outcome, Closed, Settled, TypeOK
  <2>3. ASSUME NEW p \in Processors, FinishClaim(p) PROVE UNCHANGED <<Outcome, Closed>>
    <3>1. /\ jobStatus' = jobStatus
          /\ \A b \in Batches : \/ batchStatus'[b] = batchStatus[b]
                                \/ batchStatus[b] = "QUEUED" /\ batchStatus'[b] = "RUNNING"
      BY <2>3 DEF FinishClaim, rowVars
    <3> QED
      BY <3>1 DEF Outcome, Closed, BatchClosed, Settled
  <2>4. ASSUME NEW p \in Processors, NEW next, Commit(p, next)
        PROVE Promise!Next \/ UNCHANGED <<Outcome, Closed>>
    BY <2>4, CommitRefines
  <2>5. CASE UNCHANGED SeenRows
    BY <2>5 DEF SeenRows, batchVars, Outcome, Closed
  <2> QED
    BY RowSteps, <2>1, <2>2, <2>3, <2>4, <2>5
<1> QED
  BY <1>1, <1>2, TypeCorrect, LeaseInvariant, CountsInvariant, VerdictInvariant, PTL
  DEF Spec, PromiseKept, Promise!Spec

------------------------------------------------------------------------------
(***************************************************************************)
(* While one transaction of a batch counts and no other does, the jobs of  *)
(* the batch keep their place in every count: the only commits in between  *)
(* are claims, which move a job from active to active.                     *)
(***************************************************************************)
LEMMA PlaceKept ==
  ASSUME TypeOK, LeaseInv, CountsSerialised, [Next]_vars,
         NEW p \in Processors, pc[p] = "writing", counted[p] # {},
         NEW j \in Jobs, BatchOf[j] = BatchOf[current[p]], j # current[p]
  PROVE  jobStatus'[j] = jobStatus[j] \/ (jobStatus[j] \in Active /\ jobStatus'[j] \in Active)
<1>1. ASSUME NEW b \in Batches, CreateBatch(b) PROVE jobStatus'[j] = jobStatus[j]
  <2>1. current[p] \in Jobs /\ jobStatus[current[p]] = "PROCESSING"
    BY DEF LeaseInv, CurrentInv, WriterOwnsLease, HoldsLease
  <2>2. BatchOf[j] # b
    BY <1>1, <2>1 DEF CreateBatch, LeaseInv, AbsentInv
  <2>. QED
    BY <1>1, <2>2 DEF CreateBatch
<1>2. ASSUME NEW q \in Processors, NEW i \in Jobs, ClaimJob(q, i), Claimable(i)
      PROVE jobStatus'[j] = jobStatus[j] \/ (jobStatus[j] \in Active /\ jobStatus'[j] \in Active)
  BY <1>2 DEF ClaimJob, Claimable, TypeOK, Active
<1>3. ASSUME NEW q \in Processors, NEW next, Commit(q, next)
      PROVE jobStatus'[j] = jobStatus[j]
  <2>1. pc[q] = "writing" /\ counted[q] # {}
    BY <1>3 DEF Commit, Queries
  <2>2. current[q] # j
    BY <2>1 DEF CountsSerialised
  <2>3. jobStatus' = [jobStatus EXCEPT ![current[q]] = NewStatus(write[q])]
    BY <1>3, CommitsOnLease
  <2>. QED
    BY <2>2, <2>3 DEF TypeOK
<1>4. ASSUME NEW q \in Processors, FinishClaim(q) PROVE jobStatus'[j] = jobStatus[j]
  BY <1>4 DEF FinishClaim, rowVars
<1>5. CASE UNCHANGED SeenRows
  BY <1>5 DEF SeenRows
<1>. QED
  BY RowSteps, <1>1, <1>2, <1>3, <1>4, <1>5

LEMMA ExactCountsStep ==
  TypeOK /\ TypeOK' /\ LeaseInv /\ CountsSerialised /\ ExactCounts /\ [Next]_vars
    => ExactCounts'
<1>. SUFFICES ASSUME TypeOK, TypeOK', LeaseInv, CountsSerialised, ExactCounts, [Next]_vars,
                     NEW p \in Processors, pc'[p] = "writing", NEW c \in counted'[p]
              PROVE  counts'[p][c] = {j \in JobsOf(BatchOf[current'[p]]) :
                                        VisibleStatus(p, j)' \in Selected(c)}
  BY DEF ExactCounts
<1>1. c \in Queries
  BY DEF TypeOK
<1>2. CASE /\ pc[p] = "writing"
           /\ UNCHANGED <<current[p], write[p], counts[p], counted[p]>>
  <2>1. ASSUME NEW j \in JobsOf(BatchOf[current[p]])
        PROVE  VisibleStatus(p, j)' \in Selected(c) <=> VisibleStatus(p, j) \in Selected(c)
    <3>1. CASE j = current[p]
      BY <1>2, <3>1 DEF VisibleStatus
    <3>2. CASE j # current[p]
      <4>1. j \in Jobs /\ BatchOf[j] = BatchOf[current[p]] /\ counted[p] # {}
        BY <1>2, <2>1 DEF JobsOf
      <4>2. jobStatus'[j] = jobStatus[j] \/ (jobStatus[j] \in Active /\ jobStatus'[j] \in Active)
        BY <1>2, <3>2, <4>1, PlaceKept
      <4>. QED
        BY <1>1, <1>2, <3>2, <4>2 DEF VisibleStatus, Selected, Queries, Active, Waiting
    <3>. QED
      BY <3>1, <3>2
  <2>2. counts[p][c] = {j \in JobsOf(BatchOf[current[p]]) : VisibleStatus(p, j) \in Selected(c)}
    BY <1>2 DEF ExactCounts
  <2>. QED
    BY <1>2, <2>1, <2>2
<1>3. CASE counts'[p] = NoCounts /\ counted'[p] = {}
  BY <1>3
<1>4. ASSUME NEW d \in Queries, CountJobs(p, d)
      PROVE  counts'[p][c] = {j \in JobsOf(BatchOf[current'[p]]) :
                                VisibleStatus(p, j)' \in Selected(c)}
  <2>. DEFINE N(q) == {j \in JobsOf(BatchOf[current[p]]) : VisibleStatus(p, j) \in Selected(q)}
  <2>1. /\ pc[p] = "writing"
        /\ counts' = [counts EXCEPT ![p] = [counts[p] EXCEPT ![d] = N(d)]]
        /\ counted' = [counted EXCEPT ![p] = @ \union {d}]
        /\ current' = current /\ jobStatus' = jobStatus /\ write' = write
    BY <1>4 DEF CountJobs, rowVars
  <2>2. \A j : VisibleStatus(p, j)' = VisibleStatus(p, j)
    BY <2>1 DEF VisibleStatus
  <2>3. /\ counts'[p][d] = N(d)
        /\ c # d => counts'[p][c] = counts[p][c]
        /\ c # d => c \in counted[p]
    BY <1>1, <2>1 DEF TypeOK
  <2>4. c \in counted[p] => counts[p][c] = N(c)
    BY <2>1 DEF ExactCounts
  <2>5. counts'[p][c] = N(c)
    <3>. HIDE DEF N
    <3>. QED
      BY <2>3, <2>4
  <2>. QED
    BY <2>1, <2>2, <2>5
<1>. QED
  BY <1>2, <1>3, <1>4, InsideTransaction

(***************************************************************************)
(* A batch all of whose jobs are settled stands at its true verdict.       *)
(***************************************************************************)
LEMMA SettledBatchStep ==
  ASSUME \A b \in Batches : JobsOf(b) # {}
  PROVE  TypeOK /\ LeaseInv /\ ExactCounts /\ SettledBatchIsExact /\ [Next]_vars
           => SettledBatchIsExact'
<1>. SUFFICES ASSUME TypeOK, LeaseInv, ExactCounts, SettledBatchIsExact, [Next]_vars,
                     NEW b \in Batches, batchStatus'[b] # "ABSENT",
                     \A j \in JobsOf(b) : jobStatus'[j] \in Settled
              PROVE  /\ batchStatus'[b] = Verdict(b, Standing(b)')
                     /\ succeededJobs'[b] = Cardinality(Standing(b)'["succeeded"])
                     /\ failedJobs'[b] = Cardinality(Standing(b)'["failed"])
  BY DEF SettledBatchIsExact, Verdict
<1>. DEFINE Goal == /\ batchStatus'[b] = Verdict(b, Standing(b)')
                    /\ succeededJobs'[b] = Cardinality(Standing(b)'["succeeded"])
                    /\ failedJobs'[b] = Cardinality(Standing(b)'["failed"])
<1>1. ASSUME \A j \in JobsOf(b) : jobStatus'[j] = jobStatus[j],
             UNCHANGED <<batchStatus[b], succeededJobs[b], failedJobs[b]>>
      PROVE Goal
  <2>1. Standing(b)' = Standing(b)
    BY <1>1 DEF Standing
  <2>2. /\ batchStatus[b] = Verdict(b, Standing(b))
        /\ succeededJobs[b] = Cardinality(Standing(b)["succeeded"])
        /\ failedJobs[b] = Cardinality(Standing(b)["failed"])
    BY <1>1 DEF SettledBatchIsExact
  <2>. QED
    BY <1>1, <2>1, <2>2
<1>2. PICK i \in JobsOf(b) : i \in Jobs /\ BatchOf[i] = b
  BY DEF JobsOf
<1>3. ASSUME NEW a \in Batches, CreateBatch(a) PROVE Goal
  <2>1. a # b
    BY <1>2, <1>3 DEF CreateBatch, Settled
  <2>. QED
    BY <1>1, <1>3, <2>1 DEF CreateBatch, JobsOf, TypeOK
<1>4. ASSUME NEW q \in Processors, NEW j \in Jobs, ClaimJob(q, j), Claimable(j) PROVE Goal
  <2>1. j \notin JobsOf(b)
    BY <1>4 DEF ClaimJob, TypeOK, Settled
  <2>. QED
    BY <1>1, <1>4, <2>1 DEF ClaimJob, TypeOK, JobsOf, batchVars
<1>5. ASSUME NEW q \in Processors, FinishClaim(q) PROVE Goal
  <2>1. /\ jobStatus' = jobStatus /\ succeededJobs' = succeededJobs /\ failedJobs' = failedJobs
        /\ batchStatus'[b] = batchStatus[b] \/ batchStatus[b] = "QUEUED"
    BY <1>5 DEF FinishClaim, rowVars
  <2>2. CASE batchStatus[b] = "QUEUED"
    <3>1. batchStatus[b] = Verdict(b, Standing(b))
      BY <2>1, <2>2 DEF SettledBatchIsExact
    <3>. QED
      BY <2>2, <3>1 DEF Verdict
  <2>. QED
    BY <1>1, <2>1, <2>2
<1>6. ASSUME NEW p \in Processors, NEW next, Commit(p, next) PROVE Goal
  <2>1. /\ current[p] \in Jobs /\ BatchOf[current[p]] \in Batches
        /\ jobStatus' = [jobStatus EXCEPT ![current[p]] = NewStatus(write[p])]
    BY <1>6, CommitsOnLease
  <2>2. CASE BatchOf[current[p]] = b
    <3>1. /\ batchStatus'[b] = Verdict(b, counts[p])
          /\ succeededJobs'[b] = Cardinality(counts[p]["succeeded"])
          /\ failedJobs'[b] = Cardinality(counts[p]["failed"])
      BY <1>6, <2>1, <2>2 DEF Commit, TypeOK
    <3>2. \A j \in JobsOf(b) : VisibleStatus(p, j) = jobStatus'[j]
      BY <2>1 DEF VisibleStatus, JobsOf, TypeOK
    <3>3. \A c \in Queries :
            counts[p][c] = {j \in JobsOf(b) : VisibleStatus(p, j) \in Selected(c)}
      BY <1>6, <2>2 DEF Commit, ExactCounts
    <3>4. Standing(b)' = [c \in Queries |-> {j \in JobsOf(b) : jobStatus'[j] \in Selected(c)}]
      BY DEF Standing
    <3>5. counts[p] = Standing(b)'
      <4>1. \A c \in Queries : counts[p][c] = {j \in JobsOf(b) : jobStatus'[j] \in Selected(c)}
        BY <3>2, <3>3
      <4>2. counts[p] = [c \in Queries |-> counts[p][c]]
        BY DEF TypeOK
      <4>. QED
        BY <3>4, <4>1, <4>2
    <3>. QED
      BY <3>1, <3>5
  <2>3. CASE BatchOf[current[p]] # b
    BY <1>1, <1>6, <2>1, <2>3 DEF Commit, TypeOK, JobsOf
  <2>. QED
    BY <2>2, <2>3
<1>7. CASE UNCHANGED SeenRows
  BY <1>1, <1>7 DEF SeenRows, batchVars
<1>. QED
  BY RowSteps, <1>3, <1>4, <1>5, <1>6, <1>7

(***************************************************************************)
(* The whole of what keeps a settled batch from being closed is that two   *)
(* transactions of the batch count at the same time.  If one lets the      *)
(* other finish first, the last one closes the batch, with the true        *)
(* verdict and the true counters, whatever else overlaps, crashes or is    *)
(* taken over (a batch has at least one company: request-ecac-sync.ts).    *)
(***************************************************************************)
THEOREM SerialisedCountsCloseBatches ==
  ASSUME \A b \in Batches : JobsOf(b) # {}
  PROVE  Spec /\ []CountsSerialised => [](SettledBatchIsClosed /\ SettledBatchIsExact)
<1>1. Init => ExactCounts /\ SettledBatchIsExact
  BY DEF Init, ExactCounts, SettledBatchIsExact
<1>2. TypeOK /\ LeaseInv /\ ExactCounts /\ SettledBatchIsExact /\ [Next]_vars
        => SettledBatchIsExact'
  BY SettledBatchStep
<1>3. SettledBatchIsExact => SettledBatchIsClosed
  <2>. SUFFICES ASSUME SettledBatchIsExact, NEW b \in Batches, batchStatus[b] # "ABSENT",
                       \A j \in JobsOf(b) : jobStatus[j] \in Settled
                PROVE  batchStatus[b] \in BatchClosed
    BY DEF SettledBatchIsClosed
  <2>1. batchStatus[b] = Verdict(b, Standing(b))
    BY DEF SettledBatchIsExact
  <2>2. Standing(b)["active"] = {}
    BY DEF Standing, Selected, Queries, Settled, Active, Waiting
  <2>. QED
    BY <2>1, <2>2 DEF Verdict, BatchClosed, Settled
<1>. QED
  BY <1>1, <1>2, <1>3, ExactCountsStep, TypeCorrect, LeaseInvariant, PTL DEF Spec

==============================================================================
