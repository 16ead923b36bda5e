----------------------------- MODULE SyncPromise -----------------------------
(***************************************************************************)
(* What the sync queue promises to whoever asked for a batch, without      *)
(* leases, retries, processors or transactions: every job is settled at    *)
(* most once, a batch receives its verdict only in a step that settles one *)
(* of its jobs and leaves none pending (it may also stay open), a verdict  *)
(* is final, and a unanimous verdict (SUCCEEDED, FAILED) is only given to  *)
(* a unanimous batch.  EcacQueue implements it.                            *)
(***************************************************************************)
CONSTANTS
  Jobs,      \* every sync job that may ever be requested
  Batches,   \* every batch that may ever be requested
  BatchOf    \* the batch each job belongs to

VARIABLES
  outcome,   \* outcome[j]: "pending" until the job is settled
  verdict    \* verdict[b]: "open" until the batch is closed

promiseVars == <<outcome, verdict>>

Outcomes == {"SUCCEEDED", "FAILED"}
Verdicts == Outcomes \union {"PARTIAL"}

Init ==
  /\ outcome = [j \in Jobs |-> "pending"]
  /\ verdict = [b \in Batches |-> "open"]

(***************************************************************************)
(* A batch may be closed with v when no job of it is pending.              *)
(***************************************************************************)
MayClose(b, v, result) ==
  /\ \A j \in Jobs : BatchOf[j] = b => result[j] # "pending"
  /\ v \in Outcomes => \A j \in Jobs : BatchOf[j] = b => result[j] = v

(***************************************************************************)
(* Settle one pending job; leave its batch open, or close it if it can be. *)
(***************************************************************************)
Settle(j, o) ==
  /\ outcome[j] = "pending"
  /\ verdict[BatchOf[j]] = "open"
  /\ outcome' = [outcome EXCEPT ![j] = o]
  /\ \/ verdict' = verdict
     \/ \E v \in Verdicts :
          /\ MayClose(BatchOf[j], v, outcome')
          /\ verdict' = [verdict EXCEPT ![BatchOf[j]] = v]

Next == \E j \in Jobs, o \in Outcomes : Settle(j, o)

Spec == Init /\ [][Next]_promiseVars

==============================================================================
