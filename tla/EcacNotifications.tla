-------------------------- MODULE EcacNotifications --------------------------
(***************************************************************************)
(* The outbox of alert notifications: workers claim pending events, hand   *)
(* them to the delivery gateway and mark what came of it, while users mark *)
(* events as delivered or put failed ones back into the queue.             *)
(*                                                                         *)
(* A claim is one UPDATE ... SKIP LOCKED.  Every other change reads the    *)
(* event in one statement and updates it by id in a later transaction: no  *)
(* token ties the update to the claim or to what was read.  Time is        *)
(* abstract: due[e] says that scheduledAt of a PENDING event has passed,   *)
(* or that a PROCESSING one has gone stale.                                *)
(***************************************************************************)
EXTENDS Integers, FiniteSets

CONSTANTS
  Events,           \* events queued by reconciliations (see EcacAlerts)
  Channel,          \* Channel[e]: "IN_APP" or "EMAIL"
  Workers,          \* notification workers
  Requests,         \* requests of users on their events
  ClaimLimit,       \* events claimed per cycle
  MaxAttempts,      \* maxAttempts of every event
  MaxDisturbances,  \* bound of the model on crashes, failed marks and
                    \* workers that outlive the processing TTL
  MaxRequests,      \* bound of the model on requests of users
  NoEvent           \* "no event"

ASSUME NotificationsAssumption ==
  /\ IsFiniteSet(Events)
  /\ IsFiniteSet(Workers)
  /\ Channel \in [Events -> {"IN_APP", "EMAIL"}]
  /\ ClaimLimit \in 1 .. 100
  /\ MaxAttempts \in Nat \ {0}
  /\ MaxDisturbances \in Nat
  /\ MaxRequests \in Nat
  /\ NoEvent \notin Events

VARIABLES
  \* rows of ecac_alert_notification_events
  status,        \* EcacNotificationEventStatus
  attemptCount,
  due,
  \* workers
  pc,            \* what the worker is doing
  work,          \* claimed events it has not finished with
  attempt,       \* attempt[w][e]: the attemptCount e was claimed with
  current,       \* the event being delivered or marked
  \* requests of users
  asked,         \* asked[r]: the change a request has found admissible
  \* history
  sends,         \* sends[e]: times the gateway handed e over
  refused,       \* events a delivery was refused for good
  confirmed,     \* events a user marked as delivered
  retries,       \* retries[e]: times users put e back
  slips,         \* slips[e]: claims of e that went stale, and marks of e
                 \* that committed and were made again
  requests,      \* requests so far
  disturbances   \* disturbances so far

rowVars == <<status, attemptCount, due>>
workerVars == <<pc, work, attempt, current>>
historyVars == <<sends, refused, confirmed, retries, slips>>
vars == <<rowVars, workerVars, asked, historyVars, requests, disturbances>>

Results == {"delivered", "failed", "refused"}
Steps == {"idle", "working", "confirming", "recovering"} \union Results
NoRequest == [kind |-> "none", event |-> NoEvent]

TypeOK ==
  /\ status \in [Events -> {"PENDING", "PROCESSING", "DELIVERED", "FAILED"}]
  /\ attemptCount \in [Events -> Nat]
  /\ due \in [Events -> BOOLEAN]
  /\ pc \in [Workers -> Steps]
  /\ work \in [Workers -> SUBSET Events]
  /\ attempt \in [Workers -> [Events -> Nat]]
  /\ current \in [Workers -> Events \union {NoEvent}]
  /\ asked \in [Requests -> [kind : {"none", "deliver", "retry"}, event : Events \union {NoEvent}]]
  /\ sends \in [Events -> Nat]
  /\ refused \in SUBSET Events
  /\ confirmed \in SUBSET Events
  /\ retries \in [Events -> Nat]
  /\ slips \in [Events -> Nat]
  /\ requests \in Nat
  /\ disturbances \in Nat

Zero == [e \in Events |-> 0]

Init ==
  /\ status = [e \in Events |-> "PENDING"]
  /\ attemptCount = Zero
  /\ due = [e \in Events |-> TRUE]
  /\ pc = [w \in Workers |-> "idle"]
  /\ work = [w \in Workers |-> {}]
  /\ attempt = [w \in Workers |-> Zero]
  /\ current = [w \in Workers |-> NoEvent]
  /\ asked = [r \in Requests |-> NoRequest]
  /\ sends = Zero
  /\ refused = {}
  /\ confirmed = {}
  /\ retries = Zero
  /\ slips = Zero
  /\ requests = 0
  /\ disturbances = 0

Disturb ==
  /\ disturbances < MaxDisturbances
  /\ disturbances' = disturbances + 1

------------------------------------------------------------------------------
Claimable_PendingOnly(e) == status[e] = "PENDING" /\ due[e]

Claimable(e) == status[e] \in {"PENDING", "PROCESSING"} /\ due[e]

(***************************************************************************)
(* One UPDATE claims up to ClaimLimit events; SKIP LOCKED keeps two claims *)
(* apart.  maxAttempts is not part of its condition.                       *)
(***************************************************************************)
ClaimPendingEvents(w) ==
  LET pending == {e \in Events : Claimable(e)}
  IN  /\ pc[w] = "idle"
      /\ \E found \in SUBSET pending :
           /\ found # {}
           /\ Cardinality(found) <= ClaimLimit
           /\ found # pending => Cardinality(found) = ClaimLimit
           /\ status' = [e \in Events |-> IF e \in found THEN "PROCESSING" ELSE status[e]]
           /\ attemptCount' =
                [e \in Events |-> IF e \in found THEN attemptCount[e] + 1 ELSE attemptCount[e]]
           /\ due' = [e \in Events |-> due[e] /\ e \notin found]
           /\ work' = [work EXCEPT ![w] = found]
           /\ attempt' = [attempt EXCEPT ![w] =
                [e \in Events |-> IF e \in found THEN attemptCount[e] + 1 ELSE 0]]
      /\ pc' = [pc EXCEPT ![w] = "working"]
      /\ UNCHANGED <<current, asked, historyVars, requests, disturbances>>

(***************************************************************************)
(* What the gateway may answer, and whether the message went out: a call   *)
(* that timed out may have been accepted.                                  *)
(***************************************************************************)
Answers_Optimistic(e) == {[result |-> "delivered", sent |-> s] : s \in {0, 1}}

Answers(e) ==
  {[result |-> "delivered", sent |-> 1]} \union
  IF Channel[e] = "IN_APP" THEN {}
  ELSE {[result |-> "refused", sent |-> 0],
        [result |-> "failed", sent |-> 0], [result |-> "failed", sent |-> 1]}

Deliver(w, e) ==
  /\ pc[w] = "working"
  /\ e \in work[w]
  /\ \E answer \in Answers(e) :
       /\ pc' = [pc EXCEPT ![w] = answer.result]
       /\ sends' = [sends EXCEPT ![e] = @ + answer.sent]
       /\ refused' = IF answer.result = "refused" THEN refused \union {e} ELSE refused
  /\ current' = [current EXCEPT ![w] = e]
  /\ UNCHANGED <<rowVars, work, attempt, asked, confirmed, retries, slips,
                 requests, disturbances>>

(***************************************************************************)
(* The worker is done with its current event.                              *)
(***************************************************************************)
NextEvent(w) ==
  /\ pc' = [pc EXCEPT ![w] = "working"]
  /\ work' = [work EXCEPT ![w] = @ \ {current[w]}]
  /\ current' = [current EXCEPT ![w] = NoEvent]

(***************************************************************************)
(* markEventDeliveredByWorker reads the event and returns it if it is      *)
(* DELIVERED already; otherwise it updates it.                             *)
(***************************************************************************)
ReadBeforeMark(w) ==
  /\ pc[w] = "delivered"
  /\ \/ /\ status[current[w]] = "DELIVERED"
        /\ NextEvent(w)
     \/ /\ status[current[w]] # "DELIVERED"
        /\ pc' = [pc EXCEPT ![w] = "confirming"]
        /\ UNCHANGED <<work, current>>
  /\ UNCHANGED <<rowVars, attempt, asked, historyVars, requests, disturbances>>

(***************************************************************************)
(* The update a worker's mark makes: by id, whatever the status is now.    *)
(* After a failure the event is tried again while the attempt it was       *)
(* claimed with is below maxAttempts, unless the gateway ruled it out.     *)
(***************************************************************************)
Retriable_IgnoresAttempts(w) == pc[w] # "refused"

Retriable(w) == pc[w] # "refused" /\ attempt[w][current[w]] < MaxAttempts

MarkOf_JobStatus(w) ==
  CASE pc[w] = "confirming" -> "DELIVERED"
    [] pc[w] # "confirming" /\ Retriable(w) -> "RETRY_SCHEDULED"
    [] OTHER -> "FAILED"

MarkOf(w) ==
  CASE pc[w] = "confirming" -> "DELIVERED"
    [] pc[w] # "confirming" /\ Retriable(w) -> "PENDING"
    [] OTHER -> "FAILED"

WriteMark(w) ==
  /\ pc[w] \in {"confirming", "failed", "refused", "recovering"}
  /\ status' = [status EXCEPT ![current[w]] = MarkOf(w)]
  /\ due' = [due EXCEPT ![current[w]] = FALSE]
  /\ UNCHANGED <<attemptCount, attempt, asked, sends, refused, confirmed, retries, requests>>

Mark(w) ==
  /\ WriteMark(w)
  /\ NextEvent(w)
  /\ UNCHANGED <<slips, disturbances>>

(***************************************************************************)
(* The mark throws, with or without having committed: the catch block      *)
(* marks the event as failed.  A mark that throws in the catch block ends  *)
(* the cycle, which AbandonCycle covers.                                   *)
(***************************************************************************)
MarkThrows(w) ==
  /\ pc[w] \in {"delivered", "confirming", "failed", "refused"}
  /\ Disturb
  /\ \/ /\ WriteMark(w)
        /\ slips' = [slips EXCEPT ![current[w]] = @ + 1]
     \/ UNCHANGED <<rowVars, attempt, asked, historyVars, requests>>
  /\ pc' = [pc EXCEPT ![w] = "recovering"]
  /\ UNCHANGED <<work, current>>

FinishCycle(w) ==
  /\ pc[w] = "working"
  /\ work[w] = {}
  /\ pc' = [pc EXCEPT ![w] = "idle"]
  /\ UNCHANGED <<rowVars, work, attempt, current, asked, historyVars, requests, disturbances>>

AbandonCycle(w) ==
  /\ pc[w] # "idle"
  /\ Disturb
  /\ pc' = [pc EXCEPT ![w] = "idle"]
  /\ work' = [work EXCEPT ![w] = {}]
  /\ current' = [current EXCEPT ![w] = NoEvent]
  /\ UNCHANGED <<rowVars, attempt, asked, historyVars, requests>>

------------------------------------------------------------------------------
(***************************************************************************)
(* A user's request reads the event, refuses or returns at once when the   *)
(* change is not admissible, and updates the event by id otherwise.        *)
(***************************************************************************)
Admissible(kind, e) ==
  \/ kind = "deliver" /\ status[e] # "DELIVERED"
  \/ kind = "retry" /\ status[e] = "FAILED"

ReadForUser(r, kind, e) ==
  /\ asked[r] = NoRequest
  /\ requests < MaxRequests
  /\ Admissible(kind, e)
  /\ requests' = requests + 1
  /\ asked' = [asked EXCEPT ![r] = [kind |-> kind, event |-> e]]
  /\ UNCHANGED <<rowVars, workerVars, historyVars, disturbances>>

MarkEventDelivered(r) ==
  LET e == asked[r].event
  IN  /\ asked[r].kind = "deliver"
      /\ status' = [status EXCEPT ![e] = "DELIVERED"]
      /\ due' = [due EXCEPT ![e] = FALSE]
      /\ confirmed' = confirmed \union {e}
      /\ asked' = [asked EXCEPT ![r] = NoRequest]
      /\ UNCHANGED <<attemptCount, workerVars, sends, refused, retries, slips,
                     requests, disturbances>>

RetryFailedEvent(r) ==
  LET e == asked[r].event
  IN  /\ asked[r].kind = "retry"
      /\ status' = [status EXCEPT ![e] = "PENDING"]
      /\ due' = [due EXCEPT ![e] = TRUE]
      /\ retries' = [retries EXCEPT ![e] = @ + 1]
      /\ asked' = [asked EXCEPT ![r] = NoRequest]
      /\ UNCHANGED <<attemptCount, workerVars, sends, refused, confirmed, slips,
                     requests, disturbances>>

------------------------------------------------------------------------------
(***************************************************************************)
(* Time passes: a scheduled retry comes due, and a claim goes stale when   *)
(* its worker is gone, or when the worker is merely slow.                  *)
(***************************************************************************)
HeldByWorker(e) == \E w \in Workers : e \in work[w]

RetryComesDue(e) ==
  /\ status[e] = "PENDING"
  /\ ~due[e]
  /\ due' = [due EXCEPT ![e] = TRUE]
  /\ UNCHANGED <<status, attemptCount, workerVars, asked, historyVars, requests, disturbances>>

ClaimGoesStale(e) ==
  /\ status[e] = "PROCESSING"
  /\ ~due[e]
  /\ due' = [due EXCEPT ![e] = TRUE]
  /\ slips' = [slips EXCEPT ![e] = @ + 1]
  /\ UNCHANGED <<status, attemptCount, workerVars, asked, sends, refused, confirmed,
                 retries, requests>>

AbandonedClaimGoesStale(e) ==
  /\ ~HeldByWorker(e)
  /\ ClaimGoesStale(e)
  /\ UNCHANGED disturbances

HeldClaimGoesStale(e) ==
  /\ HeldByWorker(e)
  /\ Disturb
  /\ ClaimGoesStale(e)

------------------------------------------------------------------------------
(***************************************************************************)
(* The steps a running worker takes by itself.                             *)
(***************************************************************************)
Work(w) ==
  \/ ClaimPendingEvents(w)
  \/ \E e \in Events : Deliver(w, e)
  \/ ReadBeforeMark(w)
  \/ Mark(w)
  \/ FinishCycle(w)

Next ==
  \/ \E w \in Workers :
       \/ Work(w)
       \/ MarkThrows(w)
       \/ AbandonCycle(w)
  \/ \E r \in Requests :
       \/ \E kind \in {"deliver", "retry"}, e \in Events : ReadForUser(r, kind, e)
       \/ MarkEventDelivered(r)
       \/ RetryFailedEvent(r)
  \/ \E e \in Events :
       \/ RetryComesDue(e)
       \/ AbandonedClaimGoesStale(e)
       \/ HeldClaimGoesStale(e)

Spec == Init /\ [][Next]_vars

(***************************************************************************)
(* The worker loops for ever, the transport has a time-out, a request that *)
(* was read is carried out, and time passes.                               *)
(***************************************************************************)
Fairness ==
  /\ \A w \in Workers : WF_vars(Work(w))
  /\ \A r \in Requests : WF_vars(MarkEventDelivered(r)) /\ WF_vars(RetryFailedEvent(r))
  /\ \A e \in Events : WF_vars(RetryComesDue(e)) /\ WF_vars(AbandonedClaimGoesStale(e))

FairSpec == Spec /\ Fairness

------------------------------------------------------------------------------
(* Properties *)

(***************************************************************************)
(* An end is earned: DELIVERED only after the gateway handed the event     *)
(* over or a user said so; FAILED only after a refusal for good or with    *)
(* the attempts used up.  Late marks of workers that lost their claim      *)
(* included.                                                               *)
(***************************************************************************)
EndsAreEarned ==
  \A e \in Events :
    /\ status[e] = "DELIVERED" => sends[e] > 0 \/ e \in confirmed
    /\ status[e] = "FAILED" => e \in refused \/ attemptCount[e] >= MaxAttempts

(***************************************************************************)
(* Delivery is at least once, and bounded: a message goes out at most once *)
(* per claim, and an event is claimed at most maxAttempts times, plus once *)
(* per retry of a user, claim gone stale or mark made again; the late      *)
(* marks of workers that lost their claim, which put the event back into   *)
(* the queue once more, are within the attempts they were claimed with.    *)
(***************************************************************************)
DeliveriesBounded ==
  \A e \in Events :
    /\ sends[e] <= attemptCount[e]
    /\ attemptCount[e] <= MaxAttempts + retries[e] + slips[e]

(***************************************************************************)
(* Every pending event ends.                                               *)
(***************************************************************************)
EveryEventEnds ==
  \A e \in Events : (status[e] = "PENDING") ~> (status[e] \in {"DELIVERED", "FAILED"})

------------------------------------------------------------------------------
(* What the proofs need besides *)

(***************************************************************************)
(* A worker delivers and marks an event it has claimed and not finished    *)
(* with, and knows what the delivery came to; a request names an event.    *)
(***************************************************************************)
WorkInv ==
  /\ \A w \in Workers :
       /\ pc[w] = "idle" => work[w] = {}
       /\ IF pc[w] \in {"idle", "working"} THEN current[w] = NoEvent ELSE current[w] \in work[w]
       /\ \A e \in work[w] : attempt[w][e] <= attemptCount[e]
       /\ pc[w] \in {"delivered", "confirming"} => sends[current[w]] > 0
       /\ pc[w] = "refused" => current[w] \in refused
  /\ \A r \in Requests : asked[r].kind # "none" => asked[r].event \in Events

(***************************************************************************)
(* Each claim not yet delivered leaves room for its one message.           *)
(***************************************************************************)
Undelivered(e) == {w \in Workers : e \in work[w] /\ current[w] # e}

SendInv == \A e \in Events : sends[e] + Cardinality(Undelivered(e)) <= attemptCount[e]

(***************************************************************************)
(* Each claim takes up what made the event claimable: its creation, a      *)
(* retry, a claim gone stale, or the mark of one of the attempts below     *)
(* maxAttempts, which are with a worker or still to come.                  *)
(***************************************************************************)
AtHand(e) == IF status[e] = "PENDING" \/ (status[e] = "PROCESSING" /\ due[e]) THEN 1 ELSE 0

Rescheduling(e) == {w \in Workers : e \in work[w] /\ attempt[w][e] < MaxAttempts}

ToCome(e) == IF attemptCount[e] < MaxAttempts THEN MaxAttempts - 1 - attemptCount[e] ELSE 0

ClaimInv ==
  \A e \in Events :
    attemptCount[e] + AtHand(e) + Cardinality(Rescheduling(e)) + ToCome(e)
      <= MaxAttempts + retries[e] + slips[e]
==============================================================================
