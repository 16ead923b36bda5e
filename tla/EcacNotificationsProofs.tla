----------------------- MODULE EcacNotificationsProofs -----------------------
(***************************************************************************)
(* Proofs about EcacNotifications, for any events, workers and requests.   *)
(***************************************************************************)
EXTENDS EcacNotifications, FiniteSetTheorems, TLAPS

LEMMA MarkTyping ==
  ASSUME NEW w \in Workers
  PROVE  MarkOf(w) \in {"PENDING", "DELIVERED", "FAILED"}
  BY DEF MarkOf

(***************************************************************************)
(* The variables have their types in every reachable state, and workers    *)
(* handle what they have claimed.  The two need each other: what a worker  *)
(* marks is an event because it is one of its claims.                      *)
(***************************************************************************)
LEMMA WorkInvariant == Spec => [](TypeOK /\ WorkInv)
<1>. USE NotificationsAssumption
<1>1. Init => TypeOK /\ WorkInv
  BY DEF Init, TypeOK, WorkInv, Zero, Steps, Results, NoRequest
<1>2. TypeOK /\ WorkInv /\ [Next]_vars => (TypeOK /\ WorkInv)'
  <2>. SUFFICES ASSUME TypeOK, WorkInv, [Next]_vars
                PROVE  TypeOK' /\ WorkInv'
    OBVIOUS
  <2>. USE DEF rowVars, workerVars, historyVars, Steps, Results
  <2>1. \A w \in Workers : pc[w] \notin {"idle", "working"} => current[w] \in work[w] /\ current[w] \in Events
    BY DEF TypeOK, WorkInv
  <2>2. ASSUME NEW w \in Workers, ClaimPendingEvents(w)
        PROVE  TypeOK' /\ WorkInv'
    <3>1. PICK found \in SUBSET Events :
            /\ status' = [e \in Events |-> IF e \in found THEN "PROCESSING" ELSE status[e]]
            /\ attemptCount' = [e \in Events |-> IF e \in found THEN attemptCount[e] + 1 ELSE attemptCount[e]]
            /\ due' = [e \in Events |-> due[e] /\ e \notin found]
            /\ work' = [work EXCEPT ![w] = found]
            /\ attempt' = [attempt EXCEPT ![w] = [e \in Events |-> IF e \in found THEN attemptCount[e] + 1 ELSE 0]]
      BY <2>2 DEF ClaimPendingEvents
    <3>2. pc[w] = "idle" /\ pc' = [pc EXCEPT ![w] = "working"]
          /\ UNCHANGED <<current, asked, historyVars, requests, disturbances>>
      BY <2>2 DEF ClaimPendingEvents
    <3>3. TypeOK'
      BY <3>1, <3>2 DEF TypeOK
    <3>4. \A v \in Workers : v # w => UNCHANGED <<pc[v], work[v], attempt[v], current[v]>>
      BY <3>1, <3>2 DEF TypeOK
    <3>5. \A e \in Events : attemptCount'[e] >= attemptCount[e] /\ attemptCount[e] \in Nat /\ attemptCount'[e] \in Nat
      BY <3>1 DEF TypeOK
    <3>6. /\ pc'[w] = "working" /\ current'[w] = NoEvent
          /\ \A e \in work'[w] : attempt'[w][e] <= attemptCount'[e]
      BY <3>1, <3>2, <3>5 DEF TypeOK, WorkInv
    <3>7. ASSUME NEW v \in Workers, v # w
          PROVE  \A e \in work'[v] : attempt'[v][e] <= attemptCount'[e]
      <4>1. \A e \in work[v] : e \in Events /\ attempt[v][e] \in Nat
        BY DEF TypeOK
      <4>. QED
        BY <3>4, <3>5, <3>7, <4>1 DEF WorkInv
    <3>8. WorkInv'
      BY <3>2, <3>4, <3>6, <3>7 DEF WorkInv
    <3>. QED
      BY <3>3, <3>8
  <2>3. ASSUME NEW w \in Workers, NEW e \in Events, Deliver(w, e)
        PROVE  TypeOK' /\ WorkInv'
    <3>1. PICK answer \in Answers(e) :
            /\ pc' = [pc EXCEPT ![w] = answer.result]
            /\ sends' = [sends EXCEPT ![e] = @ + answer.sent]
            /\ refused' = IF answer.result = "refused" THEN refused \union {e} ELSE refused
      BY <2>3 DEF Deliver
    <3>2. /\ answer.result \in Results /\ answer.sent \in {0, 1}
          /\ answer.result = "delivered" => answer.sent = 1
      BY <3>1 DEF Answers
    <3>3. /\ pc[w] = "working" /\ e \in work[w]
          /\ current' = [current EXCEPT ![w] = e]
          /\ UNCHANGED <<rowVars, work, attempt, asked, confirmed, retries, slips, requests, disturbances>>
      BY <2>3 DEF Deliver
    <3>4. TypeOK'
      BY <3>1, <3>2, <3>3 DEF TypeOK
    <3>5. \A v \in Workers : v # w => UNCHANGED <<pc[v], current[v]>>
      BY <3>1, <3>3 DEF TypeOK
    <3>6. \A d \in Events : sends'[d] >= sends[d] /\ sends[d] \in Nat /\ sends'[d] \in Nat
      BY <3>1, <3>2 DEF TypeOK
    <3>7. pc'[w] = answer.result /\ current'[w] = e
      BY <3>1, <3>3 DEF TypeOK
    <3>8. answer.result = "delivered" => sends'[e] > 0
      BY <3>1, <3>2 DEF TypeOK
    <3>9. answer.result = "refused" => e \in refused'
      BY <3>1
    <3>10. ASSUME NEW v \in Workers, v # w, pc[v] \in {"delivered", "confirming"}
           PROVE  sends'[current[v]] > 0
      BY <2>1, <3>6, <3>10 DEF WorkInv
    <3>11. refused \subseteq refused'
      BY <3>1
    <3>12. WorkInv'
      BY <3>2, <3>3, <3>5, <3>7, <3>8, <3>9, <3>10, <3>11 DEF WorkInv
    <3>. QED
      BY <3>4, <3>12
  <2>4. ASSUME NEW w \in Workers, ReadBeforeMark(w)
        PROVE  TypeOK' /\ WorkInv'
    <3>1. UNCHANGED <<rowVars, attempt, asked, historyVars, requests, disturbances>> /\ pc[w] = "delivered"
      BY <2>4 DEF ReadBeforeMark
    <3>2. CASE NextEvent(w)
      <4>1. TypeOK'
        BY <3>1, <3>2 DEF NextEvent, TypeOK
      <4>2. WorkInv'
        BY <3>1, <3>2 DEF NextEvent, TypeOK, WorkInv
      <4>. QED
        BY <4>1, <4>2
    <3>3. CASE pc' = [pc EXCEPT ![w] = "confirming"] /\ UNCHANGED <<work, current>>
      <4>1. TypeOK'
        BY <3>1, <3>3 DEF TypeOK
      <4>2. WorkInv'
        BY <3>1, <3>3 DEF TypeOK, WorkInv
      <4>. QED
        BY <4>1, <4>2
    <3>. QED
      BY <2>4, <3>2, <3>3 DEF ReadBeforeMark
  <2>5. ASSUME NEW w \in Workers, WriteMark(w)
        PROVE  /\ status' \in [Events -> {"PENDING", "PROCESSING", "DELIVERED", "FAILED"}]
               /\ due' \in [Events -> BOOLEAN]
               /\ UNCHANGED <<attemptCount, attempt, asked, sends, refused, confirmed, retries, requests>>
    BY <2>1, <2>5, MarkTyping DEF WriteMark, TypeOK
  <2>6. ASSUME NEW w \in Workers, Mark(w)
        PROVE  TypeOK' /\ WorkInv'
    <3>1. WriteMark(w) /\ NextEvent(w) /\ UNCHANGED <<slips, disturbances>>
      BY <2>6 DEF Mark
    <3>2. TypeOK'
      BY <2>5, <3>1 DEF NextEvent, TypeOK
    <3>3. WorkInv'
      BY <2>5, <3>1 DEF NextEvent, TypeOK, WorkInv
    <3>. QED
      BY <3>2, <3>3
  <2>7. ASSUME NEW w \in Workers, MarkThrows(w)
        PROVE  TypeOK' /\ WorkInv'
    <3>1. /\ pc[w] \in {"delivered", "confirming", "failed", "refused"}
          /\ pc' = [pc EXCEPT ![w] = "recovering"]
          /\ UNCHANGED <<work, current>>
          /\ disturbances' = disturbances + 1
      BY <2>7 DEF MarkThrows, Disturb
    <3>2. /\ status' \in [Events -> {"PENDING", "PROCESSING", "DELIVERED", "FAILED"}]
          /\ due' \in [Events -> BOOLEAN]
          /\ slips' \in [Events -> Nat]
          /\ UNCHANGED <<attemptCount, attempt, asked, sends, refused, confirmed, retries, requests>>
      <4>1. CASE WriteMark(w) /\ slips' = [slips EXCEPT ![current[w]] = @ + 1]
        BY <2>1, <2>5, <3>1, <4>1 DEF TypeOK
      <4>2. CASE UNCHANGED <<rowVars, attempt, asked, historyVars, requests>>
        BY <4>2 DEF TypeOK
      <4>. QED
        BY <2>7, <4>1, <4>2 DEF MarkThrows
    <3>3. TypeOK'
      BY <3>1, <3>2 DEF TypeOK
    <3>4. WorkInv'
      BY <3>1, <3>2 DEF TypeOK, WorkInv
    <3>. QED
      BY <3>3, <3>4
  <2>8. ASSUME NEW w \in Workers, FinishCycle(w)
        PROVE  TypeOK' /\ WorkInv'
    BY <2>8 DEF FinishCycle, TypeOK, WorkInv
  <2>9. ASSUME NEW w \in Workers, AbandonCycle(w)
        PROVE  TypeOK' /\ WorkInv'
    BY <2>9 DEF AbandonCycle, Disturb, TypeOK, WorkInv
  <2>10. ASSUME NEW r \in Requests, NEW kind \in {"deliver", "retry"}, NEW e \in Events, ReadForUser(r, kind, e)
         PROVE  TypeOK' /\ WorkInv'
    <3>1. TypeOK'
      BY <2>10 DEF ReadForUser, TypeOK
    <3>2. WorkInv'
      BY <2>10 DEF ReadForUser, TypeOK, WorkInv
    <3>. QED
      BY <3>1, <3>2
  <2>11. ASSUME NEW r \in Requests, MarkEventDelivered(r) \/ RetryFailedEvent(r)
         PROVE  TypeOK' /\ WorkInv'
    <3>1. asked[r].event \in Events
      BY <2>11 DEF MarkEventDelivered, RetryFailedEvent, WorkInv
    <3>2. /\ asked' = [asked EXCEPT ![r] = NoRequest]
          /\ UNCHANGED <<attemptCount, workerVars, sends, refused, slips, requests, disturbances>>
      BY <2>11 DEF MarkEventDelivered, RetryFailedEvent
    <3>3. /\ status' \in [Events -> {"PENDING", "PROCESSING", "DELIVERED", "FAILED"}]
          /\ due' \in [Events -> BOOLEAN]
          /\ confirmed' \in SUBSET Events
          /\ retries' \in [Events -> Nat]
      <4>1. CASE MarkEventDelivered(r)
        BY <4>1, <3>1 DEF MarkEventDelivered, TypeOK
      <4>2. CASE RetryFailedEvent(r)
        BY <4>2, <3>1 DEF RetryFailedEvent, TypeOK
      <4>. QED
        BY <2>11, <4>1, <4>2
    <3>4. TypeOK'
      BY <3>2, <3>3 DEF TypeOK, NoRequest
    <3>5. WorkInv'
      BY <3>2 DEF TypeOK, WorkInv, NoRequest
    <3>. QED
      BY <3>4, <3>5
  <2>12. ASSUME NEW e \in Events, RetryComesDue(e) \/ AbandonedClaimGoesStale(e) \/ HeldClaimGoesStale(e)
         PROVE  TypeOK' /\ WorkInv'
    <3>1. UNCHANGED <<status, attemptCount, workerVars, asked, sends, refused, confirmed, retries, requests>>
          /\ due' = [due EXCEPT ![e] = TRUE]
      BY <2>12 DEF RetryComesDue, AbandonedClaimGoesStale, HeldClaimGoesStale, ClaimGoesStale
    <3>2. disturbances' \in Nat /\ slips' \in [Events -> Nat]
      <4>1. CASE RetryComesDue(e)
        BY <4>1 DEF RetryComesDue, TypeOK
      <4>2. CASE AbandonedClaimGoesStale(e)
        BY <4>2 DEF AbandonedClaimGoesStale, ClaimGoesStale, TypeOK
      <4>3. CASE HeldClaimGoesStale(e)
        BY <4>3 DEF HeldClaimGoesStale, ClaimGoesStale, Disturb, TypeOK
      <4>. QED
        BY <2>12, <4>1, <4>2, <4>3
    <3>3. TypeOK'
      BY <3>1, <3>2 DEF TypeOK
    <3>4. WorkInv'
      BY <3>1 DEF TypeOK, WorkInv
    <3>. QED
      BY <3>3, <3>4
  <2>13. CASE UNCHANGED vars
    BY <2>13 DEF vars, TypeOK, WorkInv
  <2>. QED
    BY <2>2, <2>3, <2>4, <2>6, <2>7, <2>8, <2>9, <2>10, <2>11, <2>12, <2>13 DEF Next, Work
<1>. QED
  BY <1>1, <1>2, PTL DEF Spec

(***************************************************************************)
(* The variables have their types in every reachable state.                *)
(***************************************************************************)
THEOREM NotificationsTypeCorrect == Spec => []TypeOK
  BY WorkInvariant, PTL

(***************************************************************************)
(* The update of a mark is earned: the worker that makes it knows of a     *)
(* delivery, of a refusal, or that its attempt was the last.               *)
(***************************************************************************)
LEMMA MarkIsEarned ==
  ASSUME TypeOK, WorkInv, NEW w \in Workers, WriteMark(w)
  PROVE  /\ current[w] \in Events
         /\ MarkOf(w) = "DELIVERED" => sends[current[w]] > 0
         /\ MarkOf(w) = "FAILED" => current[w] \in refused \/ attemptCount[current[w]] >= MaxAttempts
<1>1. pc[w] \in {"confirming", "failed", "refused", "recovering"}
  BY DEF WriteMark
<1>2. current[w] \in work[w] /\ current[w] \in Events
  BY <1>1 DEF TypeOK, WorkInv
<1>3. MarkOf(w) = "DELIVERED" => pc[w] = "confirming"
  BY DEF MarkOf
<1>4. MarkOf(w) = "FAILED" => ~Retriable(w)
  BY DEF MarkOf
<1>5. attempt[w][current[w]] <= attemptCount[current[w]]
  BY <1>2 DEF WorkInv
<1>6. attempt[w][current[w]] \in Nat /\ attemptCount[current[w]] \in Nat /\ MaxAttempts \in Nat
  BY <1>2, NotificationsAssumption DEF TypeOK
<1>7. ~Retriable(w) => pc[w] = "refused" \/ attemptCount[current[w]] >= MaxAttempts
  BY <1>5, <1>6 DEF Retriable
<1>. QED
  BY <1>2, <1>3, <1>4, <1>7 DEF WorkInv

(***************************************************************************)
(* DELIVERED and FAILED are never given without a reason, not even by a    *)
(* worker whose claim has gone stale.                                      *)
(***************************************************************************)
THEOREM EndsEarned == Spec => []EndsAreEarned
<1>. USE NotificationsAssumption
<1>1. Init => EndsAreEarned
  BY DEF Init, EndsAreEarned
<1>2. TypeOK /\ WorkInv /\ EndsAreEarned /\ [Next]_vars => EndsAreEarned'
  <2>. SUFFICES ASSUME TypeOK, WorkInv, EndsAreEarned, [Next]_vars
                PROVE  EndsAreEarned'
    OBVIOUS
  <2>. USE DEF rowVars, workerVars, historyVars
  <2>1. ASSUME NEW w \in Workers, ClaimPendingEvents(w)
        PROVE  EndsAreEarned'
    <3>1. PICK found \in SUBSET Events :
            /\ status' = [e \in Events |-> IF e \in found THEN "PROCESSING" ELSE status[e]]
            /\ attemptCount' = [e \in Events |-> IF e \in found THEN attemptCount[e] + 1 ELSE attemptCount[e]]
      BY <2>1 DEF ClaimPendingEvents
    <3>2. UNCHANGED <<sends, refused, confirmed>>
      BY <2>1 DEF ClaimPendingEvents
    <3>. QED
      BY <3>1, <3>2 DEF EndsAreEarned, TypeOK
  <2>2. ASSUME NEW w \in Workers, NEW e \in Events, Deliver(w, e)
        PROVE  EndsAreEarned'
    <3>1. PICK answer \in Answers(e) :
            /\ sends' = [sends EXCEPT ![e] = @ + answer.sent]
            /\ refused' = IF answer.result = "refused" THEN refused \union {e} ELSE refused
      BY <2>2 DEF Deliver
    <3>2. answer.sent \in {0, 1}
      BY <3>1 DEF Answers
    <3>3. \A d \in Events : sends[d] > 0 => sends'[d] > 0
      BY <3>1, <3>2 DEF TypeOK
    <3>4. refused \subseteq refused' /\ UNCHANGED <<status, attemptCount, confirmed>>
      BY <2>2, <3>1 DEF Deliver
    <3>. QED
      BY <3>3, <3>4 DEF EndsAreEarned
  <2>3. ASSUME NEW w \in Workers, WriteMark(w)
        PROVE  EndsAreEarned'
    <3>1. /\ status' = [status EXCEPT ![current[w]] = MarkOf(w)]
          /\ UNCHANGED <<attemptCount, sends, refused, confirmed>>
      BY <2>3 DEF WriteMark
    <3>2. ASSUME NEW d \in Events
          PROVE  /\ status'[d] = "DELIVERED" => sends'[d] > 0 \/ d \in confirmed'
                 /\ status'[d] = "FAILED" => d \in refused' \/ attemptCount'[d] >= MaxAttempts
      <4>1. CASE d = current[w]
        <5>1. status'[d] = MarkOf(w)
          BY <3>1, <4>1 DEF TypeOK
        <5>. QED
          BY <2>3, <3>1, <4>1, <5>1, MarkIsEarned
      <4>2. CASE d # current[w]
        <5>1. status'[d] = status[d]
          BY <3>1, <4>2 DEF TypeOK
        <5>. QED
          BY <3>1, <5>1 DEF EndsAreEarned
      <4>. QED
        BY <4>1, <4>2
    <3>. QED
      BY <3>2 DEF EndsAreEarned
  <2>4. ASSUME NEW w \in Workers, MarkThrows(w)
        PROVE  EndsAreEarned'
    <3>1. CASE WriteMark(w)
      BY <2>3, <3>1
    <3>2. CASE UNCHANGED <<rowVars, attempt, asked, historyVars, requests>>
      BY <3>2 DEF EndsAreEarned
    <3>. QED
      BY <2>4, <3>1, <3>2 DEF MarkThrows
  <2>5. ASSUME NEW r \in Requests, MarkEventDelivered(r)
        PROVE  EndsAreEarned'
    <3>1. PICK e : e = asked[r].event
      OBVIOUS
    <3>2. e \in Events
      BY <2>5, <3>1 DEF MarkEventDelivered, WorkInv
    <3>3. /\ status' = [status EXCEPT ![e] = "DELIVERED"]
          /\ confirmed' = confirmed \union {e}
          /\ UNCHANGED <<attemptCount, sends, refused>>
      BY <2>5, <3>1 DEF MarkEventDelivered
    <3>. QED
      BY <3>2, <3>3 DEF EndsAreEarned, TypeOK
  <2>6. ASSUME NEW r \in Requests, RetryFailedEvent(r)
        PROVE  EndsAreEarned'
    <3>1. PICK e : e = asked[r].event
      OBVIOUS
    <3>2. e \in Events
      BY <2>6, <3>1 DEF RetryFailedEvent, WorkInv
    <3>3. /\ status' = [status EXCEPT ![e] = "PENDING"]
          /\ UNCHANGED <<attemptCount, sends, refused, confirmed>>
      BY <2>6, <3>1 DEF RetryFailedEvent
    <3>. QED
      BY <3>2, <3>3 DEF EndsAreEarned, TypeOK
  <2>7. CASE UNCHANGED <<status, attemptCount, sends, refused, confirmed>>
    BY <2>7 DEF EndsAreEarned
  <2>. QED
    BY <2>1, <2>2, <2>3, <2>4, <2>5, <2>6, <2>7
       DEF Next, Work, ReadBeforeMark, Mark, FinishCycle, AbandonCycle, ReadForUser, RetryComesDue,
           AbandonedClaimGoesStale, HeldClaimGoesStale, ClaimGoesStale, vars
<1>. QED
  BY <1>1, <1>2, WorkInvariant, PTL DEF Spec

------------------------------------------------------------------------------
(* The bounds on messages and claims *)

LEMMA WorkersAreFinite ==
  ASSUME NEW S \in SUBSET Workers
  PROVE  IsFiniteSet(S) /\ Cardinality(S) \in Nat
BY NotificationsAssumption, FS_Subset, FS_CardinalityType

(***************************************************************************)
(* A claim leaves room for one message, and Deliver uses it up.            *)
(***************************************************************************)
LEMMA SendInvariant == Spec => []SendInv
<1>. USE NotificationsAssumption
<1>1. Init => SendInv
  <2>. SUFFICES ASSUME Init, NEW e \in Events
                PROVE  sends[e] + Cardinality(Undelivered(e)) <= attemptCount[e]
    BY DEF SendInv
  <2>1. Undelivered(e) = {}
    BY DEF Init, Undelivered
  <2>2. sends[e] = 0 /\ attemptCount[e] = 0
    BY DEF Init, Zero
  <2>. QED
    BY <2>1, <2>2, FS_EmptySet
<1>2. TypeOK /\ WorkInv /\ SendInv /\ [Next]_vars => SendInv'
  <2>. SUFFICES ASSUME TypeOK, WorkInv, SendInv, [Next]_vars, NEW e \in Events
                PROVE  sends'[e] + Cardinality(Undelivered(e)') <= attemptCount'[e]
    BY DEF SendInv
  <2>. USE DEF rowVars, workerVars, historyVars
  <2>. DEFINE Before == Undelivered(e)
              After == Undelivered(e)'
  <2>1. /\ Before \in SUBSET Workers /\ After \in SUBSET Workers
        /\ IsFiniteSet(Before) /\ Cardinality(Before) \in Nat
        /\ IsFiniteSet(After) /\ Cardinality(After) \in Nat
    <3>1. Before \in SUBSET Workers /\ After \in SUBSET Workers
      BY DEF Undelivered
    <3>. QED
      BY <3>1, WorkersAreFinite
  <2>2. /\ sends[e] \in Nat /\ attemptCount[e] \in Nat
        /\ sends[e] + Cardinality(Before) <= attemptCount[e]
    BY DEF TypeOK, SendInv
  <2>3. After \subseteq Before => Cardinality(After) <= Cardinality(Before)
    BY <2>1, FS_Subset
  <2>. HIDE DEF Before, After
  <2>4. ASSUME NEW w \in Workers, ClaimPendingEvents(w)
        PROVE  sends'[e] + Cardinality(After) <= attemptCount'[e]
    <3>1. PICK found \in SUBSET Events :
            /\ attemptCount' = [d \in Events |-> IF d \in found THEN attemptCount[d] + 1 ELSE attemptCount[d]]
            /\ work' = [work EXCEPT ![w] = found]
      BY <2>4 DEF ClaimPendingEvents
    <3>2. UNCHANGED <<sends, current>>
      BY <2>4 DEF ClaimPendingEvents
    <3>3. CASE e \in found
      <4>1. After \subseteq Before \union {w}
        BY <3>1, <3>2 DEF After, Before, Undelivered, TypeOK
      <4>2. IsFiniteSet(Before \union {w}) /\ Cardinality(Before \union {w}) <= Cardinality(Before) + 1
            /\ Cardinality(Before \union {w}) \in Nat
        <5>1. /\ IsFiniteSet(Before \union {w})
              /\ \/ Cardinality(Before \union {w}) = Cardinality(Before)
                 \/ Cardinality(Before \union {w}) = Cardinality(Before) + 1
          BY <2>1, FS_AddElement
        <5>. QED
          BY <2>1, <5>1
      <4>3. Cardinality(After) <= Cardinality(Before) + 1
        BY <2>1, <4>1, <4>2, FS_Subset
      <4>4. attemptCount'[e] = attemptCount[e] + 1 /\ sends'[e] = sends[e]
        BY <3>1, <3>2, <3>3
      <4>. QED
        BY <2>1, <2>2, <4>3, <4>4
    <3>4. CASE e \notin found
      <4>1. After \subseteq Before
        BY <3>1, <3>2, <3>4 DEF After, Before, Undelivered, TypeOK
      <4>2. attemptCount'[e] = attemptCount[e] /\ sends'[e] = sends[e]
        BY <3>1, <3>2, <3>4
      <4>. QED
        BY <2>1, <2>2, <2>3, <4>1, <4>2
    <3>. QED
      BY <3>3, <3>4
  <2>5. ASSUME NEW w \in Workers, NEW d \in Events, Deliver(w, d)
        PROVE  sends'[e] + Cardinality(After) <= attemptCount'[e]
    <3>1. PICK answer \in Answers(d) : sends' = [sends EXCEPT ![d] = @ + answer.sent]
      BY <2>5 DEF Deliver
    <3>2. answer.sent \in {0, 1}
      BY <3>1 DEF Answers
    <3>3. /\ d \in work[w] /\ pc[w] = "working" /\ current' = [current EXCEPT ![w] = d]
          /\ UNCHANGED <<work, attemptCount>>
      BY <2>5 DEF Deliver
    <3>4. current[w] = NoEvent
      BY <3>3 DEF WorkInv
    <3>5. CASE d = e
      <4>1. w \in Before /\ After \subseteq Before \ {w}
        BY <3>3, <3>4, <3>5 DEF After, Before, Undelivered, TypeOK
      <4>2. IsFiniteSet(Before \ {w}) /\ Cardinality(Before \ {w}) = Cardinality(Before) - 1
        BY <2>1, <4>1, FS_RemoveElement
      <4>3. Cardinality(After) <= Cardinality(Before) - 1
        BY <2>1, <4>1, <4>2, FS_Subset
      <4>4. sends'[e] <= sends[e] + 1 /\ sends'[e] \in Nat /\ attemptCount'[e] = attemptCount[e]
        BY <3>1, <3>2, <3>3, <3>5 DEF TypeOK
      <4>. QED
        BY <2>1, <2>2, <4>3, <4>4
    <3>6. CASE d # e
      <4>1. After \subseteq Before
        BY <3>3, <3>4, <3>6 DEF After, Before, Undelivered, TypeOK
      <4>2. sends'[e] = sends[e] /\ attemptCount'[e] = attemptCount[e]
        BY <3>1, <3>3, <3>6 DEF TypeOK
      <4>. QED
        BY <2>1, <2>2, <2>3, <4>1, <4>2
    <3>. QED
      BY <3>5, <3>6
  <2>6. ASSUME UNCHANGED <<sends, attemptCount>>, After \subseteq Before
        PROVE  sends'[e] + Cardinality(After) <= attemptCount'[e]
    BY <2>1, <2>2, <2>3, <2>6
  <2>7. ASSUME NEW w \in Workers, NextEvent(w)
        PROVE  After \subseteq Before
    BY <2>7 DEF NextEvent, After, Before, Undelivered, TypeOK
  <2>8. ASSUME UNCHANGED <<work, current>>
        PROVE  After \subseteq Before
    BY <2>8 DEF After, Before, Undelivered
  <2>9. ASSUME NEW w \in Workers, ReadBeforeMark(w) \/ Mark(w)
        PROVE  UNCHANGED <<sends, attemptCount>> /\ After \subseteq Before
    BY <2>7, <2>8, <2>9 DEF ReadBeforeMark, Mark, WriteMark
  <2>10. ASSUME NEW w \in Workers, AbandonCycle(w)
         PROVE  UNCHANGED <<sends, attemptCount>> /\ After \subseteq Before
    BY <2>10 DEF AbandonCycle, After, Before, Undelivered, TypeOK
  <2>11. ASSUME NEW w \in Workers, FinishCycle(w) \/ MarkThrows(w)
         PROVE  UNCHANGED <<sends, attemptCount, work, current>>
    BY <2>11 DEF FinishCycle, MarkThrows, WriteMark
  <2>12. ASSUME UNCHANGED <<sends, attemptCount, work, current>>
         PROVE  sends'[e] + Cardinality(After) <= attemptCount'[e]
    BY <2>6, <2>8, <2>12
  <2>13. ASSUME NEW w \in Workers, Work(w) \/ MarkThrows(w) \/ AbandonCycle(w)
         PROVE  sends'[e] + Cardinality(After) <= attemptCount'[e]
    BY <2>4, <2>5, <2>6, <2>9, <2>10, <2>11, <2>12, <2>13 DEF Work
  <2>14. ASSUME NEW r \in Requests,
                \/ \E kind \in {"deliver", "retry"}, d \in Events : ReadForUser(r, kind, d)
                \/ MarkEventDelivered(r)
                \/ RetryFailedEvent(r)
         PROVE  UNCHANGED <<sends, attemptCount, work, current>>
    BY <2>14 DEF ReadForUser, MarkEventDelivered, RetryFailedEvent
  <2>15. ASSUME NEW d \in Events, RetryComesDue(d) \/ AbandonedClaimGoesStale(d) \/ HeldClaimGoesStale(d)
         PROVE  UNCHANGED <<sends, attemptCount, work, current>>
    BY <2>15 DEF RetryComesDue, AbandonedClaimGoesStale, HeldClaimGoesStale, ClaimGoesStale
  <2>16. sends'[e] + Cardinality(After) <= attemptCount'[e]
    <3>1. CASE UNCHANGED vars
      BY <2>12, <3>1 DEF vars
    <3>2. CASE Next
      BY <2>12, <2>13, <2>14, <2>15, <3>2 DEF Next
    <3>. QED
      BY <3>1, <3>2
  <2>. QED
    BY <2>16 DEF After
<1>. QED
  BY <1>1, <1>2, WorkInvariant, PTL DEF Spec

(***************************************************************************)
(* What is left on the left of ClaimInv when the event is not claimed: the *)
(* attempts are unchanged, and what became claimable was with a worker or  *)
(* is paid for by a retry or a slip.                                       *)
(***************************************************************************)
LEMMA ClaimInvariant == Spec => []ClaimInv
<1>. USE NotificationsAssumption
<1>1. Init => ClaimInv
  <2>. SUFFICES ASSUME Init, NEW e \in Events
                PROVE  attemptCount[e] + AtHand(e) + Cardinality(Rescheduling(e)) + ToCome(e)
                         <= MaxAttempts + retries[e] + slips[e]
    BY DEF ClaimInv
  <2>1. Rescheduling(e) = {}
    BY DEF Init, Rescheduling
  <2>2. /\ attemptCount[e] = 0 /\ retries[e] = 0 /\ slips[e] = 0
        /\ AtHand(e) = 1 /\ ToCome(e) = MaxAttempts - 1
    BY DEF Init, Zero, AtHand, ToCome
  <2>. QED
    BY <2>1, <2>2, FS_EmptySet
<1>2. TypeOK /\ WorkInv /\ ClaimInv /\ [Next]_vars => ClaimInv'
  <2>. SUFFICES ASSUME TypeOK, WorkInv, ClaimInv, [Next]_vars, NEW e \in Events
                PROVE  attemptCount'[e] + AtHand(e)' + Cardinality(Rescheduling(e)') + ToCome(e)'
                         <= MaxAttempts + retries'[e] + slips'[e]
    BY DEF ClaimInv
  <2>. USE DEF rowVars, workerVars, historyVars
  <2>. DEFINE Before == Rescheduling(e)
              After == Rescheduling(e)'
              Kept == attemptCount'[e] + AtHand(e)' + Cardinality(After) + ToCome(e)'
                        <= MaxAttempts + retries'[e] + slips'[e]
  <2>1. /\ Before \in SUBSET Workers /\ After \in SUBSET Workers
        /\ IsFiniteSet(Before) /\ Cardinality(Before) \in Nat
        /\ IsFiniteSet(After) /\ Cardinality(After) \in Nat
    <3>1. Before \in SUBSET Workers /\ After \in SUBSET Workers
      BY DEF Rescheduling
    <3>. QED
      BY <3>1, WorkersAreFinite
  <2>2. /\ attemptCount[e] \in Nat /\ retries[e] \in Nat /\ slips[e] \in Nat
        /\ attemptCount[e] + AtHand(e) + Cardinality(Before) + ToCome(e)
             <= MaxAttempts + retries[e] + slips[e]
    BY DEF TypeOK, ClaimInv
  <2>3. After \subseteq Before => Cardinality(After) <= Cardinality(Before)
    BY <2>1, FS_Subset
  <2>4. AtHand(e) \in {0, 1} /\ AtHand(e)' \in {0, 1} /\ ToCome(e) \in Nat
    BY <2>2 DEF AtHand, ToCome
  <2>5. attemptCount'[e] = attemptCount[e] => ToCome(e)' = ToCome(e)
    BY DEF ToCome
  <2>. HIDE DEF Before, After
  <2>6. ASSUME NEW w \in Workers, ClaimPendingEvents(w)
        PROVE  Kept
    <3>1. PICK found \in SUBSET Events :
            /\ \A d \in found : Claimable(d)
            /\ status' = [d \in Events |-> IF d \in found THEN "PROCESSING" ELSE status[d]]
            /\ attemptCount' = [d \in Events |-> IF d \in found THEN attemptCount[d] + 1 ELSE attemptCount[d]]
            /\ due' = [d \in Events |-> due[d] /\ d \notin found]
            /\ work' = [work EXCEPT ![w] = found]
            /\ attempt' = [attempt EXCEPT ![w] = [d \in Events |-> IF d \in found THEN attemptCount[d] + 1 ELSE 0]]
      BY <2>6 DEF ClaimPendingEvents
    <3>2. UNCHANGED <<retries, slips>>
      BY <2>6 DEF ClaimPendingEvents
    <3>3. CASE e \in found
      <4>1. attemptCount'[e] = attemptCount[e] + 1
        BY <3>1, <3>3
      <4>2. AtHand(e) = 1
        BY <3>1, <3>3 DEF AtHand, Claimable
      <4>3. AtHand(e)' = 0
        BY <3>1, <3>3 DEF AtHand
      <4>4. CASE attemptCount[e] + 1 < MaxAttempts
        <5>1. ToCome(e)' = ToCome(e) - 1
          BY <2>2, <4>1, <4>4 DEF ToCome
        <5>2. After \subseteq Before \union {w}
          BY <3>1 DEF After, Before, Rescheduling, TypeOK
        <5>3. /\ IsFiniteSet(Before \union {w})
              /\ \/ Cardinality(Before \union {w}) = Cardinality(Before)
                 \/ Cardinality(Before \union {w}) = Cardinality(Before) + 1
          BY <2>1, FS_AddElement
        <5>4. Cardinality(After) <= Cardinality(Before) + 1
          BY <2>1, <5>2, <5>3, FS_Subset
        <5>. QED
          BY <2>1, <2>2, <2>4, <3>2, <4>1, <4>2, <4>3, <5>1, <5>4
      <4>5. CASE ~(attemptCount[e] + 1 < MaxAttempts)
        <5>1. ToCome(e)' = 0
          BY <2>2, <4>1, <4>5 DEF ToCome
        <5>2. attempt'[w][e] = attemptCount[e] + 1
          BY <3>1, <3>3 DEF TypeOK
        <5>3. w \notin After
          BY <4>5, <5>2 DEF After, Rescheduling
        <5>4. After \subseteq Before
          BY <3>1, <5>3 DEF After, Before, Rescheduling, TypeOK
        <5>. QED
          BY <2>1, <2>2, <2>3, <2>4, <3>2, <4>1, <4>2, <4>3, <5>1, <5>4
      <4>. QED
        BY <4>4, <4>5
    <3>4. CASE e \notin found
      <4>1. attemptCount'[e] = attemptCount[e] /\ status'[e] = status[e] /\ due'[e] = due[e]
        BY <3>1, <3>4 DEF TypeOK
      <4>2. AtHand(e)' = AtHand(e)
        BY <4>1 DEF AtHand
      <4>3. After \subseteq Before
        BY <3>1, <3>4 DEF After, Before, Rescheduling, TypeOK
      <4>. QED
        BY <2>1, <2>2, <2>3, <2>4, <2>5, <3>2, <4>1, <4>2, <4>3
    <3>. QED
      BY <3>3, <3>4
  <2>7. ASSUME UNCHANGED attemptCount, After \subseteq Before,
               retries'[e] \in Nat, slips'[e] \in Nat,
               AtHand(e)' + retries[e] + slips[e] <= AtHand(e) + retries'[e] + slips'[e]
        PROVE  Kept
    BY <2>1, <2>2, <2>3, <2>4, <2>5, <2>7
  <2>8. ASSUME UNCHANGED <<work, attempt>>
        PROVE  After \subseteq Before
    BY <2>8 DEF After, Before, Rescheduling
  <2>9. ASSUME UNCHANGED <<rowVars, retries, slips>>, After \subseteq Before
        PROVE  Kept
    <3>1. AtHand(e)' = AtHand(e)
      BY <2>9 DEF AtHand
    <3>. QED
      BY <2>2, <2>4, <2>7, <2>9, <3>1
  <2>10. ASSUME NEW w \in Workers, NextEvent(w), UNCHANGED attempt
         PROVE  /\ After \subseteq Before
                /\ current[w] = e => After \subseteq Before \ {w}
    BY <2>10 DEF NextEvent, After, Before, Rescheduling, TypeOK
  <2>11. ASSUME NEW w \in Workers, WriteMark(w)
         PROVE  /\ UNCHANGED <<attemptCount, attempt, retries>>
                /\ current[w] # e => AtHand(e)' = AtHand(e)
                /\ current[w] = e /\ AtHand(e)' = 1 => w \in Before
    <3>1. /\ status' = [status EXCEPT ![current[w]] = MarkOf(w)]
          /\ due' = [due EXCEPT ![current[w]] = FALSE]
          /\ UNCHANGED <<attemptCount, attempt, retries>>
          /\ pc[w] \in {"confirming", "failed", "refused", "recovering"}
      BY <2>11 DEF WriteMark
    <3>2. current[w] # e => AtHand(e)' = AtHand(e)
      BY <3>1 DEF AtHand, TypeOK
    <3>3. ASSUME current[w] = e, AtHand(e)' = 1
          PROVE  w \in Before
      <4>1. status'[e] = MarkOf(w) /\ due'[e] = FALSE
        BY <3>1, <3>3 DEF TypeOK
      <4>2. MarkOf(w) = "PENDING"
        BY <3>3, <4>1 DEF AtHand
      <4>3. Retriable(w)
        BY <4>2 DEF MarkOf
      <4>4. e \in work[w]
        BY <3>1, <3>3 DEF WorkInv
      <4>. QED
        BY <3>3, <4>3, <4>4 DEF Before, Rescheduling, Retriable
    <3>. QED
      BY <3>1, <3>2, <3>3
  <2>12. ASSUME NEW w \in Workers, Mark(w)
         PROVE  Kept
    <3>1. WriteMark(w) /\ NextEvent(w) /\ UNCHANGED slips
      BY <2>12 DEF Mark
    <3>2. UNCHANGED <<attemptCount, attempt, retries, slips>>
      BY <2>11, <3>1
    <3>3. CASE current[w] = e /\ AtHand(e)' = 1
      <4>1. w \in Before /\ After \subseteq Before \ {w}
        BY <2>10, <2>11, <3>1, <3>2, <3>3
      <4>2. IsFiniteSet(Before \ {w}) /\ Cardinality(Before \ {w}) = Cardinality(Before) - 1
        BY <2>1, <4>1, FS_RemoveElement
      <4>3. Cardinality(After) <= Cardinality(Before) - 1
        BY <2>1, <4>1, <4>2, FS_Subset
      <4>. QED
        BY <2>1, <2>2, <2>4, <2>5, <3>2, <4>3
    <3>4. CASE ~(current[w] = e /\ AtHand(e)' = 1)
      <4>1. After \subseteq Before
        BY <2>10, <3>1, <3>2
      <4>2. AtHand(e)' <= AtHand(e)
        BY <2>4, <2>11, <3>1, <3>4
      <4>. QED
        BY <2>2, <2>4, <2>7, <3>2, <4>1, <4>2
    <3>. QED
      BY <3>3, <3>4
  <2>13. ASSUME NEW w \in Workers, MarkThrows(w)
         PROVE  Kept
    <3>1. UNCHANGED <<work, attempt>>
      BY <2>13 DEF MarkThrows, WriteMark
    <3>2. CASE WriteMark(w) /\ slips' = [slips EXCEPT ![current[w]] = @ + 1]
      <4>1. UNCHANGED <<attemptCount, retries>>
        BY <2>11, <3>2
      <4>2. CASE current[w] = e
        <5>1. slips'[e] = slips[e] + 1
          BY <3>2, <4>2 DEF TypeOK
        <5>. QED
          BY <2>2, <2>4, <2>7, <2>8, <3>1, <4>1, <5>1
      <4>3. CASE current[w] # e
        <5>1. slips'[e] = slips[e]
          BY <3>2, <4>3 DEF TypeOK
        <5>2. AtHand(e)' = AtHand(e)
          BY <2>11, <3>2, <4>3
        <5>. QED
          BY <2>2, <2>4, <2>7, <2>8, <3>1, <4>1, <5>1, <5>2
      <4>. QED
        BY <4>2, <4>3
    <3>3. CASE UNCHANGED <<rowVars, attempt, asked, historyVars, requests>>
      BY <2>8, <2>9, <3>1, <3>3
    <3>. QED
      BY <2>13, <3>2, <3>3 DEF MarkThrows
  <2>14. ASSUME NEW r \in Requests, MarkEventDelivered(r)
         PROVE  Kept
    <3>1. PICK d : d = asked[r].event
      OBVIOUS
    <3>2. /\ status' = [status EXCEPT ![d] = "DELIVERED"]
          /\ due' = [due EXCEPT ![d] = FALSE]
          /\ UNCHANGED <<attemptCount, work, attempt, retries, slips>>
      BY <2>14, <3>1 DEF MarkEventDelivered
    <3>3. AtHand(e)' <= AtHand(e)
      BY <3>2 DEF AtHand, TypeOK
    <3>. QED
      BY <2>2, <2>4, <2>7, <2>8, <3>2, <3>3
  <2>15. ASSUME NEW r \in Requests, RetryFailedEvent(r)
         PROVE  Kept
    <3>1. PICK d : d = asked[r].event
      OBVIOUS
    <3>2. /\ status' = [status EXCEPT ![d] = "PENDING"]
          /\ due' = [due EXCEPT ![d] = TRUE]
          /\ retries' = [retries EXCEPT ![d] = @ + 1]
          /\ UNCHANGED <<attemptCount, work, attempt, slips>>
      BY <2>15, <3>1 DEF RetryFailedEvent
    <3>3. CASE d = e
      <4>1. retries'[e] = retries[e] + 1
        BY <3>2, <3>3 DEF TypeOK
      <4>. QED
        BY <2>2, <2>4, <2>7, <2>8, <3>2, <4>1
    <3>4. CASE d # e
      <4>1. retries'[e] = retries[e] /\ AtHand(e)' = AtHand(e)
        BY <3>2, <3>4 DEF AtHand, TypeOK
      <4>. QED
        BY <2>2, <2>4, <2>7, <2>8, <3>2, <4>1
    <3>. QED
      BY <3>3, <3>4
  <2>16. ASSUME NEW d \in Events, RetryComesDue(d)
         PROVE  Kept
    <3>1. /\ status[d] = "PENDING" /\ due' = [due EXCEPT ![d] = TRUE]
          /\ UNCHANGED <<status, attemptCount, work, attempt, retries, slips>>
      BY <2>16 DEF RetryComesDue
    <3>2. AtHand(e)' = AtHand(e)
      BY <3>1 DEF AtHand, TypeOK
    <3>. QED
      BY <2>2, <2>4, <2>7, <2>8, <3>1, <3>2
  <2>17. ASSUME NEW d \in Events, ClaimGoesStale(d)
         PROVE  Kept
    <3>1. /\ due' = [due EXCEPT ![d] = TRUE]
          /\ slips' = [slips EXCEPT ![d] = @ + 1]
          /\ UNCHANGED <<status, attemptCount, work, attempt, retries>>
      BY <2>17 DEF ClaimGoesStale
    <3>2. CASE d = e
      <4>1. slips'[e] = slips[e] + 1
        BY <3>1, <3>2 DEF TypeOK
      <4>. QED
        BY <2>2, <2>4, <2>7, <2>8, <3>1, <4>1
    <3>3. CASE d # e
      <4>1. slips'[e] = slips[e] /\ AtHand(e)' = AtHand(e)
        BY <3>1, <3>3 DEF AtHand, TypeOK
      <4>. QED
        BY <2>2, <2>4, <2>7, <2>8, <3>1, <4>1
    <3>. QED
      BY <3>2, <3>3
  <2>18. ASSUME NEW w \in Workers, AbandonCycle(w)
         PROVE  Kept
    <3>1. After \subseteq Before
      BY <2>18 DEF AbandonCycle, After, Before, Rescheduling, TypeOK
    <3>. QED
      BY <2>9, <2>18, <3>1 DEF AbandonCycle
  <2>19. ASSUME NEW w \in Workers, ReadBeforeMark(w)
         PROVE  Kept
    <3>1. UNCHANGED <<rowVars, retries, slips, attempt>>
      BY <2>19 DEF ReadBeforeMark
    <3>2. NextEvent(w) \/ UNCHANGED <<work, attempt>>
      BY <2>19 DEF ReadBeforeMark
    <3>. QED
      BY <2>8, <2>9, <2>10, <3>1, <3>2
  <2>20. ASSUME UNCHANGED <<rowVars, work, attempt, retries, slips>>
         PROVE  Kept
    BY <2>8, <2>9, <2>20
  <2>. HIDE DEF Kept
  <2>21. ASSUME NEW w \in Workers, Work(w) \/ MarkThrows(w) \/ AbandonCycle(w)
         PROVE  Kept
    BY <2>6, <2>12, <2>13, <2>18, <2>19, <2>20, <2>21 DEF Work, Deliver, FinishCycle
  <2>22. Kept
    <3>1. CASE UNCHANGED vars
      BY <2>20, <3>1 DEF vars
    <3>2. CASE Next
      BY <2>14, <2>15, <2>16, <2>17, <2>20, <2>21, <3>2
         DEF Next, ReadForUser, AbandonedClaimGoesStale, HeldClaimGoesStale
    <3>. QED
      BY <3>1, <3>2
  <2>. QED
    BY <2>22 DEF Kept, After
<1>. QED
  BY <1>1, <1>2, WorkInvariant, PTL DEF Spec

(***************************************************************************)
(* A message goes out at most once per claim, and claims are bounded by    *)
(* maxAttempts, retries and slips, for any number of workers.              *)
(***************************************************************************)
THEOREM DeliveriesAreBounded == Spec => []DeliveriesBounded
<1>1. TypeOK /\ SendInv /\ ClaimInv => DeliveriesBounded
  <2>. SUFFICES ASSUME TypeOK, SendInv, ClaimInv, NEW e \in Events
                PROVE  /\ sends[e] <= attemptCount[e]
                       /\ attemptCount[e] <= MaxAttempts + retries[e] + slips[e]
    BY DEF DeliveriesBounded
  <2>1. Cardinality(Undelivered(e)) \in Nat /\ Cardinality(Rescheduling(e)) \in Nat
    BY WorkersAreFinite DEF Undelivered, Rescheduling
  <2>2. /\ attemptCount[e] \in Nat /\ sends[e] \in Nat /\ retries[e] \in Nat /\ slips[e] \in Nat
        /\ MaxAttempts \in Nat
    BY NotificationsAssumption DEF TypeOK
  <2>3. AtHand(e) \in {0, 1} /\ ToCome(e) \in Nat
    BY <2>2 DEF AtHand, ToCome
  <2>. QED
    BY <2>1, <2>2, <2>3 DEF SendInv, ClaimInv
<1>. QED
  BY <1>1, WorkInvariant, SendInvariant, ClaimInvariant, PTL
==============================================================================
