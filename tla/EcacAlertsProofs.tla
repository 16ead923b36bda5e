--------------------------- MODULE EcacAlertsProofs ---------------------------
(***************************************************************************)
(* Proofs about EcacAlerts, for any findings, jobs, users and operators.   *)
(***************************************************************************)
EXTENDS EcacAlerts, TLAPS

(***************************************************************************)
(* What the code writes are rows and events of the tables.                 *)
(***************************************************************************)
LEMMA RowTyping ==
  /\ \A row \in Alerts : row # NoAlert
  /\ \A row \in Alerts, j \in Jobs : [row EXCEPT !.latestJob = j] \in Alerts
  /\ \A row \in Alerts : [row EXCEPT !.status = "ACKNOWLEDGED"] \in Alerts
  /\ \A row \in Alerts, j \in Jobs :
       [row EXCEPT !.status = "RESOLVED", !.change = "RESOLVED", !.latestJob = j] \in Alerts
  /\ \A c \in Contents, t \in Changes, j \in Jobs :
       [status |-> "OPEN", content |-> c, change |-> t, latestJob |-> j] \in Alerts
  BY NoAlertAssumption DEF Alerts, Statuses, Changes

LEMMA EventTyping ==
  ASSUME NEW k \in Keys, NEW c, NEW t \in Changes, NEW j \in Jobs
  PROVE  EventsOf(k, t, c, j) \in SUBSET Events
  BY DEF EventsOf, Events

(***************************************************************************)
(* A finding that is not announced is an unresolved alert with the same    *)
(* content.                                                                *)
(***************************************************************************)
LEMMA Unannounced ==
  ASSUME NEW row \in Alerts \union {NoAlert}, NEW c \in Contents
  PROVE  /\ ChangeOf(row, c) # "none" => ChangeOf(row, c) \in Changes
         /\ ChangeOf(row, c) = "none" <=>
              row # NoAlert /\ row.status # "RESOLVED" /\ row.content = c
  BY DEF ChangeOf, Changes

(***************************************************************************)
(* Types are kept by every step.  LockInv tells that an operator has read  *)
(* a row, and DraftInv that one a reconciliation observes again exists.    *)
(***************************************************************************)
LEMMA TypeStep ==
  TypeOK /\ LockInv /\ DraftInv /\ [Next]_vars => TypeOK'
<1>. SUFFICES ASSUME TypeOK, LockInv, DraftInv, [Next]_vars PROVE TypeOK'
  OBVIOUS
<1>. USE AlertsAssumption DEF Answers, Rows, Phases, Reconciling, streamVars, jobVars
<1>0. NoRows \in Rows /\ NoAnswer \in Answers
  BY DEF NoRows, NoAnswer
<1>1. ASSUME NEW j \in Jobs, Answer(j) PROVE TypeOK'
  BY <1>1 DEF Answer, TypeOK
<1>2. ASSUME NEW j \in Jobs, BeginReconcile(j) PROVE TypeOK'
  <2>1. alert \in Rows /\ existing \in [Jobs -> Rows]
    BY DEF TypeOK
  <2>2. existing' \in [Jobs -> Rows]
    <3>. HIDE DEF Rows
    <3>. QED
      BY <1>2, <2>1 DEF BeginReconcile
  <2>. QED
    BY <1>2, <2>2 DEF BeginReconcile, TypeOK
<1>3. ASSUME NEW j \in Jobs, NEW k \in Keys, ApplyFinding(j, k) PROVE TypeOK'
  <2>. DEFINE change == ChangeOf(existing[j][k], answer[j][k])
  <2>0. /\ existing[j][k] \in Alerts \union {NoAlert}
        /\ alert[k] \in Alerts \union {NoAlert}
        /\ answer[j][k] \in Contents
    BY <1>3 DEF ApplyFinding, TypeOK
  <2>1. CASE change = "none"
    <3>1. existing[j][k] # NoAlert
      BY <2>0, <2>1, Unannounced
    <3>2. alert[k] \in Alerts
      BY <1>3, <2>0, <3>1, RowTyping DEF ApplyFinding, DraftInv, SameButAcknowledged
    <3>3. Observed(j, k) \in Alerts
      BY <3>2, RowTyping DEF Observed
    <3>4. draft' = [draft EXCEPT ![j][k] = Observed(j, k)] /\ UNCHANGED queued
      BY <1>3, <2>1 DEF ApplyFinding
    <3>. QED
      BY <1>3, <3>3, <3>4 DEF ApplyFinding, TypeOK
  <2>2. CASE change # "none"
    <3>1. change \in Changes
      BY <2>0, <2>2, Unannounced
    <3>. DEFINE row == [status |-> "OPEN", content |-> answer[j][k],
                        change |-> change, latestJob |-> j]
    <3>2. row \in Alerts
      BY <2>0, <3>1, RowTyping
    <3>3. EventsOf(k, change, answer[j][k], j) \in SUBSET Events
      BY <3>1, EventTyping
    <3>4. /\ draft' = [draft EXCEPT ![j][k] = row]
          /\ queued' = [queued EXCEPT ![j] = @ \union EventsOf(k, change, answer[j][k], j)]
      BY <1>3, <2>2 DEF ApplyFinding
    <3>. HIDE DEF row, change
    <3>. QED
      BY <1>3, <3>2, <3>3, <3>4 DEF ApplyFinding, TypeOK
  <2>. QED
    BY <2>1, <2>2
<1>4. ASSUME NEW j \in Jobs, ListMissing(j) PROVE TypeOK'
  BY <1>4 DEF ListMissing, Gone, TypeOK
<1>5. ASSUME NEW j \in Jobs, ResolveMissing(j) PROVE TypeOK'
  <2>. DEFINE row(k) == [alert[k] EXCEPT !.status = "RESOLVED", !.change = "RESOLVED",
                                         !.latestJob = j]
  <2>1. \A k \in Gone(j) : row(k) \in Alerts
    BY RowTyping DEF Gone, TypeOK
  <2>2. [k \in Keys |-> IF k \in Gone(j) THEN row(k) ELSE draft[j][k]] \in Rows
    <3>1. \A k \in Keys : draft[j][k] \in Alerts \union {NoAlert}
      BY DEF TypeOK
    <3>2. \A k \in Keys :
            (IF k \in Gone(j) THEN row(k) ELSE draft[j][k]) \in Alerts \union {NoAlert}
      BY <2>1, <3>1
    <3>. HIDE DEF row
    <3>. QED
      BY <3>2
  <2>3. \A k \in missing[j] : EventsOf(k, "RESOLVED", alert[k].content, j) \in SUBSET Events
    BY EventTyping DEF TypeOK, Changes
  <2>4. draft' \in [Jobs -> Rows]
    <3>. HIDE DEF row, Rows
    <3>1. draft' = [draft EXCEPT ![j] = [k \in Keys |-> IF k \in Gone(j) THEN row(k) ELSE draft[j][k]]]
      BY <1>5 DEF ResolveMissing, row
    <3>. QED
      BY <2>2, <3>1 DEF TypeOK
  <2>5. queued' \in [Jobs -> SUBSET Events]
    <3>. DEFINE more == UNION {EventsOf(k, "RESOLVED", alert[k].content, j) : k \in missing[j]}
    <3>1. more \in SUBSET Events
      BY <2>3
    <3>2. queued' = [queued EXCEPT ![j] = @ \union more]
      BY <1>5 DEF ResolveMissing
    <3>. HIDE DEF more
    <3>. QED
      BY <3>1, <3>2 DEF TypeOK
  <2>. QED
    BY <1>5, <2>4, <2>5 DEF ResolveMissing, TypeOK
<1>6. ASSUME NEW j \in Jobs, CommitReconcile(j) PROVE TypeOK'
  BY <1>6, <1>0 DEF CommitReconcile, Forget, TypeOK
<1>7. ASSUME NEW j \in Jobs, RollBack(j) PROVE TypeOK'
  BY <1>7, <1>0 DEF RollBack, Forget, TypeOK
<1>8. ASSUME NEW o \in Operators, NEW k \in Keys, ReadAlert(o, k) PROVE TypeOK'
  BY <1>8 DEF ReadAlert, TypeOK
<1>9. ASSUME NEW o \in Operators, Acknowledge(o) PROVE TypeOK'
  <2>1. seen[o] \in Keys /\ alert[seen[o]] \in Alerts
    BY <1>9 DEF Acknowledge, LockInv, TypeOK
  <2>2. [alert[seen[o]] EXCEPT !.status = "ACKNOWLEDGED"] \in Alerts
    BY <2>1, RowTyping
  <2>. QED
    BY <1>9, <2>1, <2>2 DEF Acknowledge, TypeOK
<1>10. CASE UNCHANGED vars
  BY <1>10 DEF vars, TypeOK
<1>. QED
  BY <1>1, <1>2, <1>3, <1>4, <1>5, <1>6, <1>7, <1>8, <1>9, <1>10 DEF Next

(***************************************************************************)
(* The lock excludes: a reconciliation begins only when none is under way, *)
(* and only for a job newer than the cursor's.                             *)
(***************************************************************************)
LEMMA LockStep ==
  TypeOK /\ LockInv /\ [Next]_vars => LockInv'
<1>. SUFFICES ASSUME TypeOK, LockInv, [Next]_vars PROVE LockInv'
  OBVIOUS
<1>. USE DEF Reconciling, LockInv, streamVars, jobVars
<1>0. /\ phase \in [Jobs -> Phases]
      /\ cursor \in Jobs \union {0}
      /\ seen \in [Operators -> Keys \union {NoKey}]
      /\ \A j \in Jobs : j \in Int /\ j # 0
  BY DEF TypeOK, Jobs
<1>1. ASSUME NEW j \in Jobs, Answer(j) PROVE LockInv'
  BY <1>0, <1>1 DEF Answer
<1>2. ASSUME NEW j \in Jobs, BeginReconcile(j) PROVE LockInv'
  BY <1>0, <1>2 DEF BeginReconcile, Stale, StreamLocked
<1>3. ASSUME NEW j \in Jobs, NEW k \in Keys, ApplyFinding(j, k) PROVE LockInv'
  BY <1>0, <1>3 DEF ApplyFinding
<1>4. ASSUME NEW j \in Jobs, ListMissing(j) PROVE LockInv'
  BY <1>0, <1>4 DEF ListMissing
<1>5. ASSUME NEW j \in Jobs, ResolveMissing(j) PROVE LockInv'
  BY <1>0, <1>5 DEF ResolveMissing
<1>6. ASSUME NEW j \in Jobs, CommitReconcile(j) PROVE LockInv'
  <2>1. \A i \in Jobs : phase'[i] \notin Reconciling
    BY <1>0, <1>6 DEF CommitReconcile
  <2>2. cursor' = j /\ phase'[j] = "done"
    BY <1>0, <1>6 DEF CommitReconcile
  <2>3. \A k \in Keys : alert[k] # NoAlert => alert'[k] # NoAlert
    BY <1>6 DEF CommitReconcile
  <2>. QED
    BY <1>0, <1>6, <2>1, <2>2, <2>3, AlertsAssumption DEF CommitReconcile
<1>7. ASSUME NEW j \in Jobs, RollBack(j) PROVE LockInv'
  BY <1>0, <1>7 DEF RollBack
<1>8. ASSUME NEW o \in Operators, NEW k \in Keys, ReadAlert(o, k) PROVE LockInv'
  BY <1>0, <1>8 DEF ReadAlert
<1>9. ASSUME NEW o \in Operators, Acknowledge(o) PROVE LockInv'
  <2>1. seen[o] \in Keys /\ alert[seen[o]] \in Alerts
    BY <1>0, <1>9 DEF Acknowledge, TypeOK, Rows
  <2>2. \A k \in Keys : alert[k] # NoAlert => alert'[k] # NoAlert
    BY <1>9, <2>1, RowTyping DEF Acknowledge, TypeOK, Rows
  <2>. QED
    BY <1>0, <1>9, <2>2, AlertsAssumption DEF Acknowledge
<1>10. CASE UNCHANGED vars
  BY <1>10 DEF vars
<1>. QED
  BY <1>1, <1>2, <1>3, <1>4, <1>5, <1>6, <1>7, <1>8, <1>9, <1>10 DEF Next

(***************************************************************************)
(* What an acknowledgement does to the rows.                               *)
(***************************************************************************)
LEMMA AcknowledgeEffect ==
  ASSUME TypeOK, LockInv, NEW o \in Operators, Acknowledge(o), NEW k \in Keys
  PROVE  \/ alert'[k] = alert[k]
         \/ /\ alert[k] \in Alerts
            /\ alert'[k] = [alert[k] EXCEPT !.status = "ACKNOWLEDGED"]
            /\ ~RowLocked(k)
  BY RowTyping DEF Acknowledge, LockInv, TypeOK, Rows

(***************************************************************************)
(* The accepted answer changes only when a reconciliation commits: until   *)
(* then neither the cursor nor the answer of its job does.                 *)
(***************************************************************************)
LEMMA AcceptedStep ==
  ASSUME TypeOK, LockInv, [Next]_vars
  PROVE  \/ \E j \in Jobs : CommitReconcile(j)
         \/ cursor' = cursor /\ Accepted' = Accepted
<1>. USE DEF Reconciling, LockInv, streamVars, jobVars
<1>0. /\ phase \in [Jobs -> Phases]
      /\ cursor \in Jobs \union {0}
      /\ answer \in [Jobs -> Answers]
      /\ \A j \in Jobs : j # 0
  BY DEF TypeOK, Jobs
<1>1. ASSUME NEW j \in Jobs, Answer(j) PROVE cursor' = cursor /\ Accepted' = Accepted
  BY <1>0, <1>1 DEF Answer, Accepted
<1>2. ASSUME NEW j \in Jobs, RollBack(j) PROVE cursor' = cursor /\ Accepted' = Accepted
  BY <1>0, <1>2 DEF RollBack, Accepted
<1>3. CASE UNCHANGED <<cursor, answer>>
  BY <1>3 DEF Accepted
<1>4. ASSUME NEW j \in Jobs,
             \/ BeginReconcile(j)
             \/ \E k \in Keys : ApplyFinding(j, k)
             \/ ListMissing(j)
             \/ ResolveMissing(j)
      PROVE  UNCHANGED <<cursor, answer>>
  BY <1>4 DEF BeginReconcile, ApplyFinding, ListMissing, ResolveMissing
<1>5. ASSUME NEW o \in Operators, (\E k \in Keys : ReadAlert(o, k)) \/ Acknowledge(o)
      PROVE  UNCHANGED <<cursor, answer>>
  BY <1>5 DEF ReadAlert, Acknowledge
<1>6. CASE UNCHANGED vars
  BY <1>6, <1>3 DEF vars
<1>. QED
  BY <1>1, <1>2, <1>3, <1>4, <1>5, <1>6 DEF Next

(***************************************************************************)
(* What a commit does: the draft replaces the rows it has, and the answer  *)
(* of the job becomes the accepted one.                                    *)
(***************************************************************************)
LEMMA CommitEffect ==
  ASSUME TypeOK, LockInv, NEW j \in Jobs, CommitReconcile(j)
  PROVE  /\ cursor < j /\ cursor' = j
         /\ Accepted' = answer[j]
         /\ \A k \in Keys :
              alert'[k] = IF draft[j][k] = NoAlert THEN alert[k] ELSE draft[j][k]
  BY DEF CommitReconcile, LockInv, Reconciling, Accepted, Jobs

(***************************************************************************)
(* The alerts follow the cursor: a commit publishes a draft that is the    *)
(* image of the answer, and an acknowledgement takes no alert back to OPEN.*)
(***************************************************************************)
LEMMA FollowStep ==
  TypeOK /\ LockInv /\ DraftInv /\ AlertsFollowCursor /\ [Next]_vars => AlertsFollowCursor'
<1>. SUFFICES ASSUME TypeOK, LockInv, DraftInv, AlertsFollowCursor, [Next]_vars,
                     NEW k \in Keys
              PROVE  (/\ Accepted[k] # NoContent =>
                           /\ alert[k] # NoAlert
                           /\ alert[k].status \in Unresolved
                           /\ alert[k].content = Accepted[k]
                           /\ alert[k].latestJob = cursor
                      /\ Accepted[k] = NoContent /\ alert[k] # NoAlert =>
                           /\ alert[k].status # "OPEN"
                           /\ alert[k].latestJob <= cursor)'
  BY DEF AlertsFollowCursor
<1>1. ASSUME NEW j \in Jobs, CommitReconcile(j)
      PROVE  /\ answer[j][k] # NoContent =>
                  /\ alert'[k] # NoAlert
                  /\ alert'[k].status \in Unresolved
                  /\ alert'[k].content = answer[j][k]
                  /\ alert'[k].latestJob = j
             /\ answer[j][k] = NoContent /\ alert'[k] # NoAlert =>
                  /\ alert'[k].status # "OPEN"
                  /\ alert'[k].latestJob <= j
  <2>1. /\ DraftOf(j, k) /\ Covered(j, k)
        /\ phase[j] = "committing"
    BY <1>1 DEF DraftInv, CommitReconcile, Reconciling
  <2>2. /\ cursor < j
        /\ alert'[k] = IF draft[j][k] = NoAlert THEN alert[k] ELSE draft[j][k]
    BY <1>1, CommitEffect
  <2>3. alert[k] # NoAlert => alert[k].latestJob <= cursor /\ alert[k].latestJob \in Int
    <3>1. cursor \in Int /\ (alert[k] # NoAlert => alert[k].latestJob \in Int)
      BY DEF TypeOK, Rows, Alerts, Jobs
    <3>. QED
      BY <3>1 DEF AlertsFollowCursor
  <2>4. cursor \in Int /\ j \in Int
    BY DEF TypeOK, Jobs
  <2>5. CASE answer[j][k] # NoContent
    BY <2>1, <2>2, <2>5 DEF DraftOf, Covered
  <2>6. CASE answer[j][k] = NoContent
    BY <2>1, <2>2, <2>3, <2>4, <2>6 DEF DraftOf, Covered
  <2>. QED
    BY <2>5, <2>6
<1>2. CASE \E j \in Jobs : CommitReconcile(j)
  BY <1>1, <1>2, CommitEffect DEF Unresolved
<1>3. CASE cursor' = cursor /\ Accepted' = Accepted
  <2>1. \/ alert'[k] = alert[k]
        \/ /\ alert[k] \in Alerts
           /\ alert'[k] = [alert[k] EXCEPT !.status = "ACKNOWLEDGED"]
        \/ \E j \in Jobs : CommitReconcile(j)
    BY AcknowledgeEffect
       DEF Next, vars, streamVars, Answer, BeginReconcile, ApplyFinding, ListMissing,
           ResolveMissing, RollBack, ReadAlert
  <2>2. CASE alert'[k] = alert[k]
    BY <1>3, <2>2 DEF AlertsFollowCursor, Unresolved
  <2>3. CASE /\ alert[k] \in Alerts
             /\ alert'[k] = [alert[k] EXCEPT !.status = "ACKNOWLEDGED"]
    <3>1. /\ alert'[k] \in Alerts
          /\ alert[k] # NoAlert /\ alert'[k] # NoAlert
          /\ alert'[k].status = "ACKNOWLEDGED"
          /\ alert'[k].content = alert[k].content
          /\ alert'[k].latestJob = alert[k].latestJob
      BY <2>3, RowTyping DEF Alerts
    <3>. QED
      BY <1>3, <3>1 DEF AlertsFollowCursor, Unresolved
  <2>. QED
    BY <1>2, <2>1, <2>2, <2>3
<1>. QED
  BY <1>2, <1>3, AcceptedStep

(***************************************************************************)
(* The draft of the reconciliation under way stays an image of its answer. *)
(* Only the job that holds the lock changes it; an acknowledgement reaches *)
(* only rows that are not in it.                                           *)
(***************************************************************************)
Drafted(j, k) ==
  /\ SameButAcknowledged(existing[j][k], alert[k])
  /\ Accepted[k] # NoContent => existing[j][k].status \in Unresolved
  /\ DraftOf(j, k)
  /\ Covered(j, k)

LEMMA DraftStep ==
  TypeOK /\ LockInv /\ DraftInv /\ AlertsFollowCursor /\ [Next]_vars => DraftInv'
<1>. SUFFICES ASSUME TypeOK, LockInv, DraftInv, AlertsFollowCursor, [Next]_vars,
                     NEW j \in Jobs, NEW k \in Keys
              PROVE  /\ phase'[j] \notin Reconciling => draft'[j][k] = NoAlert
                     /\ phase'[j] \in Reconciling => Drafted(j, k)'
  BY DEF DraftInv, Drafted
<1>. DEFINE Goal == /\ phase'[j] \notin Reconciling => draft'[j][k] = NoAlert
                    /\ phase'[j] \in Reconciling => Drafted(j, k)'
<1>0. /\ phase \in [Jobs -> Phases] /\ draft \in [Jobs -> Rows]
      /\ answer \in [Jobs -> Answers] /\ existing \in [Jobs -> Rows]
      /\ draft[j] \in Rows /\ answer[j] \in Answers /\ existing[j] \in Rows
      /\ alert[k] \in Alerts \union {NoAlert} /\ draft[j][k] \in Alerts \union {NoAlert}
      /\ existing[j][k] \in Alerts \union {NoAlert}
      /\ answer[j][k] \in Contents \union {NoContent}
  BY DEF TypeOK, Rows, Answers
<1>a. /\ phase[j] \notin Reconciling => draft[j][k] = NoAlert
      /\ phase[j] \in Reconciling => Drafted(j, k)
  BY DEF DraftInv, Drafted
<1>b. ASSUME UNCHANGED <<phase[j], answer[j], existing[j], draft[j], alert[k], Accepted>>
      PROVE  Goal
  BY <1>a, <1>b DEF Drafted, DraftOf, Covered, SameButAcknowledged
<1>c. ASSUME NEW i \in Jobs, phase[i] \in Reconciling, phase[j] \in Reconciling
      PROVE  i = j
  BY <1>c DEF LockInv
<1>1. ASSUME NEW i \in Jobs, Answer(i) PROVE Goal
  <2>1. Accepted' = Accepted
    <3>1. cursor \in Jobs \union {0} /\ (cursor # 0 => cursor # i)
      BY <1>0, <1>1 DEF Answer, LockInv, TypeOK
    <3>2. cursor' = cursor /\ (cursor # 0 => answer'[cursor] = answer[cursor])
      BY <1>0, <1>1, <3>1 DEF Answer, streamVars
    <3>. QED
      BY <3>2 DEF Accepted
  <2>2. CASE i = j
    BY <1>0, <1>1, <1>a, <2>2 DEF Answer, Reconciling
  <2>3. CASE i # j
    BY <1>0, <1>1, <1>b, <2>1, <2>3 DEF Answer, streamVars
  <2>. QED
    BY <2>2, <2>3
<1>2. ASSUME NEW i \in Jobs, BeginReconcile(i) PROVE Goal
  <2>1. Accepted' = Accepted
    BY <1>2 DEF BeginReconcile, Accepted, streamVars
  <2>2. CASE i = j /\ phase'[j] \in Reconciling
    <3>1. /\ phase[j] = "answered" /\ phase'[j] = "applying"
          /\ existing'[j] = alert /\ draft' = draft /\ answer' = answer /\ alert' = alert
      BY <1>0, <1>2, <2>2 DEF BeginReconcile, Reconciling, streamVars
    <3>2. draft'[j][k] = NoAlert
      BY <3>1, <1>a DEF Reconciling
    <3>3. Accepted[k] # NoContent => alert[k].status \in Unresolved
      BY DEF AlertsFollowCursor
    <3>. QED
      BY <2>1, <2>2, <3>1, <3>2, <3>3
         DEF Drafted, DraftOf, Covered, SameButAcknowledged
  <2>3. CASE i = j /\ phase'[j] \notin Reconciling
    BY <1>2, <1>a, <2>3 DEF BeginReconcile, Reconciling
  <2>4. CASE i # j
    BY <1>0, <1>2, <1>b, <2>1, <2>4 DEF BeginReconcile, streamVars
  <2>. QED
    BY <2>2, <2>3, <2>4
<1>3. ASSUME NEW i \in Jobs, NEW f \in Keys, ApplyFinding(i, f) PROVE Goal
  <2>0. /\ Accepted' = Accepted /\ phase[i] = "applying"
        /\ UNCHANGED <<phase, answer, existing, alert>>
    BY <1>3 DEF ApplyFinding, Accepted, streamVars
  <2>1. CASE i # j \/ f # k
    <3>1. draft'[j][k] = draft[j][k]
      BY <1>0, <1>3, <2>1 DEF ApplyFinding, Rows
    <3>. QED
      BY <1>a, <2>0, <3>1 DEF Drafted, DraftOf, Covered, SameButAcknowledged
  <2>2. CASE i = j /\ f = k
    <3>0. /\ answer[j][k] \in Contents /\ answer[j][k] # NoContent
          /\ phase[j] = "applying" /\ Drafted(j, k)
          /\ SameButAcknowledged(existing[j][k], alert[k])
      BY <1>3, <1>0, <1>a, <2>2 DEF ApplyFinding, Reconciling, Drafted
    <3>1. CASE ChangeOf(existing[j][k], answer[j][k]) = "none"
      <4>1. draft'[j][k] = [alert[k] EXCEPT !.latestJob = j]
        BY <1>0, <1>3, <2>2, <3>1 DEF ApplyFinding, Rows, Observed
      <4>2. /\ existing[j][k] \in Alerts /\ existing[j][k].status \in Unresolved
            /\ existing[j][k].content = answer[j][k]
        BY <1>0, <3>0, <3>1, Unannounced DEF Alerts, Statuses, Unresolved
      <4>3. /\ alert[k] \in Alerts /\ alert[k].status \in Unresolved
            /\ alert[k].content = answer[j][k]
        BY <1>0, <3>0, <4>2, RowTyping DEF SameButAcknowledged, Alerts, Unresolved
      <4>4. /\ draft'[j][k].latestJob = j
            /\ draft'[j][k].status = alert[k].status
            /\ draft'[j][k].content = alert[k].content
        BY <4>1, <4>3 DEF Alerts
      <4>. QED
        BY <2>0, <3>0, <4>3, <4>4
           DEF Reconciling, Drafted, DraftOf, Covered, SameButAcknowledged
    <3>2. CASE ChangeOf(existing[j][k], answer[j][k]) # "none"
      <4>1. draft'[j][k] = [status |-> "OPEN", content |-> answer[j][k],
                            change |-> ChangeOf(existing[j][k], answer[j][k]),
                            latestJob |-> j]
        BY <1>0, <1>3, <2>2, <3>2 DEF ApplyFinding, Rows
      <4>2. /\ draft'[j][k].latestJob = j
            /\ draft'[j][k].status = "OPEN"
            /\ draft'[j][k].content = answer[j][k]
        BY <4>1
      <4>. QED
        BY <2>0, <3>0, <3>2, <4>2
           DEF Reconciling, Drafted, DraftOf, Covered, SameButAcknowledged, Unresolved
    <3>. QED
      BY <3>0, <2>0, <3>1, <3>2 DEF Reconciling
  <2>. QED
    BY <2>1, <2>2
<1>4. ASSUME NEW i \in Jobs, ListMissing(i) PROVE Goal
  <2>0. Accepted' = Accepted /\ UNCHANGED <<answer, existing, draft, alert>>
    BY <1>4 DEF ListMissing, Accepted, streamVars
  <2>1. CASE i = j
    <3>1. /\ phase[j] = "applying" /\ phase'[j] = "resolving"
          /\ answer[j][k] # NoContent => draft[j][k] # NoAlert
      BY <1>0, <1>4, <2>1 DEF ListMissing
    <3>2. answer[j][k] = NoContent => draft[j][k] = NoAlert
      BY <1>a, <3>1 DEF Drafted, DraftOf, Reconciling
    <3>. QED
      BY <1>a, <2>0, <3>1, <3>2
         DEF Reconciling, Drafted, DraftOf, Covered, SameButAcknowledged
  <2>2. CASE i # j
    BY <1>0, <1>4, <1>b, <2>0, <2>2 DEF ListMissing
  <2>. QED
    BY <2>1, <2>2
<1>5. ASSUME NEW i \in Jobs, ResolveMissing(i) PROVE Goal
  <2>0. Accepted' = Accepted /\ UNCHANGED <<answer, existing, alert>>
    BY <1>5 DEF ResolveMissing, Accepted, streamVars
  <2>1. CASE i = j
    <3>1. phase[j] = "resolving" /\ phase'[j] = "committing"
      BY <1>0, <1>5, <2>1 DEF ResolveMissing
    <3>2. draft'[j][k] = IF k \in Gone(j)
                         THEN [alert[k] EXCEPT !.status = "RESOLVED", !.change = "RESOLVED",
                                               !.latestJob = j]
                         ELSE draft[j][k]
      BY <1>0, <1>5, <2>1 DEF ResolveMissing
    <3>3. Drafted(j, k)
      BY <1>a, <3>1 DEF Reconciling
    <3>4. CASE k \in Gone(j)
      <4>1. alert[k] \in Alerts /\ answer[j][k] = NoContent
        BY <1>0, <3>4 DEF Gone
      <4>2. /\ draft'[j][k] \in Alerts
            /\ draft'[j][k].status = "RESOLVED" /\ draft'[j][k].latestJob = j
        BY <3>2, <3>4, <4>1, RowTyping DEF Alerts
      <4>. QED
        BY <2>0, <3>1, <3>3, <4>1, <4>2, RowTyping
           DEF Reconciling, Drafted, DraftOf, Covered, SameButAcknowledged
    <3>5. CASE k \notin Gone(j) /\ answer[j][k] # NoContent
      BY <2>0, <3>1, <3>2, <3>3, <3>5
         DEF Reconciling, Drafted, DraftOf, Covered, SameButAcknowledged
    <3>6. CASE k \notin Gone(j) /\ answer[j][k] = NoContent
      <4>1. draft'[j][k] = NoAlert
        BY <3>1, <3>2, <3>3, <3>6 DEF Drafted, DraftOf
      <4>2. alert[k] # NoAlert => alert[k].status # "OPEN"
        BY <3>6 DEF Gone, Unresolved
      <4>. QED
        BY <2>0, <3>1, <3>3, <3>6, <4>1, <4>2
           DEF Reconciling, Drafted, DraftOf, Covered, SameButAcknowledged
    <3>. QED
      BY <3>4, <3>5, <3>6
  <2>2. CASE i # j
    BY <1>0, <1>5, <1>b, <2>0, <2>2 DEF ResolveMissing
  <2>. QED
    BY <2>1, <2>2
<1>6. ASSUME NEW i \in Jobs, CommitReconcile(i) PROVE Goal
  <2>1. phase[i] \in Reconciling
    BY <1>6 DEF CommitReconcile, Reconciling
  <2>2. phase'[j] \notin Reconciling
    BY <1>0, <1>6, <1>c, <2>1 DEF CommitReconcile, Reconciling
  <2>3. draft'[j][k] = NoAlert
    BY <1>0, <1>6, <1>a, <1>c, <2>1 DEF CommitReconcile, Forget, NoRows
  <2>. QED
    BY <2>2, <2>3
<1>7. ASSUME NEW i \in Jobs, RollBack(i) PROVE Goal
  <2>1. phase[i] \in Reconciling
    BY <1>7 DEF RollBack
  <2>2. phase'[j] \notin Reconciling
    BY <1>0, <1>7, <1>c, <2>1 DEF RollBack, Reconciling
  <2>3. draft'[j][k] = NoAlert
    BY <1>0, <1>7, <1>a, <1>c, <2>1 DEF RollBack, Forget, NoRows
  <2>. QED
    BY <2>2, <2>3
<1>8. ASSUME NEW o \in Operators, NEW f \in Keys, ReadAlert(o, f) PROVE Goal
  BY <1>8, <1>b DEF ReadAlert, Accepted, streamVars, jobVars
<1>9. ASSUME NEW o \in Operators, Acknowledge(o) PROVE Goal
  <2>0. Accepted' = Accepted /\ UNCHANGED <<phase, answer, existing, draft>>
    BY <1>9 DEF Acknowledge, Accepted, jobVars
  <2>1. CASE alert'[k] = alert[k]
    BY <1>b, <2>0, <2>1
  <2>2. CASE /\ alert[k] \in Alerts
             /\ alert'[k] = [alert[k] EXCEPT !.status = "ACKNOWLEDGED"]
             /\ ~RowLocked(k)
    <3>1. /\ alert'[k] \in Alerts /\ alert'[k] # NoAlert
          /\ alert'[k].status = "ACKNOWLEDGED"
      BY <2>2, RowTyping DEF Alerts
    <3>2. phase[j] \in Reconciling => draft[j][k] = NoAlert
      BY <2>2 DEF RowLocked
    <3>3. SameButAcknowledged(existing[j][k], alert[k])
            => SameButAcknowledged(existing[j][k], alert[k])'
      BY <1>0, <2>0, <2>2, RowTyping DEF SameButAcknowledged, Alerts
    <3>. QED
      BY <1>a, <2>0, <3>1, <3>2, <3>3 DEF Drafted, DraftOf, Covered, Unresolved
  <2>. QED
    BY <1>9, <2>1, <2>2, AcknowledgeEffect
<1>10. CASE UNCHANGED vars
  BY <1>10, <1>b DEF vars, streamVars, jobVars, Accepted
<1>. QED
  BY <1>1, <1>2, <1>3, <1>4, <1>5, <1>6, <1>7, <1>8, <1>9, <1>10 DEF Next

------------------------------------------------------------------------------
(***************************************************************************)
(* The inductive invariant: types, the lock, the draft and the alerts need *)
(* each other.                                                             *)
(***************************************************************************)
AlertsInv == TypeOK /\ LockInv /\ DraftInv /\ AlertsFollowCursor

LEMMA Invariance == Spec => []AlertsInv
<1>1. Init => AlertsInv
  <2>. SUFFICES ASSUME Init PROVE AlertsInv
    OBVIOUS
  <2>. USE AlertsAssumption DEF Init, NoRows, NoAnswer
  <2>1. TypeOK
    BY DEF TypeOK, Rows, Answers, Phases
  <2>2. LockInv
    BY DEF LockInv, Reconciling
  <2>3. DraftInv
    BY DEF DraftInv, Reconciling
  <2>4. AlertsFollowCursor
    BY DEF AlertsFollowCursor, Accepted
  <2>. QED
    BY <2>1, <2>2, <2>3, <2>4 DEF AlertsInv
<1>2. AlertsInv /\ [Next]_vars => AlertsInv'
  BY TypeStep, LockStep, DraftStep, FollowStep DEF AlertsInv
<1>. QED
  BY <1>1, <1>2, PTL DEF Spec

(***************************************************************************)
(* Every reachable state has the types of the tables.                      *)
(***************************************************************************)
THEOREM AlertsTypeCorrect == Spec => []TypeOK
<1>1. AlertsInv => TypeOK
  BY DEF AlertsInv
<1>. QED
  BY <1>1, Invariance, PTL

(***************************************************************************)
(* The alerts of a stream are those of the answer accepted last, whatever  *)
(* the order in which jobs are answered, reconciled, rolled back, and in   *)
(* which operators acknowledge.                                            *)
(***************************************************************************)
THEOREM AlertsAreTheAccepted == Spec => []AlertsFollowCursor
<1>1. AlertsInv => AlertsFollowCursor
  BY DEF AlertsInv
<1>. QED
  BY <1>1, Invariance, PTL

(***************************************************************************)
(* The observation cursor only moves to newer jobs.                        *)
(***************************************************************************)
THEOREM CursorAdvances == Spec => CursorNeverRetreats
<1>1. AlertsInv /\ [Next]_vars => [cursor' >= cursor]_vars
  <2>. SUFFICES ASSUME TypeOK, LockInv, [Next]_vars PROVE cursor' >= cursor
    BY DEF AlertsInv
  <2>1. cursor \in Int /\ \A j \in Jobs : j \in Int
    BY DEF TypeOK, Jobs
  <2>. QED
    BY <2>1, AcceptedStep, CommitEffect
<1>. QED
  BY <1>1, Invariance, PTL DEF Spec, CursorNeverRetreats

(***************************************************************************)
(* An acknowledgement lasts as long as the content it acknowledged.        *)
(***************************************************************************)
THEOREM AcknowledgementLasts == Spec => AcknowledgementSurvives
<1>. DEFINE Kept == \A k \in Keys :
                      /\ alert[k] # NoAlert
                      /\ alert[k].status = "ACKNOWLEDGED"
                      /\ Accepted[k] # NoContent
                      /\ Accepted'[k] = Accepted[k]
                      => alert'[k].status = "ACKNOWLEDGED"
<1>1. AlertsInv /\ [Next]_vars => [Kept]_vars
  <2>. SUFFICES ASSUME TypeOK, LockInv, DraftInv, AlertsFollowCursor, [Next]_vars,
                       NEW k \in Keys,
                       alert[k] # NoAlert, alert[k].status = "ACKNOWLEDGED",
                       Accepted[k] # NoContent, Accepted'[k] = Accepted[k]
                PROVE  alert'[k].status = "ACKNOWLEDGED"
    BY DEF AlertsInv
  <2>1. ASSUME NEW j \in Jobs, CommitReconcile(j)
        PROVE  alert'[k].status = "ACKNOWLEDGED"
    <3>1. /\ answer[j][k] = Accepted[k]
          /\ alert'[k] = IF draft[j][k] = NoAlert THEN alert[k] ELSE draft[j][k]
      BY <2>1, CommitEffect
    <3>2. /\ SameButAcknowledged(existing[j][k], alert[k])
          /\ existing[j][k].status \in Unresolved
          /\ DraftOf(j, k)
      BY <2>1 DEF DraftInv, CommitReconcile, Reconciling
    <3>3. /\ alert[k].content = answer[j][k]
          /\ existing[j][k] \in Alerts \union {NoAlert}
          /\ answer[j][k] \in Contents
      BY <3>1 DEF AlertsFollowCursor, TypeOK, Rows, Answers
    <3>4. /\ existing[j][k] # NoAlert
          /\ existing[j][k].content = answer[j][k]
      BY <3>2, <3>3 DEF SameButAcknowledged, Alerts
    <3>5. ChangeOf(existing[j][k], answer[j][k]) = "none"
      BY <3>2, <3>3, <3>4, Unannounced DEF Unresolved
    <3>. QED
      BY <3>1, <3>2, <3>5 DEF DraftOf
  <2>2. \/ alert'[k] = alert[k]
        \/ /\ alert[k] \in Alerts
           /\ alert'[k] = [alert[k] EXCEPT !.status = "ACKNOWLEDGED"]
        \/ \E j \in Jobs : CommitReconcile(j)
    BY AcknowledgeEffect
       DEF Next, vars, streamVars, Answer, BeginReconcile, ApplyFinding, ListMissing,
           ResolveMissing, RollBack, ReadAlert
  <2>. QED
    BY <2>1, <2>2 DEF Alerts
<1>. QED
  BY <1>1, Invariance, PTL DEF Spec, AcknowledgementSurvives

------------------------------------------------------------------------------
(***************************************************************************)
(* The draft and the queue of a reconciliation agree, step by step.  Only  *)
(* its own steps write either; an acknowledgement may change the status of *)
(* a row between the list and the update, which Unresolved does not see.   *)
(***************************************************************************)
LEMMA AnnounceStep ==
  TypeOK /\ LockInv /\ DraftInv /\ AnnounceInv /\ [Next]_vars => AnnounceInv'
<1>. SUFFICES ASSUME TypeOK, LockInv, DraftInv, AnnounceInv, [Next]_vars,
                     NEW j \in Jobs, NEW k \in Keys, phase'[j] \in Reconciling
              PROVE  Announced(j, k)'
  BY DEF AnnounceInv
<1>0. /\ phase \in [Jobs -> Phases] /\ draft \in [Jobs -> Rows]
      /\ answer \in [Jobs -> Answers] /\ existing \in [Jobs -> Rows]
      /\ queued \in [Jobs -> SUBSET Events] /\ missing \in [Jobs -> SUBSET Keys]
      /\ draft[j] \in Rows /\ answer[j] \in Answers /\ existing[j] \in Rows
      /\ alert[k] \in Alerts \union {NoAlert} /\ draft[j][k] \in Alerts \union {NoAlert}
      /\ existing[j][k] \in Alerts \union {NoAlert}
      /\ answer[j][k] \in Contents \union {NoContent}
  BY DEF TypeOK, Rows, Answers
<1>a. phase[j] \in Reconciling => Announced(j, k) /\ Drafted(j, k)
  BY DEF AnnounceInv, DraftInv, Drafted
<1>b. ASSUME UNCHANGED <<phase[j], answer[j], existing[j], draft[j][k], missing[j]>>,
             queued[j] \subseteq queued'[j]
      PROVE  Announced(j, k)'
  <2>1. Announced(j, k)
    BY <1>a, <1>b
  <2>. QED
    BY <1>b, <2>1 DEF Announced, Vanishes, EventsOf, Accepts
<1>1. ASSUME NEW i \in Jobs, Answer(i) PROVE Announced(j, k)'
  <2>1. i # j
    BY <1>0, <1>1 DEF Answer, Reconciling
  <2>. QED
    BY <1>0, <1>1, <1>b, <2>1 DEF Answer
<1>2. ASSUME NEW i \in Jobs, BeginReconcile(i) PROVE Announced(j, k)'
  <2>1. CASE i = j
    <3>1. phase'[j] = "applying" /\ phase[j] = "answered" /\ draft' = draft
      BY <1>0, <1>2, <2>1 DEF BeginReconcile, Reconciling
    <3>2. draft'[j][k] = NoAlert
      BY <3>1 DEF DraftInv, Reconciling
    <3>. QED
      BY <3>1, <3>2 DEF Announced
  <2>2. CASE i # j
    BY <1>0, <1>2, <1>b, <2>2 DEF BeginReconcile
  <2>. QED
    BY <2>1, <2>2
<1>3. ASSUME NEW i \in Jobs, NEW f \in Keys, ApplyFinding(i, f) PROVE Announced(j, k)'
  <2>0. /\ phase[i] = "applying" /\ UNCHANGED <<phase, answer, existing, missing>>
        /\ queued[j] \subseteq queued'[j]
    BY <1>0, <1>3 DEF ApplyFinding
  <2>1. CASE i # j \/ f # k
    <3>1. draft'[j][k] = draft[j][k]
      BY <1>0, <1>3, <2>1 DEF ApplyFinding, Rows
    <3>. QED
      BY <1>b, <2>0, <3>1
  <2>2. CASE i = j /\ f = k
    <3>. DEFINE change == ChangeOf(existing[j][k], answer[j][k])
    <3>0. phase'[j] = "applying" /\ change' = change
      BY <2>0, <2>2 DEF ChangeOf
    <3>1. CASE change = "none"
      BY <3>0, <3>1 DEF Announced
    <3>2. CASE change # "none"
      <4>1. draft'[j][k] = [status |-> "OPEN", content |-> answer[j][k],
                            change |-> change, latestJob |-> j]
        BY <1>0, <1>3, <2>2, <3>2 DEF ApplyFinding, Rows
      <4>2. draft'[j][k].change = change
        BY <4>1
      <4>3. queued' = [queued EXCEPT ![j] = @ \union EventsOf(k, change, answer[j][k], j)]
        BY <1>3, <2>2, <3>2 DEF ApplyFinding
      <4>4. EventsOf(k, change, answer[j][k], j) \subseteq queued'[j]
        BY <1>0, <4>3
      <4>5. EventsOf(k, change, answer[j][k], j)' = EventsOf(k, change, answer[j][k], j)
        BY <2>0, <3>0 DEF EventsOf, Accepts
      <4>. HIDE DEF change
      <4>. QED
        BY <3>0, <4>2, <4>4, <4>5 DEF Announced, change
    <3>. QED
      BY <3>1, <3>2
  <2>. QED
    BY <2>1, <2>2
<1>4. ASSUME NEW i \in Jobs, ListMissing(i) PROVE Announced(j, k)'
  <2>0. UNCHANGED <<answer, existing, draft, queued, alert>>
    BY <1>4 DEF ListMissing, streamVars
  <2>1. CASE i = j
    <3>1. phase[j] = "applying" /\ phase'[j] = "resolving" /\ missing'[j] = Gone(j)
      BY <1>0, <1>4, <2>1 DEF ListMissing
    <3>2. Vanishes(j, k) => k \in Gone(j)
      <4>1. SameButAcknowledged(existing[j][k], alert[k])
        BY <1>a, <3>1 DEF Drafted, Reconciling
      <4>. QED
        BY <1>0, <4>1, RowTyping DEF Vanishes, Gone, SameButAcknowledged, Unresolved, Alerts
    <3>3. Vanishes(j, k)' = Vanishes(j, k)
      BY <2>0 DEF Vanishes
    <3>4. Announced(j, k)
      BY <1>a, <3>1 DEF Reconciling
    <3>. QED
      BY <2>0, <3>1, <3>2, <3>3, <3>4 DEF Announced, EventsOf, Accepts
  <2>2. CASE i # j
    BY <1>0, <1>4, <1>b, <2>0, <2>2 DEF ListMissing
  <2>. QED
    BY <2>1, <2>2
<1>5. ASSUME NEW i \in Jobs, ResolveMissing(i) PROVE Announced(j, k)'
  <2>0. UNCHANGED <<answer, existing, missing, alert>>
    BY <1>5 DEF ResolveMissing, streamVars
  <2>1. CASE i = j
    <3>1. /\ phase[j] = "resolving" /\ phase'[j] = "committing"
          /\ Announced(j, k) /\ SameButAcknowledged(existing[j][k], alert[k])
      BY <1>0, <1>5, <1>a, <2>1 DEF ResolveMissing, Reconciling, Drafted
    <3>2. draft'[j][k] = IF k \in Gone(j)
                         THEN [alert[k] EXCEPT !.status = "RESOLVED", !.change = "RESOLVED",
                                               !.latestJob = j]
                         ELSE draft[j][k]
      BY <1>0, <1>5, <2>1 DEF ResolveMissing
    <3>3. queued'[j] = queued[j] \union
            UNION {EventsOf(f, "RESOLVED", alert[f].content, j) : f \in missing[j]}
      BY <1>0, <1>5, <2>1 DEF ResolveMissing
    <3>4. CASE answer[j][k] # NoContent
      <4>1. draft'[j][k] = draft[j][k] /\ queued[j] \subseteq queued'[j]
        BY <3>2, <3>3, <3>4 DEF Gone
      <4>. QED
        BY <2>0, <3>1, <3>4, <4>1 DEF Announced, Vanishes, EventsOf, Accepts
    <3>5. CASE ~Vanishes(j, k) /\ answer[j][k] = NoContent
      BY <2>0, <3>5 DEF Announced, Vanishes
    <3>6. CASE Vanishes(j, k)
      <4>1. /\ alert[k] \in Alerts /\ alert[k].content = existing[j][k].content
            /\ k \in Gone(j) /\ k \in missing[j]
        BY <1>0, <3>1, <3>6, RowTyping
           DEF Announced, Vanishes, Gone, SameButAcknowledged, Unresolved, Alerts
      <4>2. /\ draft'[j][k] \in Alerts
            /\ draft'[j][k].change = "RESOLVED" /\ draft'[j][k].content = alert[k].content
        BY <3>2, <4>1, RowTyping DEF Alerts
      <4>3. EventsOf(k, "RESOLVED", alert[k].content, j) \subseteq queued'[j]
        BY <3>3, <4>1
      <4>4. answer[j][k] = NoContent /\ existing[j][k] # NoAlert
        BY <3>6 DEF Vanishes
      <4>. QED
        BY <2>0, <3>1, <4>1, <4>2, <4>3, <4>4, RowTyping
           DEF Announced, EventsOf, Accepts
    <3>. QED
      BY <3>4, <3>5, <3>6 DEF Vanishes
  <2>2. CASE i # j
    BY <1>0, <1>5, <1>b, <2>0, <2>2 DEF ResolveMissing
  <2>. QED
    BY <2>1, <2>2
<1>6. ASSUME NEW i \in Jobs, CommitReconcile(i) \/ RollBack(i) PROVE Announced(j, k)'
  <2>1. i # j
    BY <1>0, <1>6 DEF CommitReconcile, RollBack, Reconciling
  <2>2. phase'[j] = phase[j] /\ phase[i] \in Reconciling
    BY <1>0, <1>6, <2>1 DEF CommitReconcile, RollBack, Reconciling
  <2>. QED
    BY <2>1, <2>2 DEF LockInv
<1>7. ASSUME NEW o \in Operators, (\E f \in Keys : ReadAlert(o, f)) \/ Acknowledge(o)
      PROVE  Announced(j, k)'
  BY <1>7, <1>b DEF ReadAlert, Acknowledge, jobVars
<1>8. CASE UNCHANGED vars
  BY <1>8, <1>b DEF vars, jobVars
<1>. QED
  BY <1>1, <1>2, <1>3, <1>4, <1>5, <1>6, <1>7, <1>8 DEF Next

LEMMA AnnounceInvariance == Spec => []AnnounceInv
<1>1. Init => AnnounceInv
  BY DEF Init, AnnounceInv, Reconciling
<1>2. AlertsInv /\ AnnounceInv /\ [Next]_vars => AnnounceInv'
  BY AnnounceStep DEF AlertsInv
<1>. QED
  BY <1>1, <1>2, Invariance, PTL DEF Spec

(***************************************************************************)
(* What a user is told of a finding is what became of it between the two   *)
(* answers, although the row it is compared with was read steps before,    *)
(* the alerts to resolve were listed before they were updated, and         *)
(* operators acknowledged meanwhile.                                       *)
(***************************************************************************)
THEOREM EveryChangeIsAnnounced == Spec => ChangesAnnounced
<1>. DEFINE Told ==
       \A k \in Keys :
         cursor' # cursor /\ Accepted'[k] # Accepted[k] /\ ~AcknowledgedLate(k) =>
           /\ alert'[k].change = Transition(k)
           /\ \A u \in Users : Accepts(u, Transition(k), alert'[k].content) =>
                [key |-> k, user |-> u, change |-> Transition(k), job |-> cursor'] \in events'
<1>1. AlertsInv /\ AnnounceInv /\ [Next]_vars => [Told]_vars
  <2>. SUFFICES ASSUME TypeOK, LockInv, DraftInv, AlertsFollowCursor, AnnounceInv, [Next]_vars,
                       NEW k \in Keys,
                       cursor' # cursor, Accepted'[k] # Accepted[k], ~AcknowledgedLate(k)
                PROVE  /\ alert'[k].change = Transition(k)
                       /\ \A u \in Users : Accepts(u, Transition(k), alert'[k].content) =>
                            [key |-> k, user |-> u, change |-> Transition(k), job |-> cursor']
                              \in events'
    BY DEF AlertsInv
  <2>1. PICK j \in Jobs : CommitReconcile(j)
    BY AcceptedStep
  <2>2. /\ cursor' = j /\ Accepted' = answer[j] /\ events' = events \union queued[j]
        /\ alert'[k] = IF draft[j][k] = NoAlert THEN alert[k] ELSE draft[j][k]
        /\ phase[j] = "committing"
    BY <2>1, CommitEffect DEF CommitReconcile
  <2>3. /\ Announced(j, k) /\ Covered(j, k) /\ DraftOf(j, k)
        /\ SameButAcknowledged(existing[j][k], alert[k])
        /\ Accepted[k] # NoContent => existing[j][k].status \in Unresolved
    BY <2>2 DEF AnnounceInv, DraftInv, Reconciling
  <2>4. /\ alert[k] \in Alerts \union {NoAlert} /\ existing[j][k] \in Alerts \union {NoAlert}
        /\ answer[j][k] \in Contents \union {NoContent}
    BY DEF TypeOK, Rows, Answers
  <2>5. /\ Accepted[k] # NoContent =>
             /\ alert[k] # NoAlert /\ alert[k].content = Accepted[k]
        /\ Accepted[k] = NoContent /\ alert[k] # NoAlert => alert[k].status # "OPEN"
    BY DEF AlertsFollowCursor
  <2>6. ASSUME NEW c, NEW t,
               alert'[k] = draft[j][k], draft[j][k].change = t, draft[j][k].content = c,
               EventsOf(k, t, c, j) \subseteq queued[j], Transition(k) = t
        PROVE  /\ alert'[k].change = Transition(k)
               /\ \A u \in Users : Accepts(u, Transition(k), alert'[k].content) =>
                    [key |-> k, user |-> u, change |-> Transition(k), job |-> cursor'] \in events'
    BY <2>2, <2>6 DEF EventsOf
  <2>7. CASE answer[j][k] = NoContent
    <3>1. Vanishes(j, k)
      BY <2>2, <2>3, <2>5, <2>7 DEF Vanishes, SameButAcknowledged
    <3>2. Transition(k) = "RESOLVED"
      BY <2>2, <2>7 DEF Transition
    <3>. QED
      BY <2>2, <2>3, <2>6, <3>1, <3>2 DEF Announced
  <2>8. CASE answer[j][k] # NoContent
    <3>1. Transition(k) = ChangeOf(existing[j][k], answer[j][k])
      <4>1. CASE Accepted[k] # NoContent
        <5>1. /\ existing[j][k] # NoAlert /\ existing[j][k].status # "RESOLVED"
              /\ existing[j][k].content # answer[j][k]
          BY <2>2, <2>3, <2>4, <2>5, <4>1, RowTyping
             DEF SameButAcknowledged, Unresolved, Alerts
        <5>. QED
          BY <2>2, <2>8, <4>1, <5>1 DEF Transition, ChangeOf
      <4>2. CASE Accepted[k] = NoContent /\ alert[k] # NoAlert
        <5>1. existing[j][k] # NoAlert /\ existing[j][k].status = "RESOLVED"
          BY <2>3, <2>4, <2>5, <4>2, RowTyping
             DEF AcknowledgedLate, SameButAcknowledged, Alerts, Statuses
        <5>. QED
          BY <2>2, <2>8, <4>2, <5>1 DEF Transition, ChangeOf
      <4>3. CASE Accepted[k] = NoContent /\ alert[k] = NoAlert
        <5>1. existing[j][k] = NoAlert
          BY <2>3, <2>4, <4>3, RowTyping DEF SameButAcknowledged
        <5>. QED
          BY <2>2, <2>8, <4>3, <5>1 DEF Transition, ChangeOf
      <4>. QED
        BY <4>1, <4>2, <4>3
    <3>2. Transition(k) # "none"
      BY DEF Transition
    <3>3. draft[j][k] # NoAlert /\ draft[j][k].content = answer[j][k]
      BY <2>2, <2>3, <2>8 DEF Covered, DraftOf
    <3>. QED
      BY <2>2, <2>3, <2>6, <2>8, <3>1, <3>2, <3>3 DEF Announced
  <2>. QED
    BY <2>7, <2>8
<1>. QED
  BY <1>1, Invariance, AnnounceInvariance, PTL DEF Spec, ChangesAnnounced

------------------------------------------------------------------------------
(***************************************************************************)
(* The draft and the queue hold nothing else, step by step.  A row that is *)
(* drafted is locked, so that it stays as the draft has taken it; one that *)
(* is listed and not drafted yet may only become acknowledged.             *)
(***************************************************************************)
LEMMA ExactStep ==
  TypeOK /\ LockInv /\ DraftInv /\ ExactInv /\ [Next]_vars => ExactInv'
<1>. SUFFICES ASSUME TypeOK, LockInv, DraftInv, ExactInv, [Next]_vars,
                     NEW j \in Jobs, NEW k \in Keys
              PROVE  IF phase'[j] \in Reconciling THEN Exact(j, k)'
                     ELSE missing'[j] = {} /\ queued'[j] = {}
  BY DEF ExactInv
<1>. DEFINE Goal == IF phase'[j] \in Reconciling THEN Exact(j, k)'
                    ELSE missing'[j] = {} /\ queued'[j] = {}
<1>0. /\ phase \in [Jobs -> Phases] /\ draft \in [Jobs -> Rows]
      /\ answer \in [Jobs -> Answers] /\ existing \in [Jobs -> Rows]
      /\ queued \in [Jobs -> SUBSET Events] /\ missing \in [Jobs -> SUBSET Keys]
      /\ draft[j] \in Rows /\ answer[j] \in Answers /\ existing[j] \in Rows
      /\ alert[k] \in Alerts \union {NoAlert} /\ draft[j][k] \in Alerts \union {NoAlert}
      /\ existing[j][k] \in Alerts \union {NoAlert}
      /\ answer[j][k] \in Contents \union {NoContent}
  BY DEF TypeOK, Rows, Answers
<1>a. /\ phase[j] \in Reconciling => Exact(j, k) /\ Drafted(j, k)
      /\ phase[j] \notin Reconciling => missing[j] = {} /\ queued[j] = {}
  BY DEF ExactInv, DraftInv, Drafted
<1>b. ASSUME UNCHANGED <<phase[j], answer[j], existing[j], draft[j][k], missing[j], queued[j], alert[k]>>
      PROVE  Goal
  BY <1>a, <1>b DEF Exact, Observed, EventsOf, Accepts
<1>1. ASSUME NEW i \in Jobs, Answer(i) PROVE Goal
  <2>1. CASE i = j
    BY <1>0, <1>1, <1>a, <2>1 DEF Answer, Reconciling
  <2>2. CASE i # j
    BY <1>0, <1>1, <1>b, <2>2 DEF Answer, streamVars
  <2>. QED
    BY <2>1, <2>2
<1>2. ASSUME NEW i \in Jobs, BeginReconcile(i) PROVE Goal
  <2>1. CASE i = j
    <3>1. /\ phase[j] = "answered" /\ phase'[j] \in {"applying", "done"}
          /\ UNCHANGED <<draft, missing, queued>>
      BY <1>0, <1>2, <2>1 DEF BeginReconcile
    <3>2. draft'[j][k] = NoAlert /\ missing'[j] = {} /\ queued'[j] = {}
      BY <1>a, <3>1 DEF DraftInv, Reconciling
    <3>. QED
      BY <3>1, <3>2 DEF Exact, Reconciling
  <2>2. CASE i # j
    BY <1>0, <1>2, <1>b, <2>2 DEF BeginReconcile, streamVars
  <2>. QED
    BY <2>1, <2>2
<1>3. ASSUME NEW i \in Jobs, NEW f \in Keys, ApplyFinding(i, f) PROVE Goal
  <2>0. phase[i] = "applying" /\ UNCHANGED <<phase, answer, existing, missing, alert>>
    BY <1>3 DEF ApplyFinding, streamVars
  <2>1. CASE i # j
    <3>1. draft'[j] = draft[j] /\ queued'[j] = queued[j]
      BY <1>0, <1>3, <2>1 DEF ApplyFinding
    <3>. QED
      BY <1>b, <2>0, <3>1
  <2>2. CASE i = j /\ f # k
    <3>1. draft'[j][k] = draft[j][k]
      BY <1>0, <1>3, <2>2 DEF ApplyFinding, Rows
    <3>2. \A e \in queued'[j] : e.key = k => e \in queued[j]
      BY <1>0, <1>3, <2>2 DEF ApplyFinding, EventsOf
    <3>3. phase'[j] \in Reconciling /\ Exact(j, k) /\ k \notin missing[j]
      BY <1>a, <2>0, <2>2 DEF Reconciling, Exact
    <3>. QED
      BY <2>0, <3>1, <3>2, <3>3 DEF Exact, Observed, EventsOf, Accepts
  <2>3. CASE i = j /\ f = k
    <3>. DEFINE change == ChangeOf(existing[j][k], answer[j][k])
    <3>0. /\ answer[j][k] # NoContent /\ draft[j][k] = NoAlert
          /\ phase[j] = "applying" /\ phase[j] \in Reconciling /\ Exact(j, k)
      BY <1>3, <1>a, <2>3 DEF ApplyFinding, Reconciling
    <3>1. k \notin missing[j] /\ \A e \in queued[j] : e.key # k
      BY <3>0 DEF Exact
    <3>2. change' = change
      BY <2>0 DEF ChangeOf
    <3>3. CASE change = "none"
      <4>1. draft'[j][k] = Observed(j, k) /\ queued' = queued
        BY <1>0, <1>3, <2>3, <3>3 DEF ApplyFinding, Rows
      <4>2. Observed(j, k)' = Observed(j, k)
        BY <2>0 DEF Observed
      <4>. HIDE DEF change
      <4>. QED
        BY <2>0, <3>0, <3>1, <3>2, <3>3, <4>1, <4>2 DEF Exact, change
    <3>4. CASE change # "none"
      <4>1. /\ draft'[j][k] = [status |-> "OPEN", content |-> answer[j][k],
                               change |-> change, latestJob |-> j]
            /\ queued'[j] = queued[j] \union EventsOf(k, change, answer[j][k], j)
        BY <1>0, <1>3, <2>3, <3>4 DEF ApplyFinding, Rows
      <4>2. draft'[j][k] # NoAlert
        <5>1. change \in Changes
          BY <1>0, <3>0, <3>4, Unannounced
        <5>. QED
          BY <1>0, <3>0, <4>1, <5>1, RowTyping
      <4>3. EventsOf(k, change, answer[j][k], j)' = EventsOf(k, change, answer[j][k], j)
        BY <2>0, <3>2 DEF EventsOf, Accepts
      <4>. HIDE DEF change
      <4>. QED
        BY <2>0, <3>0, <3>1, <3>2, <3>4, <4>1, <4>2, <4>3 DEF Exact, change
    <3>. QED
      BY <3>3, <3>4
  <2>. QED
    BY <2>1, <2>2, <2>3
<1>4. ASSUME NEW i \in Jobs, ListMissing(i) PROVE Goal
  <2>0. UNCHANGED <<answer, existing, draft, queued, alert>>
    BY <1>4 DEF ListMissing, streamVars
  <2>1. CASE i = j
    <3>1. phase[j] = "applying" /\ phase'[j] = "resolving" /\ missing'[j] = Gone(j)
      BY <1>0, <1>4, <2>1 DEF ListMissing
    <3>2. Exact(j, k)
      BY <1>a, <3>1 DEF Reconciling
    <3>3. \A e \in queued[j] : e.key = k => answer[j][k] # NoContent
      BY <3>1, <3>2 DEF Exact
    <3>. QED
      BY <2>0, <3>1, <3>2, <3>3 DEF Exact, Observed, EventsOf, Accepts, Gone, Reconciling
  <2>2. CASE i # j
    BY <1>0, <1>4, <1>b, <2>0, <2>2 DEF ListMissing
  <2>. QED
    BY <2>1, <2>2
<1>5. ASSUME NEW i \in Jobs, ResolveMissing(i) PROVE Goal
  <2>0. UNCHANGED <<answer, existing, missing, alert>>
    BY <1>5 DEF ResolveMissing, streamVars
  <2>1. CASE i = j
    <3>. DEFINE row == [alert[k] EXCEPT !.status = "RESOLVED", !.change = "RESOLVED",
                                        !.latestJob = j]
    <3>1. phase[j] = "resolving" /\ phase'[j] = "committing" /\ Exact(j, k)
      BY <1>0, <1>5, <1>a, <2>1 DEF ResolveMissing, Reconciling
    <3>2. draft'[j][k] = IF k \in Gone(j) THEN row ELSE draft[j][k]
      BY <1>0, <1>5, <2>1 DEF ResolveMissing
    <3>3. \A e \in queued'[j] : e.key = k =>
            \/ e \in queued[j]
            \/ /\ k \in missing[j]
               /\ e \in EventsOf(k, "RESOLVED", alert[k].content, j)
      <4>1. queued'[j] = queued[j] \union
              UNION {EventsOf(f, "RESOLVED", alert[f].content, j) : f \in missing[j]}
        BY <1>0, <1>5, <2>1 DEF ResolveMissing
      <4>2. ASSUME NEW e \in queued'[j], e.key = k, e \notin queued[j]
            PROVE  k \in missing[j] /\ e \in EventsOf(k, "RESOLVED", alert[k].content, j)
        <5>1. PICK f \in missing[j] : e \in EventsOf(f, "RESOLVED", alert[f].content, j)
          BY <4>1, <4>2
        <5>2. e.key = f
          BY <5>1 DEF EventsOf
        <5>. QED
          BY <4>2, <5>1, <5>2
      <4>. QED
        BY <4>2
    <3>4. EventsOf(k, "RESOLVED", alert[k].content, j)' = EventsOf(k, "RESOLVED", alert[k].content, j)
      BY <2>0 DEF EventsOf, Accepts
    <3>5. k \in missing[j] => EventsOf(k, "RESOLVED", alert[k].content, j) \subseteq queued'[j]
      <4>1. queued'[j] = queued[j] \union
              UNION {EventsOf(f, "RESOLVED", alert[f].content, j) : f \in missing[j]}
        BY <1>0, <1>5, <2>1 DEF ResolveMissing
      <4>. QED
        BY <4>1
    <3>6. CASE answer[j][k] # NoContent
      <4>1. k \notin Gone(j) /\ k \notin missing[j]
        BY <3>1, <3>6 DEF Gone, Exact
      <4>2. draft'[j][k] = draft[j][k] /\ \A e \in queued'[j] : e.key = k => e \in queued[j]
        BY <3>2, <3>3, <4>1
      <4>. QED
        BY <2>0, <3>1, <3>6, <4>1, <4>2 DEF Exact, Observed, EventsOf, Accepts, Reconciling
    <3>7. CASE answer[j][k] = NoContent
      <4>1. draft[j][k] = NoAlert /\ \A e \in queued[j] : e.key # k
        <5>1. draft[j][k] = NoAlert
          BY <1>a, <3>1, <3>7 DEF Drafted, DraftOf, Reconciling
        <5>. QED
          BY <3>1, <5>1 DEF Exact
      <4>2. k \in missing[j] => k \in Gone(j)
        BY <3>1 DEF Exact, Gone
      <4>3. CASE k \in Gone(j)
        <5>1. alert[k] \in Alerts /\ alert[k].status \in Unresolved
          BY <1>0, <4>3 DEF Gone
        <5>2. row \in Alerts /\ draft'[j][k] = row
          BY <3>2, <4>3, <5>1, RowTyping
        <5>3. draft'[j][k] # NoAlert /\ alert[k] # NoAlert
          BY <5>1, <5>2, RowTyping
        <5>4. row' = row
          BY <2>0
        <5>. HIDE DEF row
        <5>. QED
          BY <2>0, <3>1, <3>3, <3>4, <3>5, <3>7, <4>1, <5>1, <5>2, <5>3, <5>4 DEF Exact, Reconciling, row
      <4>4. CASE k \notin Gone(j)
        BY <2>0, <3>1, <3>2, <3>3, <4>1, <4>2, <4>4 DEF Exact, Reconciling
      <4>. QED
        BY <4>3, <4>4
    <3>. QED
      BY <3>6, <3>7
  <2>2. CASE i # j
    BY <1>0, <1>5, <1>b, <2>0, <2>2 DEF ResolveMissing
  <2>. QED
    BY <2>1, <2>2
<1>6. ASSUME NEW i \in Jobs, CommitReconcile(i) \/ RollBack(i) PROVE Goal
  <2>1. phase[i] \in Reconciling /\ phase'[i] \notin Reconciling
    BY <1>0, <1>6 DEF CommitReconcile, RollBack, Reconciling
  <2>2. CASE i = j
    BY <1>0, <1>6, <2>1, <2>2 DEF CommitReconcile, RollBack, Forget
  <2>3. CASE i # j
    <3>1. phase[j] \notin Reconciling
      BY <2>1, <2>3 DEF LockInv
    <3>2. UNCHANGED <<phase[j], missing[j], queued[j]>>
      BY <1>0, <1>6, <2>3 DEF CommitReconcile, RollBack, Forget
    <3>. QED
      BY <1>a, <3>1, <3>2
  <2>. QED
    BY <2>2, <2>3
<1>7. ASSUME NEW o \in Operators, Acknowledge(o) PROVE Goal
  <2>0. UNCHANGED <<phase, answer, existing, draft, missing, queued>>
    BY <1>7 DEF Acknowledge, jobVars
  <2>1. CASE alert'[k] = alert[k]
    BY <1>b, <2>0, <2>1
  <2>2. CASE /\ alert[k] \in Alerts
             /\ alert'[k] = [alert[k] EXCEPT !.status = "ACKNOWLEDGED"]
             /\ ~RowLocked(k)
    <3>1. /\ alert'[k] # NoAlert /\ alert'[k].status \in Unresolved
      BY <2>2, RowTyping DEF Alerts, Unresolved
    <3>2. phase[j] \in Reconciling => draft[j][k] = NoAlert
      BY <2>2 DEF RowLocked
    <3>. QED
      BY <1>a, <2>0, <3>1, <3>2 DEF Exact
  <2>. QED
    BY <1>7, <2>1, <2>2, AcknowledgeEffect
<1>8. ASSUME NEW o \in Operators, NEW f \in Keys, ReadAlert(o, f) PROVE Goal
  BY <1>8, <1>b DEF ReadAlert, jobVars, streamVars
<1>9. CASE UNCHANGED vars
  BY <1>9, <1>b DEF vars, jobVars, streamVars
<1>. QED
  BY <1>1, <1>2, <1>3, <1>4, <1>5, <1>6, <1>7, <1>8, <1>9 DEF Next

LEMMA ExactInvariance == Spec => []ExactInv
<1>1. Init => ExactInv
  BY DEF Init, ExactInv, Reconciling
<1>2. AlertsInv /\ ExactInv /\ [Next]_vars => ExactInv'
  BY ExactStep DEF AlertsInv
<1>. QED
  BY <1>1, <1>2, Invariance, PTL DEF Spec

------------------------------------------------------------------------------
(***************************************************************************)
(* How the promise sees the commit of job j: the alerts it takes for       *)
(* resolved although they have been acknowledged since, and those it       *)
(* resolves without a word, acknowledged between its list and its update.  *)
(***************************************************************************)
StaleFor(j) ==
  {k \in Promise!Late : /\ existing[j][k].status = "RESOLVED"
                       /\ (answer[j][k] # NoContent \/ draft[j][k] = NoAlert)}

SilentFor(j) ==
  {k \in Promise!Late : /\ answer[j][k] = NoContent
                       /\ draft[j][k] # NoAlert
                       /\ k \notin missing[j]} \ StaleFor(j)

SeenBy(j, k) ==
  IF k \in StaleFor(j) THEN [alert[k] EXCEPT !.status = "RESOLVED"] ELSE alert[k]

(***************************************************************************)
(* An alert that is neither acknowledged late nor resolved shows the       *)
(* accepted answer, and the reconciliation has read it unresolved; a       *)
(* resolved one it has read as it is.                                      *)
(***************************************************************************)
LEMMA ReadAsItIs ==
  ASSUME TypeOK, DraftInv, AlertsFollowCursor,
         NEW j \in Jobs, NEW k \in Keys, phase[j] = "committing"
  PROVE  /\ alert[k] = NoAlert => existing[j][k] = NoAlert
         /\ alert[k] # NoAlert =>
              /\ existing[j][k] \in Alerts
              /\ existing[j][k].content = alert[k].content
              /\ alert[k].status = "RESOLVED" => existing[j][k].status = "RESOLVED"
              /\ alert[k].status # "RESOLVED" /\ k \notin Promise!Late =>
                   existing[j][k].status \in Unresolved
<1>1. /\ alert[k] \in Alerts \union {NoAlert} /\ existing[j][k] \in Alerts \union {NoAlert}
      /\ SameButAcknowledged(existing[j][k], alert[k])
      /\ Accepted[k] # NoContent => existing[j][k].status \in Unresolved
      /\ Accepted[k] = NoContent /\ alert[k] # NoAlert => alert[k].status # "OPEN"
  BY DEF TypeOK, Rows, DraftInv, Reconciling, AlertsFollowCursor
<1>2. alert[k] # NoAlert /\ alert[k].status # "RESOLVED" /\ k \notin Promise!Late =>
        Accepted[k] # NoContent
  BY <1>1 DEF Promise!Late, Alerts, Statuses
<1>. QED
  BY <1>1, <1>2, RowTyping DEF SameButAcknowledged, Alerts

(***************************************************************************)
(* The change a commit makes of a finding is the one its answer means for  *)
(* the alert as it stands at the commit.                                   *)
(***************************************************************************)
LEMMA CommittedChange ==
  ASSUME TypeOK, DraftInv, AlertsFollowCursor,
         NEW j \in Jobs, NEW k \in Keys, phase[j] = "committing", answer[j][k] # NoContent
  PROVE  Promise!Change(SeenBy(j, k), answer[j][k]) = ChangeOf(existing[j][k], answer[j][k])
<1>1. CASE alert[k] = NoAlert
  <2>1. SeenBy(j, k) = NoAlert /\ existing[j][k] = NoAlert
    BY <1>1, ReadAsItIs DEF SeenBy, StaleFor, Promise!Late
  <2>. QED
    BY <2>1 DEF Promise!Change, ChangeOf
<1>2. CASE alert[k] # NoAlert
  <2>0. /\ alert[k] \in Alerts /\ existing[j][k] \in Alerts
        /\ existing[j][k].content = alert[k].content
        /\ existing[j][k] # NoAlert
    BY <1>2, ReadAsItIs, RowTyping DEF TypeOK, Rows
  <2>1. /\ SeenBy(j, k) # NoAlert /\ SeenBy(j, k).content = alert[k].content
        /\ SeenBy(j, k).status = "RESOLVED" <=> existing[j][k].status = "RESOLVED"
    <3>1. CASE k \in StaleFor(j)
      <4>1. /\ SeenBy(j, k) = [alert[k] EXCEPT !.status = "RESOLVED"]
            /\ existing[j][k].status = "RESOLVED"
        BY <3>1 DEF SeenBy, StaleFor
      <4>2. [alert[k] EXCEPT !.status = "RESOLVED"] \in Alerts
        BY <2>0 DEF Alerts, Statuses
      <4>. QED
        BY <2>0, <4>1, <4>2, RowTyping DEF Alerts
    <3>2. CASE k \notin StaleFor(j)
      <4>1. SeenBy(j, k) = alert[k]
        BY <3>2 DEF SeenBy
      <4>2. k \in Promise!Late => existing[j][k].status # "RESOLVED" /\ alert[k].status # "RESOLVED"
        BY <3>2 DEF StaleFor, Promise!Late
      <4>3. k \notin Promise!Late => (alert[k].status = "RESOLVED" <=> existing[j][k].status = "RESOLVED")
        BY <1>2, ReadAsItIs DEF Unresolved
      <4>. QED
        BY <1>2, <4>1, <4>2, <4>3
    <3>. QED
      BY <3>1, <3>2
  <2>. QED
    BY <2>0, <2>1 DEF Promise!Change, Promise!Resolved, ChangeOf
<1>. QED
  BY <1>1, <1>2

(***************************************************************************)
(* So it does of an alert the answer no longer has: the draft resolves it  *)
(* exactly if it is unresolved, or was when the draft was written.         *)
(***************************************************************************)
LEMMA CommittedResolution ==
  ASSUME TypeOK, DraftInv, AlertsFollowCursor, AnnounceInv, ExactInv,
         NEW j \in Jobs, NEW k \in Keys, phase[j] = "committing", answer[j][k] = NoContent
  PROVE  /\ draft[j][k] = NoAlert => Promise!Change(SeenBy(j, k), NoContent) = "none"
         /\ draft[j][k] # NoAlert =>
              /\ Promise!Change(SeenBy(j, k), NoContent) = "RESOLVED"
              /\ draft[j][k] = [alert[k] EXCEPT !.status = "RESOLVED", !.change = "RESOLVED",
                                                !.latestJob = j]
              /\ k \notin SilentFor(j) =>
                   EventsOf(k, "RESOLVED", alert[k].content, j) \subseteq queued[j]
<1>0. /\ Announced(j, k) /\ Exact(j, k)
      /\ alert[k] \in Alerts \union {NoAlert} /\ existing[j][k] \in Alerts \union {NoAlert}
  BY DEF AnnounceInv, ExactInv, Reconciling, TypeOK, Rows
<1>1. ASSUME draft[j][k] = NoAlert, alert[k] # NoAlert
      PROVE  Promise!Change(SeenBy(j, k), NoContent) = "none"
  <2>1. existing[j][k] \in Alerts /\ existing[j][k] # NoAlert /\ ~Vanishes(j, k)
    BY <1>0, <1>1, ReadAsItIs, RowTyping DEF Announced
  <2>2. existing[j][k].status = "RESOLVED"
    BY <2>1 DEF Vanishes, Alerts, Statuses, Unresolved
  <2>3. alert[k].status = "RESOLVED" \/ k \in StaleFor(j)
    BY <1>1, <2>2, ReadAsItIs DEF StaleFor, Unresolved
  <2>4. alert[k] \in Alerts /\ [alert[k] EXCEPT !.status = "RESOLVED"] \in Alerts
    BY <1>0, <1>1 DEF Alerts, Statuses
  <2>5. SeenBy(j, k) # NoAlert /\ SeenBy(j, k).status = "RESOLVED"
    BY <2>3, <2>4, RowTyping DEF SeenBy, Alerts
  <2>. QED
    BY <2>5 DEF Promise!Change, Promise!Resolved
<1>2. ASSUME alert[k] = NoAlert PROVE Promise!Change(SeenBy(j, k), NoContent) = "none"
  BY <1>2 DEF SeenBy, StaleFor, Promise!Late, Promise!Change
<1>3. ASSUME draft[j][k] # NoAlert
      PROVE  /\ Promise!Change(SeenBy(j, k), NoContent) = "RESOLVED"
             /\ draft[j][k] = [alert[k] EXCEPT !.status = "RESOLVED", !.change = "RESOLVED",
                                               !.latestJob = j]
             /\ k \notin SilentFor(j) =>
                  EventsOf(k, "RESOLVED", alert[k].content, j) \subseteq queued[j]
  <2>1. /\ alert[k] # NoAlert /\ alert[k].status \in Unresolved
        /\ draft[j][k] = [alert[k] EXCEPT !.status = "RESOLVED", !.change = "RESOLVED",
                                          !.latestJob = j]
    BY <1>0, <1>3 DEF Exact
  <2>2. SeenBy(j, k) = alert[k]
    BY <1>3 DEF SeenBy, StaleFor
  <2>3. Promise!Change(SeenBy(j, k), NoContent) = "RESOLVED"
    BY <2>1, <2>2 DEF Promise!Change, Promise!Resolved, Unresolved
  <2>4. ASSUME k \notin SilentFor(j)
        PROVE  EventsOf(k, "RESOLVED", alert[k].content, j) \subseteq queued[j]
    <3>1. CASE k \in missing[j]
      BY <1>0, <3>1 DEF Exact
    <3>2. CASE k \notin Promise!Late
      <4>1. Vanishes(j, k) /\ existing[j][k].content = alert[k].content
        BY <2>1, <3>2, ReadAsItIs, RowTyping DEF Vanishes, Unresolved
      <4>. QED
        BY <1>0, <4>1 DEF Announced
    <3>. QED
      BY <1>3, <2>4, <3>1, <3>2 DEF SilentFor, StaleFor
  <2>. QED
    BY <2>1, <2>3, <2>4
<1>. QED
  BY <1>1, <1>2, <1>3

(***************************************************************************)
(* What is queued is what is announced, but of the silent ones.            *)
(***************************************************************************)
SeenChange(j, k) == Promise!Change(SeenBy(j, k), answer[j][k])

SeenContent(j, k) == IF answer[j][k] = NoContent THEN alert[k].content ELSE answer[j][k]

LEMMA CommittedEvents ==
  ASSUME TypeOK, DraftInv, AlertsFollowCursor, AnnounceInv, ExactInv,
         NEW j \in Jobs, NEW k \in Keys, phase[j] = "committing"
  PROVE  LET news == Promise!Announcements(k, SeenChange(j, k), SeenContent(j, k), j) IN
         /\ k \notin SilentFor(j) => news \subseteq queued[j]
         /\ \A e \in queued[j] : e.key = k => k \notin SilentFor(j) /\ e \in news
<1>. DEFINE change == SeenChange(j, k)
            content == SeenContent(j, k)
            news == Promise!Announcements(k, change, content, j)
<1>0. Announced(j, k) /\ Exact(j, k) /\ Covered(j, k)
  BY DEF AnnounceInv, ExactInv, DraftInv, Reconciling
<1>1. change # "none" => news = EventsOf(k, change, content, j)
  BY DEF Promise!Announcements, Promise!Audience, EventsOf, Accepts
<1>2. change = "none" => news = {}
  BY DEF Promise!Announcements
<1>3. CASE answer[j][k] = NoContent
  <2>1. change = Promise!Change(SeenBy(j, k), NoContent) /\ content = alert[k].content
    BY <1>3 DEF SeenChange, SeenContent
  <2>2. CASE draft[j][k] = NoAlert
    <3>1. change = "none" /\ \A e \in queued[j] : e.key # k
      BY <1>0, <1>3, <2>1, <2>2, CommittedResolution DEF Exact
    <3>. QED
      BY <1>2, <3>1
  <2>3. CASE draft[j][k] # NoAlert
    <3>1. /\ change = "RESOLVED"
          /\ k \notin SilentFor(j) => EventsOf(k, "RESOLVED", alert[k].content, j) \subseteq queued[j]
      BY <1>3, <2>1, <2>3, CommittedResolution
    <3>2. \A e \in queued[j] : e.key = k =>
            k \in missing[j] /\ e \in EventsOf(k, "RESOLVED", alert[k].content, j)
      BY <1>0, <1>3 DEF Exact
    <3>3. k \in missing[j] => k \notin SilentFor(j)
      BY DEF SilentFor
    <3>. HIDE DEF change, content, news
    <3>. QED
      BY <1>1, <2>1, <3>1, <3>2, <3>3 DEF change, content, news
  <2>. QED
    BY <2>2, <2>3
<1>4. CASE answer[j][k] # NoContent
  <2>1. /\ change = ChangeOf(existing[j][k], answer[j][k]) /\ content = answer[j][k]
        /\ k \notin SilentFor(j)
    BY <1>4, CommittedChange DEF SeenChange, SeenContent, SilentFor
  <2>2. draft[j][k] # NoAlert
    BY <1>0, <1>4 DEF Covered
  <2>3. CASE change = "none"
    <3>1. \A e \in queued[j] : e.key # k
      BY <1>0, <1>4, <2>1, <2>3 DEF Exact
    <3>. QED
      BY <1>2, <2>3, <3>1
  <2>4. CASE change # "none"
    <3>1. EventsOf(k, change, content, j) \subseteq queued[j]
      BY <1>0, <1>4, <2>1, <2>2, <2>4 DEF Announced
    <3>2. \A e \in queued[j] : e.key = k => e \in EventsOf(k, change, content, j)
      BY <1>0, <1>4, <2>1 DEF Exact
    <3>. HIDE DEF change, content, news
    <3>. QED
      BY <1>1, <2>1, <2>4, <3>1, <3>2 DEF change, content, news
  <2>. QED
    BY <2>3, <2>4
<1>. QED
  BY <1>3, <1>4 DEF change, content, news

(***************************************************************************)
(* And the rows that are published are the rows brought up to date.        *)
(***************************************************************************)
LEMMA CommittedRow ==
  ASSUME TypeOK, LockInv, DraftInv, AlertsFollowCursor, AnnounceInv, ExactInv,
         NEW j \in Jobs, NEW k \in Keys, CommitReconcile(j)
  PROVE  alert'[k] = Promise!Updated(alert[k], SeenChange(j, k), answer[j][k], j)
<1>0. /\ phase[j] = "committing"
      /\ alert'[k] = IF draft[j][k] = NoAlert THEN alert[k] ELSE draft[j][k]
      /\ Exact(j, k) /\ Covered(j, k)
  BY CommitEffect DEF CommitReconcile, ExactInv, DraftInv, Reconciling
<1>1. CASE answer[j][k] = NoContent
  <2>1. CASE draft[j][k] = NoAlert
    BY <1>0, <1>1, <2>1, CommittedResolution DEF SeenChange, Promise!Updated
  <2>2. CASE draft[j][k] # NoAlert
    BY <1>0, <1>1, <2>2, CommittedResolution DEF SeenChange, Promise!Updated
  <2>. QED
    BY <2>1, <2>2
<1>2. CASE answer[j][k] # NoContent
  <2>1. /\ SeenChange(j, k) = ChangeOf(existing[j][k], answer[j][k])
        /\ alert'[k] = draft[j][k] /\ draft[j][k] # NoAlert
    BY <1>0, <1>2, CommittedChange DEF SeenChange, Covered
  <2>2. CASE SeenChange(j, k) = "none"
    BY <1>0, <1>2, <2>1, <2>2 DEF Exact, Observed, Promise!Updated
  <2>3. CASE SeenChange(j, k) # "none"
    <3>1. SeenChange(j, k) # "RESOLVED"
      BY <2>1 DEF ChangeOf
    <3>. QED
      BY <1>0, <1>2, <2>1, <2>3, <3>1 DEF Exact, Promise!Updated
  <2>. QED
    BY <2>2, <2>3
<1>. QED
  BY <1>1, <1>2

(***************************************************************************)
(* A commit is the acceptance of its answer.                               *)
(***************************************************************************)
LEMMA CommitAccepts ==
  ASSUME TypeOK, LockInv, DraftInv, AlertsFollowCursor, AnnounceInv, ExactInv,
         NEW j \in Jobs, CommitReconcile(j)
  PROVE  Promise!Next
<1>. DEFINE stale == StaleFor(j)
            silent == SilentFor(j)
            seenAs(k) == IF k \in stale THEN [alert[k] EXCEPT !.status = "RESOLVED"] ELSE alert[k]
            change(k) == Promise!Change(seenAs(k), answer[j][k])
            content(k) == IF answer[j][k] = NoContent THEN alert[k].content ELSE answer[j][k]
<1>1. stale \in SUBSET Promise!Late /\ silent \in SUBSET (Promise!Late \ stale)
  BY DEF StaleFor, SilentFor
<1>2. /\ cursor < j /\ cursor' = j /\ Accepted' = answer[j]
      /\ answer[j] \in Answers
  BY CommitEffect DEF TypeOK
<1>3. \A k \in Keys : change(k) = SeenChange(j, k) /\ content(k) = SeenContent(j, k)
  BY DEF SeenChange, SeenContent, SeenBy
<1>4. alert' = [k \in Keys |-> Promise!Updated(alert[k], change(k), answer[j][k], j)]
  <2>1. alert' = [k \in Keys |-> alert'[k]]
    BY DEF CommitReconcile
  <2>2. \A k \in Keys : alert'[k] = Promise!Updated(alert[k], change(k), answer[j][k], j)
    BY <1>3, CommittedRow
  <2>. HIDE DEF change
  <2>. QED
    BY <2>1, <2>2
<1>5. events' = events \union
        UNION {Promise!Announcements(k, change(k), content(k), j) : k \in Keys \ silent}
  <2>. DEFINE all == UNION {Promise!Announcements(k, change(k), content(k), j) : k \in Keys \ silent}
  <2>0. phase[j] = "committing" /\ events' = events \union queued[j]
    BY DEF CommitReconcile
  <2>1. \A k \in Keys : k \notin silent =>
          Promise!Announcements(k, change(k), content(k), j) \subseteq queued[j]
    BY <1>3, <2>0, CommittedEvents
  <2>2. ASSUME NEW e \in queued[j] PROVE e \in all
    <3>1. e.key \in Keys
      BY DEF TypeOK, Events
    <3>2. PICK k \in Keys : k = e.key
      BY <3>1
    <3>3. k \notin silent /\ e \in Promise!Announcements(k, SeenChange(j, k), SeenContent(j, k), j)
      BY <2>0, <3>2, CommittedEvents
    <3>4. e \in Promise!Announcements(k, change(k), content(k), j)
      BY <1>3, <3>3
    <3>. HIDE DEF silent, change, content
    <3>. QED
      BY <3>3, <3>4
  <2>. HIDE DEF silent, change, content
  <2>3. all \subseteq queued[j]
    BY <2>1
  <2>4. all = queued[j]
    BY <2>2, <2>3
  <2>. QED
    BY <2>0, <2>4
<1>6. Promise!Accept(j, answer[j])
  <2>. HIDE DEF stale, silent
  <2>. QED
    BY <1>1, <1>2, <1>4, <1>5 DEF Promise!Accept
<1>. QED
  BY <1>2, <1>6 DEF Promise!Next, Answers, Jobs

(***************************************************************************)
(* The alerts implement AlertsPromise: locks, statements, roll-backs and   *)
(* answers out of order are invisible to who reads alerts and events; but  *)
(* for alerts acknowledged late, each answer is applied at one instant.    *)
(***************************************************************************)
THEOREM AppliedAtOneInstant == Spec => AppliedAtOnce
<1>1. Init => Promise!Init
  BY DEF Init, NoRows, NoAnswer, Accepted, Promise!Init
<1>2. AlertsInv /\ AnnounceInv /\ ExactInv /\ [Next]_vars =>
        [Promise!Next]_(Promise!promiseVars)
  <2>. SUFFICES ASSUME TypeOK, LockInv, DraftInv, AlertsFollowCursor, AnnounceInv, ExactInv,
                       [Next]_vars
                PROVE  Promise!Next \/ UNCHANGED <<alert, cursor, Accepted, events>>
    BY DEF AlertsInv, Promise!promiseVars
  <2>1. CASE \E j \in Jobs : CommitReconcile(j)
    BY <2>1, CommitAccepts
  <2>2. ASSUME NEW o \in Operators, Acknowledge(o), cursor' = cursor, Accepted' = Accepted
        PROVE  Promise!Next
    <3>1. PICK k \in Keys : k = seen[o]
      BY <2>2 DEF Acknowledge, TypeOK
    <3>2. alert[k] # NoAlert
      BY <2>2, <3>1 DEF LockInv, Acknowledge
    <3>3. Promise!Acknowledge(k)
      BY <2>2, <3>1, <3>2 DEF Acknowledge, Promise!Acknowledge
    <3>. QED
      BY <3>3 DEF Promise!Next
  <2>3. CASE UNCHANGED streamVars /\ cursor' = cursor /\ Accepted' = Accepted
    BY <2>3 DEF streamVars
  <2>4. \/ \E j \in Jobs : CommitReconcile(j)
        \/ \E o \in Operators : Acknowledge(o)
        \/ UNCHANGED streamVars
    BY DEF Next, vars, Answer, BeginReconcile, ApplyFinding, ListMissing, ResolveMissing,
           RollBack, ReadAlert
  <2>. QED
    BY <2>1, <2>2, <2>3, <2>4, AcceptedStep
<1>. QED
  BY <1>1, <1>2, Invariance, AnnounceInvariance, ExactInvariance, PTL
     DEF Spec, AppliedAtOnce, Promise!Spec

------------------------------------------------------------------------------
(***************************************************************************)
(* The steps that change a row: a commit, and an acknowledgement of it.    *)
(***************************************************************************)
LEMMA RowChange ==
  ASSUME [Next]_vars
  PROVE  \/ \E j \in Jobs : CommitReconcile(j)
         \/ \E o \in Operators : Acknowledge(o)
         \/ UNCHANGED alert
  BY DEF Next, vars, streamVars, Answer, BeginReconcile, ApplyFinding, ListMissing,
         ResolveMissing, RollBack, ReadAlert

LEMMA SeenStep ==
  TypeOK /\ LockInv /\ AcknowledgedUnderLock /\ SeenInv /\ [Next]_vars => SeenInv'
<1>. SUFFICES ASSUME TypeOK, LockInv, AcknowledgedUnderLock, SeenInv, [Next]_vars,
                     NEW o \in Operators, seen'[o] # NoKey
              PROVE  alert'[seen'[o]].status \in Unresolved
  BY DEF SeenInv
<1>1. CASE \E j \in Jobs : CommitReconcile(j)
  <2>1. seen[o] = NoKey
    BY <1>1 DEF CommitReconcile, AcknowledgedUnderLock, Reconciling
  <2>. QED
    BY <1>1, <2>1 DEF CommitReconcile
<1>2. ASSUME NEW a \in Operators, Acknowledge(a)
      PROVE  alert'[seen'[o]].status \in Unresolved
  <2>1. PICK k \in Keys : k = seen[o] /\ seen'[o] = k
    BY <1>2 DEF Acknowledge, TypeOK
  <2>2. alert[k].status \in Unresolved
    BY <2>1 DEF SeenInv
  <2>3. \/ alert'[k] = alert[k]
        \/ alert[k] \in Alerts /\ alert'[k] = [alert[k] EXCEPT !.status = "ACKNOWLEDGED"]
    BY <1>2, AcknowledgeEffect
  <2>. QED
    BY <2>1, <2>2, <2>3 DEF Alerts, Unresolved
<1>3. CASE UNCHANGED alert
  <2>1. CASE seen'[o] = seen[o]
    BY <1>3, <2>1 DEF SeenInv
  <2>2. CASE \E k \in Keys : ReadAlert(o, k)
    BY <1>3, <2>2 DEF ReadAlert, TypeOK, Unresolved
  <2>3. seen'[o] = seen[o] \/ \E k \in Keys : ReadAlert(o, k)
    BY DEF Next, vars, TypeOK, Answer, BeginReconcile, ApplyFinding, ListMissing,
           ResolveMissing, CommitReconcile, RollBack, ReadAlert, Acknowledge
  <2>. QED
    BY <2>1, <2>2, <2>3
<1>. QED
  BY <1>1, <1>2, <1>3, RowChange

(***************************************************************************)
(* An alert that the accepted answer does not have was unresolved when a   *)
(* reconciliation read it only if that reconciliation resolves it.         *)
(***************************************************************************)
LEMMA LateStep ==
  AlertsInv /\ AnnounceInv /\ SeenInv /\ NoneLate /\ [Next]_vars => NoneLate'
<1>. SUFFICES ASSUME TypeOK, LockInv, DraftInv, AlertsFollowCursor, AnnounceInv, SeenInv,
                     NoneLate, [Next]_vars, NEW k \in Keys,
                     Accepted'[k] = NoContent, alert'[k] # NoAlert,
                     alert'[k].status = "ACKNOWLEDGED"
              PROVE  FALSE
  BY DEF AlertsInv, NoneLate, Promise!Late
<1>0. ~(Accepted[k] = NoContent /\ alert[k] # NoAlert /\ alert[k].status = "ACKNOWLEDGED")
  BY DEF NoneLate, Promise!Late
<1>1. ASSUME NEW j \in Jobs, CommitReconcile(j) PROVE FALSE
  <2>1. answer[j][k] = NoContent /\ phase[j] = "committing"
    BY <1>1, CommitEffect DEF CommitReconcile
  <2>2. /\ SameButAcknowledged(existing[j][k], alert[k])
        /\ Accepted[k] # NoContent => existing[j][k].status \in Unresolved
        /\ DraftOf(j, k)
        /\ Announced(j, k)
    BY <2>1 DEF DraftInv, AnnounceInv, Reconciling
  <2>3. draft[j][k] = NoAlert /\ alert'[k] = alert[k]
    BY <1>1, <2>1, <2>2, CommitEffect DEF DraftOf
  <2>4. Accepted[k] # NoContent
    BY <1>0, <2>3
  <2>5. existing[j][k] # NoAlert
    BY <2>2, <2>3 DEF SameButAcknowledged
  <2>. QED
    BY <2>1, <2>2, <2>3, <2>4, <2>5 DEF Announced, Vanishes
<1>2. ASSUME NEW o \in Operators, Acknowledge(o), Accepted' = Accepted PROVE FALSE
  <2>1. PICK i \in Keys : i = seen[o] /\ alert' = [alert EXCEPT ![i].status = "ACKNOWLEDGED"]
    BY <1>2 DEF Acknowledge, TypeOK
  <2>2. i = k
    BY <1>0, <1>2, <2>1 DEF TypeOK, Rows
  <2>3. alert[k] # NoAlert /\ alert[k].status = "OPEN"
    BY <1>0, <1>2, <2>1, <2>2 DEF SeenInv, LockInv, Acknowledge, Unresolved
  <2>. QED
    BY <1>2, <2>3 DEF AlertsFollowCursor
<1>3. CASE UNCHANGED alert /\ Accepted' = Accepted
  BY <1>0, <1>3
<1>. QED
  BY <1>1, <1>2, <1>3, RowChange, AcceptedStep

(***************************************************************************)
(* Taking the stream's lock is all an acknowledgement needs: a resolved    *)
(* alert is then never acknowledged, and no alert stands acknowledged that *)
(* the accepted answer no longer has, so that by AppliedAtOneInstant every *)
(* answer is applied to the alerts exactly as they are and every change is *)
(* announced.                                                              *)
(***************************************************************************)
THEOREM LockedAcknowledgementsAreFinal ==
  Spec /\ []AcknowledgedUnderLock => ResolvedIsFinalForOperators /\ []NoneLate
<1>. DEFINE Final ==
       \A k \in Keys :
         alert[k] # NoAlert /\ alert[k].status = "RESOLVED" =>
           alert'[k].status # "ACKNOWLEDGED"
<1>1. Init => SeenInv /\ NoneLate
  BY DEF Init, SeenInv, NoneLate, NoRows, Promise!Late
<1>2. AlertsInv /\ AcknowledgedUnderLock /\ SeenInv /\ [Next]_vars => SeenInv'
  BY SeenStep DEF AlertsInv
<1>3. AlertsInv /\ ExactInv /\ SeenInv /\ [Next]_vars => [Final]_vars
  <2>. SUFFICES ASSUME TypeOK, LockInv, DraftInv, ExactInv, SeenInv, [Next]_vars, NEW k \in Keys,
                       alert[k] # NoAlert, alert[k].status = "RESOLVED"
                PROVE  alert'[k].status # "ACKNOWLEDGED"
    BY DEF AlertsInv
  <2>1. ASSUME NEW j \in Jobs, CommitReconcile(j) PROVE alert'[k].status # "ACKNOWLEDGED"
    <3>1. phase[j] = "committing" /\ alert'[k] = IF draft[j][k] = NoAlert THEN alert[k]
                                                  ELSE draft[j][k]
      BY <2>1, CommitEffect DEF CommitReconcile
    <3>2. DraftOf(j, k) /\ Exact(j, k)
      BY <3>1 DEF DraftInv, ExactInv, Reconciling
    <3>3. CASE answer[j][k] = NoContent
      BY <3>1, <3>2, <3>3 DEF DraftOf
    <3>4. CASE answer[j][k] # NoContent
      <4>1. /\ SameButAcknowledged(existing[j][k], alert[k])
            /\ existing[j][k] \in Alerts \union {NoAlert} /\ answer[j][k] \in Contents
        BY <3>1, <3>4 DEF DraftInv, Reconciling, TypeOK, Rows, Answers
      <4>2. ChangeOf(existing[j][k], answer[j][k]) = "REOPENED" \/ draft[j][k] = NoAlert
        BY <3>2, <3>4, <4>1 DEF DraftOf, SameButAcknowledged, Alerts, ChangeOf, Unresolved
      <4>. QED
        BY <3>1, <3>2, <3>4, <4>2 DEF Exact
    <3>. QED
      BY <3>3, <3>4
  <2>2. ASSUME NEW o \in Operators, Acknowledge(o) PROVE alert'[k].status # "ACKNOWLEDGED"
    <3>1. PICK i \in Keys : i = seen[o] /\ alert' = [alert EXCEPT ![i].status = "ACKNOWLEDGED"]
      BY <2>2 DEF Acknowledge, TypeOK
    <3>2. i # k
      BY <2>2, <3>1 DEF SeenInv, Acknowledge, Unresolved
    <3>. QED
      BY <3>1, <3>2 DEF TypeOK, Rows
  <2>. QED
    BY <2>1, <2>2, RowChange
<1>. QED
  BY <1>1, <1>2, <1>3, LateStep, Invariance, AnnounceInvariance,
     ExactInvariance, PTL
     DEF Spec, ResolvedIsFinalForOperators

================================================================================
