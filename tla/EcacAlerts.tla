------------------------------ MODULE EcacAlerts ------------------------------
(***************************************************************************)
(* The alerts of one stream (tenant, company, query type): the completion  *)
(* of a sync job reconciles them with the findings the provider answered,  *)
(* while operators acknowledge them.                                       *)
(*                                                                         *)
(* A reconciliation runs inside the transaction that completes the job,    *)
(* under the stream's advisory lock, statement by statement at READ        *)
(* COMMITTED: its writes are kept in a draft until it commits, and what it *)
(* reads is what is committed when the statement runs.  An acknowledgement *)
(* takes no such lock: it reads the row and then updates it.               *)
(*                                                                         *)
(* A job is named by its observationOrder, the sequence number it gets     *)
(* when it is created.  That it completes at most once is EcacQueue's.     *)
(***************************************************************************)
EXTENDS Integers

CONSTANTS
  Keys,             \* findingKeys
  Contents,         \* contentHashes
  Severity,         \* Severity[c]: severityRank of a content, 0 .. 2
  LastJob,          \* the jobs of the stream are 1 .. LastJob
  Users,            \* users with an enabled notification preference
  MinimumSeverity,  \* their minimumSeverity, 0 .. 2
  IncludeResolved,  \* their includeResolved
  Operators,        \* requests that acknowledge an alert
  MaxRollBacks,     \* bound of the model on transactions rolled back
  NoContent,        \* "the answer has no finding with this key"
  NoAlert,          \* "no row"
  NoKey             \* "no acknowledgement under way"

Jobs == 1 .. LastJob

ASSUME AlertsAssumption ==
  /\ Severity \in [Contents -> 0 .. 2]
  /\ LastJob \in Nat
  /\ MinimumSeverity \in [Users -> 0 .. 2]
  /\ IncludeResolved \in [Users -> BOOLEAN]
  /\ MaxRollBacks \in Nat
  /\ NoContent \notin Contents
  /\ NoKey \notin Keys

Statuses == {"OPEN", "ACKNOWLEDGED", "RESOLVED"}
Changes == {"NEW", "CHANGED", "REOPENED", "RESOLVED"}

Answers == [Keys -> Contents \union {NoContent}]
Alerts == [status : Statuses, content : Contents, change : Changes, latestJob : Jobs]
Rows == [Keys -> Alerts \union {NoAlert}]
Events == [key : Keys, user : Users, change : Changes, job : Jobs]

ASSUME NoAlertAssumption == NoAlert \notin Alerts

VARIABLES
  \* committed rows of the stream
  alert,        \* alert[k]: the row with finding key k
  cursor,       \* latestObservationOrder, 0 before the first reconciliation
  events,       \* notification events queued so far
  \* jobs and the transaction that completes each
  phase,        \* where job j is
  answer,       \* answer[j]: the findings the provider answered
  existing,     \* existing[j]: the rows read at the start (existingByKey)
  draft,        \* draft[j]: the rows written so far
  missing,      \* missing[j]: the alerts listed as to be resolved
  queued,       \* queued[j]: the events inserted so far
  \* acknowledgements
  seen,         \* seen[o]: the alert operator o has read as OPEN
  rollBacks     \* transactions rolled back so far

streamVars == <<alert, cursor, events>>
jobVars == <<phase, answer, existing, draft, missing, queued>>
vars == <<streamVars, jobVars, seen, rollBacks>>

Phases == {"queued", "answered", "applying", "resolving", "committing", "done"}
Reconciling == {"applying", "resolving", "committing"}

NoRows == [k \in Keys |-> NoAlert]
NoAnswer == [k \in Keys |-> NoContent]

TypeOK ==
  /\ alert \in Rows
  /\ cursor \in Jobs \union {0}
  /\ events \in SUBSET Events
  /\ phase \in [Jobs -> Phases]
  /\ answer \in [Jobs -> Answers]
  /\ existing \in [Jobs -> Rows]
  /\ draft \in [Jobs -> Rows]
  /\ missing \in [Jobs -> SUBSET Keys]
  /\ queued \in [Jobs -> SUBSET Events]
  /\ seen \in [Operators -> Keys \union {NoKey}]
  /\ rollBacks \in Nat

Init ==
  /\ alert = NoRows
  /\ cursor = 0
  /\ events = {}
  /\ phase = [j \in Jobs |-> "queued"]
  /\ answer = [j \in Jobs |-> NoAnswer]
  /\ existing = [j \in Jobs |-> NoRows]
  /\ draft = [j \in Jobs |-> NoRows]
  /\ missing = [j \in Jobs |-> {}]
  /\ queued = [j \in Jobs |-> {}]
  /\ seen = [o \in Operators |-> NoKey]
  /\ rollBacks = 0

------------------------------------------------------------------------------
(***************************************************************************)
(* The provider answers the query of job j with some findings.  Jobs are   *)
(* queried in any order: retries and several processors reorder them.      *)
(***************************************************************************)
Answer(j) ==
  /\ phase[j] = "queued"
  /\ \E findings \in Answers : answer' = [answer EXCEPT ![j] = findings]
  /\ phase' = [phase EXCEPT ![j] = "answered"]
  /\ UNCHANGED <<streamVars, existing, draft, missing, queued, seen, rollBacks>>

(***************************************************************************)
(* acquireEcacStreamLock waits for the stream's lock, held to the end of   *)
(* the transaction that took it.                                           *)
(***************************************************************************)
StreamLocked_Never == FALSE

StreamLocked == \E i \in Jobs : phase[i] \in Reconciling

(***************************************************************************)
(* Under the lock the cursor decides.  An observation not newer than the   *)
(* cursor's completes its job and leaves the alerts alone; otherwise the   *)
(* existing alerts are read.                                               *)
(***************************************************************************)
Stale(j) == cursor >= j

BeginReconcile(j) ==
  /\ phase[j] = "answered"
  /\ ~StreamLocked
  /\ \/ /\ Stale(j)
        /\ phase' = [phase EXCEPT ![j] = "done"]
        /\ UNCHANGED existing
     \/ /\ ~Stale(j)
        /\ phase' = [phase EXCEPT ![j] = "applying"]
        /\ existing' = [existing EXCEPT ![j] = alert]
  /\ UNCHANGED <<streamVars, answer, draft, missing, queued, seen, rollBacks>>

(***************************************************************************)
(* queueAlertNotifications: one event for each user whose preference       *)
(* accepts the change.                                                     *)
(***************************************************************************)
Accepts(u, change, content) ==
  /\ change = "RESOLVED" => IncludeResolved[u]
  /\ Severity[content] >= MinimumSeverity[u]

EventsOf(k, change, content, j) ==
  {[key |-> k, user |-> u, change |-> change, job |-> j] :
     u \in {v \in Users : Accepts(v, change, content)}}

(***************************************************************************)
(* One finding of the answer against the row read at the start: created,   *)
(* reopened, changed, or only observed again.  The last leaves the status  *)
(* as it is in the database by now; the others are announced.              *)
(***************************************************************************)
ChangeOf_KeepsResolved(row, content) ==
  CASE row = NoAlert -> "NEW"
    [] row # NoAlert /\ row.content # content -> "CHANGED"
    [] OTHER -> "none"

ChangeOf_Unchanged(row, content) ==
  CASE row = NoAlert -> "NEW"
    [] row # NoAlert /\ row.status = "RESOLVED" -> "REOPENED"
    [] row # NoAlert /\ row.status # "RESOLVED" /\ row.content # content -> "CHANGED"
    [] OTHER -> "UNCHANGED"

ChangeOf(row, content) ==
  CASE row = NoAlert -> "NEW"
    [] row # NoAlert /\ row.status = "RESOLVED" -> "REOPENED"
    [] row # NoAlert /\ row.status # "RESOLVED" /\ row.content # content -> "CHANGED"
    [] OTHER -> "none"

Observed_FromExisting(j, k) == [existing[j][k] EXCEPT !.latestJob = j]

Observed(j, k) == [alert[k] EXCEPT !.latestJob = j]

ApplyFinding(j, k) ==
  LET content == answer[j][k]
      change == ChangeOf(existing[j][k], content)
  IN  /\ phase[j] = "applying"
      /\ content # NoContent
      /\ draft[j][k] = NoAlert
      /\ \/ /\ change = "none"
            /\ draft' = [draft EXCEPT ![j][k] = Observed(j, k)]
            /\ UNCHANGED queued
         \/ /\ change # "none"
            /\ draft' = [draft EXCEPT ![j][k] =
                 [status |-> "OPEN", content |-> content, change |-> change, latestJob |-> j]]
            /\ queued' = [queued EXCEPT ![j] = @ \union EventsOf(k, change, content, j)]
      /\ UNCHANGED <<streamVars, phase, answer, existing, missing, seen, rollBacks>>

(***************************************************************************)
(* The alerts the answer no longer has, as the database shows them now.    *)
(***************************************************************************)
Unresolved == {"OPEN", "ACKNOWLEDGED"}

Gone(j) ==
  {k \in Keys : answer[j][k] = NoContent /\ alert[k] # NoAlert /\ alert[k].status \in Unresolved}

(***************************************************************************)
(* The findMany of alertsToResolve, once every finding has been applied.   *)
(***************************************************************************)
ListMissing(j) ==
  /\ phase[j] = "applying"
  /\ \A k \in Keys : answer[j][k] # NoContent => draft[j][k] # NoAlert
  /\ missing' = [missing EXCEPT ![j] = Gone(j)]
  /\ phase' = [phase EXCEPT ![j] = "resolving"]
  /\ UNCHANGED <<streamVars, answer, existing, draft, queued, seen, rollBacks>>

(***************************************************************************)
(* The updateMany that resolves them evaluates its condition anew; the     *)
(* events are those of the alerts listed before.                           *)
(***************************************************************************)
ResolveMissing(j) ==
  /\ phase[j] = "resolving"
  /\ draft' = [draft EXCEPT ![j] = [k \in Keys |->
       IF k \in Gone(j)
       THEN [alert[k] EXCEPT !.status = "RESOLVED", !.change = "RESOLVED", !.latestJob = j]
       ELSE draft[j][k]]]
  /\ queued' = [queued EXCEPT ![j] = @ \union
       UNION {EventsOf(k, "RESOLVED", alert[k].content, j) : k \in missing[j]}]
  /\ phase' = [phase EXCEPT ![j] = "committing"]
  /\ UNCHANGED <<streamVars, answer, existing, missing, seen, rollBacks>>

Forget(j) ==
  /\ existing' = [existing EXCEPT ![j] = NoRows]
  /\ draft' = [draft EXCEPT ![j] = NoRows]
  /\ missing' = [missing EXCEPT ![j] = {}]
  /\ queued' = [queued EXCEPT ![j] = {}]

(***************************************************************************)
(* The cursor is written and the transaction commits.                      *)
(***************************************************************************)
CommitReconcile(j) ==
  /\ phase[j] = "committing"
  /\ alert' = [k \in Keys |-> IF draft[j][k] = NoAlert THEN alert[k] ELSE draft[j][k]]
  /\ events' = events \union queued[j]
  /\ cursor' = j
  /\ phase' = [phase EXCEPT ![j] = "done"]
  /\ Forget(j)
  /\ UNCHANGED <<answer, seen, rollBacks>>

(***************************************************************************)
(* The transaction fails: nothing of it is kept, and the job is queried    *)
(* again when it is retried.                                               *)
(***************************************************************************)
RollBack(j) ==
  /\ phase[j] \in Reconciling
  /\ rollBacks < MaxRollBacks
  /\ rollBacks' = rollBacks + 1
  /\ phase' = [phase EXCEPT ![j] = "queued"]
  /\ answer' = [answer EXCEPT ![j] = NoAnswer]
  /\ Forget(j)
  /\ UNCHANGED <<streamVars, seen>>

------------------------------------------------------------------------------
(***************************************************************************)
(* acknowledgeAlertWithAudit: the alert is read, and refused or returned   *)
(* as it is unless OPEN; then its row is updated by id alone, waiting for  *)
(* a reconciliation that has written it.                                   *)
(***************************************************************************)
ReadAlert(o, k) ==
  /\ seen[o] = NoKey
  /\ alert[k] # NoAlert
  /\ alert[k].status = "OPEN"
  /\ seen' = [seen EXCEPT ![o] = k]
  /\ UNCHANGED <<streamVars, jobVars, rollBacks>>

RowLocked(k) == \E j \in Jobs : phase[j] \in Reconciling /\ draft[j][k] # NoAlert

Acknowledge(o) ==
  LET k == seen[o]
  IN  /\ k # NoKey
      /\ ~RowLocked(k)
      /\ alert' = [alert EXCEPT ![k].status = "ACKNOWLEDGED"]
      /\ seen' = [seen EXCEPT ![o] = NoKey]
      /\ UNCHANGED <<cursor, events, jobVars, rollBacks>>

------------------------------------------------------------------------------
Next ==
  \/ \E j \in Jobs :
       \/ Answer(j)
       \/ BeginReconcile(j)
       \/ \E k \in Keys : ApplyFinding(j, k)
       \/ ListMissing(j)
       \/ ResolveMissing(j)
       \/ CommitReconcile(j)
       \/ RollBack(j)
  \/ \E o \in Operators :
       \/ \E k \in Keys : ReadAlert(o, k)
       \/ Acknowledge(o)

Spec == Init /\ [][Next]_vars

------------------------------------------------------------------------------
(* Properties *)

(***************************************************************************)
(* The findings last accepted: those of the cursor's job.                  *)
(***************************************************************************)
Accepted == IF cursor = 0 THEN NoAnswer ELSE answer[cursor]

(***************************************************************************)
(* The alerts follow the accepted answer, whole reconciliations at a time: *)
(* every finding of it has an unresolved alert with its content, last seen *)
(* by the cursor's job; every other alert is resolved, or acknowledged     *)
(* (see ResolvedIsFinalForOperators for why not simply resolved); and no   *)
(* alert was written by a job newer than the cursor's.                     *)
(***************************************************************************)
AlertsFollowCursor ==
  \A k \in Keys :
    /\ Accepted[k] # NoContent =>
         /\ alert[k] # NoAlert
         /\ alert[k].status \in Unresolved
         /\ alert[k].content = Accepted[k]
         /\ alert[k].latestJob = cursor
    /\ Accepted[k] = NoContent /\ alert[k] # NoAlert =>
         /\ alert[k].status # "OPEN"
         /\ alert[k].latestJob <= cursor

(***************************************************************************)
(* A finding that appears, changes or vanishes between two accepted        *)
(* answers is recorded on its alert as that change and announced to every  *)
(* user whose preference accepts it, by the transaction that accepts the   *)
(* answer.  The exception is an alert an operator acknowledged after it    *)
(* was resolved: the next reconciliation takes it for an open one.         *)
(***************************************************************************)
Transition(k) ==
  CASE Accepted'[k] = NoContent -> "RESOLVED"
    [] Accepted'[k] # NoContent /\ Accepted[k] # NoContent -> "CHANGED"
    [] Accepted'[k] # NoContent /\ Accepted[k] = NoContent /\ alert[k] # NoAlert -> "REOPENED"
    [] OTHER -> "NEW"

AcknowledgedLate(k) ==
  Accepted[k] = NoContent /\ alert[k] # NoAlert /\ alert[k].status = "ACKNOWLEDGED"

ChangesAnnounced ==
  [][\A k \in Keys :
       cursor' # cursor /\ Accepted'[k] # Accepted[k] /\ ~AcknowledgedLate(k) =>
         /\ alert'[k].change = Transition(k)
         /\ \A u \in Users : Accepts(u, Transition(k), alert'[k].content) =>
              [key |-> k, user |-> u, change |-> Transition(k), job |-> cursor'] \in events']_vars

(***************************************************************************)
(* The cursor never goes back to an older job, although each transaction   *)
(* decides on the cursor it read steps before it writes it.                *)
(***************************************************************************)
CursorNeverRetreats == [][cursor' >= cursor]_vars

(***************************************************************************)
(* An acknowledgement survives every reconciliation that finds the same    *)
(* content, also when it commits while the reconciliation runs.            *)
(***************************************************************************)
AcknowledgementSurvives ==
  [][\A k \in Keys :
       /\ alert[k] # NoAlert
       /\ alert[k].status = "ACKNOWLEDGED"
       /\ Accepted[k] # NoContent
       /\ Accepted'[k] = Accepted[k]
       => alert'[k].status = "ACKNOWLEDGED"]_vars

(***************************************************************************)
(* "Um alerta resolvido não pode ser reconhecido."  acknowledgeAlert-      *)
(* WithAudit checks it on the row it read, not on the row it updates.      *)
(***************************************************************************)
ResolvedIsFinalForOperators ==
  [][\A k \in Keys :
       alert[k] # NoAlert /\ alert[k].status = "RESOLVED" =>
         alert'[k].status # "ACKNOWLEDGED"]_vars

(***************************************************************************)
(* A reconciliation, its many statements at READ COMMITTED and the         *)
(* acknowledgements between them, comes to the same as if its answer had   *)
(* been applied, and its changes announced, at the instant it commits.     *)
(***************************************************************************)
Promise == INSTANCE AlertsPromise WITH accepted <- Accepted

AppliedAtOnce == Promise!Spec

------------------------------------------------------------------------------
(* Strengthenings the proofs of EcacAlertsProofs use *)

(***************************************************************************)
(* The advisory lock excludes, the cursor stays behind the job that holds  *)
(* it, the cursor's answer is final, and no row is ever deleted.           *)
(***************************************************************************)
LockInv ==
  /\ \A i, j \in Jobs : phase[i] \in Reconciling /\ phase[j] \in Reconciling => i = j
  /\ \A j \in Jobs : phase[j] \in Reconciling => cursor < j
  /\ cursor # 0 => phase[cursor] = "done"
  /\ \A o \in Operators : seen[o] # NoKey => alert[seen[o]] # NoAlert

(***************************************************************************)
(* What may have become of a row while a reconciliation holds the lock.    *)
(***************************************************************************)
SameButAcknowledged(row, now) ==
  \/ now = row
  \/ row # NoAlert /\ now = [row EXCEPT !.status = "ACKNOWLEDGED"]

(***************************************************************************)
(* The draft of the reconciliation under way is a partial image of its     *)
(* answer, and a row it has observed again is still as on disk.            *)
(***************************************************************************)
DraftOf(j, k) ==
  draft[j][k] # NoAlert =>
    /\ draft[j][k].latestJob = j
    /\ answer[j][k] # NoContent =>
         /\ draft[j][k].status \in Unresolved
         /\ draft[j][k].content = answer[j][k]
         /\ ChangeOf(existing[j][k], answer[j][k]) = "none" =>
              draft[j][k].status = alert[k].status
    /\ answer[j][k] = NoContent =>
         phase[j] = "committing" /\ draft[j][k].status = "RESOLVED"

Covered(j, k) ==
  /\ phase[j] \in {"resolving", "committing"} /\ answer[j][k] # NoContent =>
       draft[j][k] # NoAlert
  /\ phase[j] = "committing" /\ answer[j][k] = NoContent
       /\ draft[j][k] = NoAlert /\ alert[k] # NoAlert => alert[k].status # "OPEN"

DraftInv ==
  \A j \in Jobs, k \in Keys :
    /\ phase[j] \notin Reconciling => draft[j][k] = NoAlert
    /\ phase[j] \in Reconciling =>
         /\ SameButAcknowledged(existing[j][k], alert[k])
         /\ Accepted[k] # NoContent => existing[j][k].status \in Unresolved
         /\ DraftOf(j, k)
         /\ Covered(j, k)

(***************************************************************************)
(* What the reconciliation under way has queued is what its draft records: *)
(* each finding it has written differently from the row it read, and each  *)
(* alert that was unresolved then and that the answer no longer has.  An   *)
(* acknowledgement in between leaves such an alert unresolved, so that the *)
(* list and the update, which look at the rows at different times, agree   *)
(* on it.                                                                  *)
(***************************************************************************)
Vanishes(j, k) ==
  answer[j][k] = NoContent /\ existing[j][k] # NoAlert /\ existing[j][k].status \in Unresolved

Announced(j, k) ==
  /\ LET change == ChangeOf(existing[j][k], answer[j][k]) IN
     draft[j][k] # NoAlert /\ answer[j][k] # NoContent /\ change # "none" =>
       /\ draft[j][k].change = change
       /\ EventsOf(k, change, answer[j][k], j) \subseteq queued[j]
  /\ Vanishes(j, k) /\ phase[j] = "resolving" => k \in missing[j]
  /\ Vanishes(j, k) /\ phase[j] = "committing" =>
       /\ draft[j][k] # NoAlert
       /\ draft[j][k].change = "RESOLVED"
       /\ draft[j][k].content = existing[j][k].content
       /\ EventsOf(k, "RESOLVED", existing[j][k].content, j) \subseteq queued[j]

AnnounceInv == \A j \in Jobs, k \in Keys : phase[j] \in Reconciling => Announced(j, k)

(***************************************************************************)
(* The other half: the draft holds nothing but what the answer makes of    *)
(* the rows as they still are, and what is queued or listed as missing is  *)
(* accounted for by the draft.                                             *)
(***************************************************************************)
Exact(j, k) ==
  LET content == answer[j][k]
      change == ChangeOf(existing[j][k], content)
  IN
  /\ draft[j][k] # NoAlert =>
       \/ /\ content = NoContent
          /\ alert[k] # NoAlert /\ alert[k].status \in Unresolved
          /\ draft[j][k] = [alert[k] EXCEPT !.status = "RESOLVED", !.change = "RESOLVED",
                                            !.latestJob = j]
       \/ content # NoContent /\ change = "none" /\ draft[j][k] = Observed(j, k)
       \/ /\ content # NoContent /\ change # "none"
          /\ draft[j][k] = [status |-> "OPEN", content |-> content, change |-> change,
                            latestJob |-> j]
  /\ k \in missing[j] =>
       /\ phase[j] \in {"resolving", "committing"}
       /\ content = NoContent /\ alert[k] # NoAlert /\ alert[k].status \in Unresolved
       /\ phase[j] = "committing" =>
            /\ draft[j][k] # NoAlert
            /\ EventsOf(k, "RESOLVED", alert[k].content, j) \subseteq queued[j]
  /\ \A e \in queued[j] : e.key = k =>
       /\ draft[j][k] # NoAlert
       /\ \/ /\ content = NoContent /\ k \in missing[j] /\ phase[j] = "committing"
             /\ e \in EventsOf(k, "RESOLVED", alert[k].content, j)
          \/ content # NoContent /\ change # "none" /\ e \in EventsOf(k, change, content, j)

ExactInv ==
  \A j \in Jobs, k \in Keys :
    IF phase[j] \in Reconciling THEN Exact(j, k) ELSE missing[j] = {} /\ queued[j] = {}

------------------------------------------------------------------------------
(* What would repair ResolvedIsFinalForOperators *)

(***************************************************************************)
(* That an acknowledgement takes the stream's lock before it reads the     *)
(* row, as a reconciliation does: none is then under way while one of them *)
(* is between its read and its update.                                     *)
(***************************************************************************)
AcknowledgedUnderLock ==
  \A o \in Operators, j \in Jobs : seen[o] # NoKey => phase[j] \notin Reconciling

(***************************************************************************)
(* An operator then always updates a row that is still unresolved, and no  *)
(* alert is acknowledged late: the blemish of AlertsPromise is gone.       *)
(***************************************************************************)
SeenInv == \A o \in Operators : seen[o] # NoKey => alert[seen[o]].status \in Unresolved

NoneLate == Promise!Late = {}

==============================================================================
