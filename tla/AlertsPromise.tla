----------------------------- MODULE AlertsPromise -----------------------------
(***************************************************************************)
(* What the alerts of one stream promise to those who read them, without   *)
(* locks, statements and drafts: an answer of the provider is accepted at  *)
(* one instant.  At that instant it is compared with the alerts as they    *)
(* stand, acknowledgements included; every alert is brought up to date;    *)
(* and what has changed is announced, once and nothing else.  EcacAlerts   *)
(* implements it, with transactions of many statements at READ COMMITTED.  *)
(*                                                                         *)
(* The one blemish is an alert acknowledged after it was resolved.  An     *)
(* acceptance may still take it for resolved, or resolve it again without  *)
(* announcing that.                                                        *)
(***************************************************************************)
EXTENDS Integers

CONSTANTS
  Keys, Contents,        \* findings: what they are about, what they say
  LastJob,               \* jobs, in their order, are 1 .. LastJob
  Users,
  Severity, MinimumSeverity, IncludeResolved,   \* what users want to hear of
  NoContent, NoAlert

VARIABLES
  alert,      \* alert[k]: the row of finding k
  cursor,     \* the job whose answer is accepted, 0 for none
  accepted,   \* the accepted answer
  events      \* the announcements made

promiseVars == <<alert, cursor, accepted, events>>

Init ==
  /\ alert = [k \in Keys |-> NoAlert]
  /\ cursor = 0
  /\ accepted = [k \in Keys |-> NoContent]
  /\ events = {}

(***************************************************************************)
(* What a finding, or its absence, means for an alert.                     *)
(***************************************************************************)
Resolved(row) == row # NoAlert /\ row.status = "RESOLVED"

Change(row, content) ==
  IF content = NoContent
  THEN IF row = NoAlert \/ Resolved(row) THEN "none" ELSE "RESOLVED"
  ELSE IF row = NoAlert THEN "NEW"
  ELSE IF Resolved(row) THEN "REOPENED"
  ELSE IF row.content # content THEN "CHANGED" ELSE "none"

Updated(row, change, content, j) ==
  IF change = "none" THEN IF content = NoContent THEN row ELSE [row EXCEPT !.latestJob = j]
  ELSE IF change = "RESOLVED"
  THEN [row EXCEPT !.status = "RESOLVED", !.change = "RESOLVED", !.latestJob = j]
  ELSE [status |-> "OPEN", content |-> content, change |-> change, latestJob |-> j]

(***************************************************************************)
(* Those who hear of a change of an alert that says content.               *)
(***************************************************************************)
Audience(change, content) ==
  {u \in Users : /\ Severity[content] >= MinimumSeverity[u]
                 /\ change = "RESOLVED" => IncludeResolved[u]}

Announcements(k, change, content, j) ==
  IF change = "none" THEN {}
  ELSE {[key |-> k, user |-> u, change |-> change, job |-> j] : u \in Audience(change, content)}

(***************************************************************************)
(* The alerts acknowledged after they were resolved.                       *)
(***************************************************************************)
Late ==
  {k \in Keys : accepted[k] = NoContent /\ alert[k] # NoAlert /\ alert[k].status = "ACKNOWLEDGED"}

Accept(j, findings) ==
  \E stale \in SUBSET Late : \E silent \in SUBSET (Late \ stale) :
    LET seen(k) == IF k \in stale THEN [alert[k] EXCEPT !.status = "RESOLVED"] ELSE alert[k]
        change(k) == Change(seen(k), findings[k])
        content(k) == IF findings[k] = NoContent THEN alert[k].content ELSE findings[k]
    IN  /\ cursor < j
        /\ cursor' = j
        /\ accepted' = findings
        /\ alert' = [k \in Keys |-> Updated(alert[k], change(k), findings[k], j)]
        /\ events' = events \union
             UNION {Announcements(k, change(k), content(k), j) : k \in Keys \ silent}

Acknowledge(k) ==
  /\ alert[k] # NoAlert
  /\ alert' = [alert EXCEPT ![k].status = "ACKNOWLEDGED"]
  /\ UNCHANGED <<cursor, accepted, events>>

Next ==
  \/ \E j \in 1 .. LastJob, findings \in [Keys -> Contents \union {NoContent}] : Accept(j, findings)
  \/ \E k \in Keys : Acknowledge(k)

Spec == Init /\ [][Next]_promiseVars

================================================================================
