------------------------------ MODULE Authorities ------------------------------
(***************************************************************************)
(* Who may query for a company, and what stands on it: responsibles and    *)
(* their powers of attorney, expiration alerts, and the batches of queries *)
(* that are created and claimed under a power and its certificate.         *)
(*                                                                         *)
(* The transactions run at READ COMMITTED: a check and the write it allows *)
(* are statements apart, and only what a unique index of the schema        *)
(* refuses is refused at the write.                                        *)
(***************************************************************************)
EXTENDS Integers, FiniteSets, FiniteSetsExt

CONSTANTS
  Calls,          \* requests the service serves at the same time
  Companies,
  Responsibles,
  Powers,         \* powers of attorney
  Certificates,
  NoCertificate,  \* a power may be registered without one
  CompanyOf,      \* of each responsible and power
  Scope,          \* certificate_company_scopes, as certificate/company pairs
  Window,         \* validity of each certificate, in ticks
  Periods,        \* validity a power may be asked for, in ticks
  RequestKeys,    \* idempotency keys
  Thresholds,     \* days before the end at which an alert is due
  Day,            \* ticks of a day
  LastTick,       \* bound of the model on time
  MaxOperations   \* bound of the model on requests

Spans == [from : Int, until : Int]

ASSUME AuthoritiesAssumption ==
  /\ CompanyOf \in [Responsibles \union Powers -> Companies]
  /\ NoCertificate \notin Certificates
  /\ Scope \subseteq Certificates \X Companies
  /\ Window \in [Certificates -> Spans]
  /\ Periods \subseteq Spans
  /\ Thresholds # {} /\ Thresholds \subseteq Nat \ {0} /\ IsFiniteSet(Thresholds)
  /\ Day \in Nat \ {0}
  /\ LastTick \in Nat
  /\ MaxOperations \in Nat

VARIABLES
  now,
  responsible,   \* company_responsibles: status
  power,         \* powers_of_attorney
  certificate,   \* digital_certificates: status
  alerts,        \* credential_alerts, by their unique index
  acknowledged,  \* those an operator has acknowledged
  batch,         \* ecac_sync_batches: the powers asked for ({} when absent)
  job,           \* ecac_sync_jobs
  call,          \* what each request has read so far
  \* history
  overlapped,    \* powers whose creation overlapped their responsible's deactivation
  lastScan,      \* the time of the latest scan that has ended
  answered,      \* batches answered to requests
  refused,       \* requests refused because the key was used with other content
  operations     \* requests served

authorityVars == <<responsible, power, certificate>>
alertVars == <<alerts, acknowledged, lastScan>>
syncVars == <<batch, job, answered, refused>>
vars == <<now, authorityVars, alertVars, syncVars, call, overlapped, operations>>

Absent == [status |-> "ABSENT"]
Idle == [step |-> "idle"]
Sources == Powers \union Certificates
Jobs == RequestKeys \X Powers
Contents == (SUBSET Powers) \ {{}}
AlertKeys == [source : Sources, threshold : Thresholds \union {0}, dueAt : Int]

PowerRows ==
  [status : {"ACTIVE", "REVOKED"}, responsible : Responsibles,
   certificate : Certificates \union {NoCertificate}, from : Int, until : Int, since : Nat]

CallStates ==
  {Idle} \union
  [step : {"count", "deactivate"}, responsible : Responsibles] \union
  [step : {"scope", "insert"}, power : Powers, row : PowerRows] \union
  [step : {"alert"}, at : Nat, sources : SUBSET [source : Sources, dueAt : Int]] \union
  [step : {"acknowledge"}, alert : AlertKeys] \union
  [step : {"authorize", "create", "reread"}, key : RequestKeys, content : Contents, at : Nat]

TypeOK ==
  /\ now \in 0 .. LastTick
  /\ responsible \in [Responsibles -> {"ABSENT", "ACTIVE", "INACTIVE"}]
  /\ power \in [Powers -> {Absent} \union PowerRows]
  /\ certificate \in [Certificates -> {"ACTIVE", "REVOKED"}]
  /\ alerts \in SUBSET AlertKeys
  /\ acknowledged \subseteq alerts
  /\ batch \in [RequestKeys -> SUBSET Powers]
  /\ job \in [Jobs -> [status : {"ABSENT", "QUEUED", "LOCKED", "QUERYING", "DONE"},
                       at : Nat, dead : BOOLEAN]]
  /\ call \in [Calls -> CallStates]
  /\ overlapped \subseteq Powers
  /\ lastScan \in -1 .. now
  /\ answered \subseteq RequestKeys \X Contents \X Contents
  /\ refused \subseteq RequestKeys \X Contents
  /\ operations \in 0 .. MaxOperations

NoJob == [status |-> "ABSENT", at |-> 0, dead |-> FALSE]

Init ==
  /\ now = 0
  /\ responsible = [r \in Responsibles |-> "ABSENT"]
  /\ power = [p \in Powers |-> Absent]
  /\ certificate = [c \in Certificates |-> "ACTIVE"]
  /\ alerts = {} /\ acknowledged = {}
  /\ batch = [k \in RequestKeys |-> {}]
  /\ job = [j \in Jobs |-> NoJob]
  /\ call = [c \in Calls |-> Idle]
  /\ overlapped = {}
  /\ lastScan = -1
  /\ answered = {} /\ refused = {}
  /\ operations = 0

Exists(p) == power[p].status # "ABSENT"
ActivePowers(r) == {p \in Powers : power[p].status = "ACTIVE" /\ power[p].responsible = r}

(***************************************************************************)
(* A request arrives; a request goes to its next step, or is answered.     *)
(***************************************************************************)
Arrives ==
  /\ operations < MaxOperations
  /\ operations' = operations + 1

Goes(c, state) == call' = [call EXCEPT ![c] = state]
Answered(c) == Goes(c, Idle)

-------------------------------------------------------------------------------
(***************************************************************************)
(* Responsibles.  Memberships are constant here, so the checks on them     *)
(* always pass, and assigning is one upsert.                               *)
(***************************************************************************)
AssignResponsible(r) ==
  /\ Arrives
  /\ responsible' = [responsible EXCEPT ![r] = "ACTIVE"]
  /\ UNCHANGED <<now, power, certificate, alertVars, syncVars, call, overlapped>>

\* The row of the responsible is read; one already inactive is answered as it is.
FindResponsible(c, r) ==
  /\ Arrives
  /\ call[c] = Idle
  /\ responsible[r] = "ACTIVE"
  /\ Goes(c, [step |-> "count", responsible |-> r])
  /\ UNCHANGED <<now, authorityVars, alertVars, syncVars, overlapped>>

Standing_Revoked(r) == {p \in Powers : power[p].status = "REVOKED" /\ power[p].responsible = r}

\* The powers that keep a responsible from being deactivated.
Standing(r) == ActivePowers(r)

CountPowers(c) ==
  /\ call[c].step = "count"
  /\ IF Standing(call[c].responsible) = {}
       THEN Goes(c, [call[c] EXCEPT !.step = "deactivate"])
       ELSE Answered(c)
  /\ UNCHANGED <<now, authorityVars, alertVars, syncVars, overlapped, operations>>

\* The write names the row by its id alone.
DeactivateResponsible(c) ==
  LET r == call[c].responsible
      signing == {d \in Calls : call[d].step \in {"scope", "insert"} /\ call[d].row.responsible = r}
  IN
  /\ call[c].step = "deactivate"
  /\ responsible' = [responsible EXCEPT ![r] = "INACTIVE"]
  /\ overlapped' = overlapped \union {call[d].power : d \in signing}
  /\ Answered(c)
  /\ UNCHANGED <<now, power, certificate, alertVars, syncVars, operations>>

-------------------------------------------------------------------------------
(***************************************************************************)
(* Powers of attorney.  Both ends are moved back to midnight, and only     *)
(* then compared.                                                          *)
(***************************************************************************)
Midnight(t) == t - (t % Day)

Signable(r) == responsible[r] = "ACTIVE"

RequestPower(c, p, r, k, period) ==
  LET row == [status |-> "ACTIVE", responsible |-> r, certificate |-> k, since |-> now,
              from |-> Midnight(period.from), until |-> Midnight(period.until)]
  IN
  /\ Arrives
  /\ call[c] = Idle
  /\ ~Exists(p)
  /\ \A d \in Calls : call[d].step \in {"scope", "insert"} => call[d].power # p
  /\ row.from < row.until
  /\ CompanyOf[r] = CompanyOf[p]
  /\ Signable(r)
  /\ Goes(c, [step |-> IF k = NoCertificate THEN "insert" ELSE "scope",
              power |-> p, row |-> row])
  /\ overlapped' = overlapped \ {p}
  /\ UNCHANGED <<now, authorityVars, alertVars, syncVars>>

CheckScope(c) ==
  /\ call[c].step = "scope"
  /\ LET k == call[c].row.certificate IN
     IF /\ <<k, CompanyOf[call[c].power]>> \in Scope
        /\ certificate[k] = "ACTIVE"
        /\ Window[k].from <= now /\ now < Window[k].until
       THEN Goes(c, [call[c] EXCEPT !.step = "insert"])
       ELSE Answered(c)
  /\ UNCHANGED <<now, authorityVars, alertVars, syncVars, overlapped, operations>>

(***************************************************************************)
(* Nothing ties the insert to the responsible read before it.  The history *)
(* notes the powers whose request was open when their responsible was      *)
(* deactivated, or which were inserted after a deactivation had counted.   *)
(***************************************************************************)
InsertPower(c) ==
  LET p == call[c].power
      row == call[c].row
  IN
  /\ call[c].step = "insert"
  /\ power' = [power EXCEPT ![p] = [row EXCEPT !.since = now]]
  /\ overlapped' =
       IF \E d \in Calls : call[d] = [step |-> "deactivate", responsible |-> row.responsible]
         THEN overlapped \union {p} ELSE overlapped
  /\ Answered(c)
  /\ UNCHANGED <<now, responsible, certificate, alertVars, syncVars, operations>>

\* Another power of the office may have the same external reference.
ReferenceConflict(c) ==
  /\ call[c].step = "insert"
  /\ \E p \in Powers : Exists(p)
  /\ Answered(c)
  /\ UNCHANGED <<now, authorityVars, alertVars, syncVars, overlapped, operations>>

RevokePower(p) ==
  /\ Arrives
  /\ power[p].status = "ACTIVE"
  /\ power' = [power EXCEPT ![p].status = "REVOKED"]
  /\ UNCHANGED <<now, responsible, certificate, alertVars, syncVars, call, overlapped>>

RevokeCertificate(k) ==
  /\ Arrives
  /\ certificate[k] = "ACTIVE"
  /\ certificate' = [certificate EXCEPT ![k] = "REVOKED"]
  /\ UNCHANGED <<now, responsible, power, alertVars, syncVars, call, overlapped>>

-------------------------------------------------------------------------------
(***************************************************************************)
(* Expiration alerts.  A scan lists the active sources that end within 30  *)
(* days of its time, and inserts an alert for each band they are in; the   *)
(* index on source, kind, threshold and end skips the ones there already.  *)
(* An alert of threshold 0 is of kind EXPIRED, the others EXPIRING.        *)
(***************************************************************************)
DueSources(at) ==
  {s \in [source : {p \in Powers : power[p].status = "ACTIVE"},
          dueAt : {power[p].until : p \in {q \in Powers : Exists(q)}}] :
     s.dueAt = power[s.source].until /\ s.dueAt <= at + Max(Thresholds) * Day}
  \union
  {s \in [source : {k \in Certificates : certificate[k] = "ACTIVE"},
          dueAt : {Window[k].until : k \in Certificates}] :
     s.dueAt = Window[s.source].until /\ s.dueAt <= at + Max(Thresholds) * Day}

\* Whole days left, rounded up.
RemainingDays_Down(ms) == ms \div Day

RemainingDays(ms) == (ms + Day - 1) \div Day

Bands_DaysLeft(remaining) ==
  IF remaining <= 0 THEN {0}
  ELSE IF \E t \in Thresholds : RemainingDays(remaining) <= t THEN {RemainingDays(remaining)} ELSE {}

\* The smallest threshold that covers the days left: a set of one, or none.
Bands(remaining) ==
  IF remaining <= 0 THEN {0}
  ELSE LET covering == {t \in Thresholds : RemainingDays(remaining) <= t}
       IN  IF covering = {} THEN {} ELSE {Min(covering)}

\* buildExpirationCandidate
Candidates(sources, at) ==
  UNION {[source : {s.source}, dueAt : {s.dueAt}, threshold : Bands(s.dueAt - at)] : s \in sources}

ListSources(c) ==
  /\ Arrives
  /\ call[c] = Idle
  /\ Goes(c, [step |-> "alert", at |-> now, sources |-> DueSources(now)])
  /\ UNCHANGED <<now, authorityVars, alertVars, syncVars, overlapped>>

\* createMany with skipDuplicates leaves the alerts that exist as they are.
CreateAlerts(c) ==
  /\ call[c].step = "alert"
  /\ alerts' = alerts \union Candidates(call[c].sources, call[c].at)
  /\ lastScan' = Max({lastScan, call[c].at})
  /\ Answered(c)
  /\ UNCHANGED <<now, authorityVars, acknowledged, syncVars, overlapped, operations>>

FindAlert(c, a) ==
  /\ Arrives
  /\ call[c] = Idle
  /\ a \in alerts \ acknowledged
  /\ Goes(c, [step |-> "acknowledge", alert |-> a])
  /\ UNCHANGED <<now, authorityVars, alertVars, syncVars, overlapped>>

AcknowledgeAlert(c) ==
  /\ call[c].step = "acknowledge"
  /\ acknowledged' = acknowledged \union {call[c].alert}
  /\ Answered(c)
  /\ UNCHANGED <<now, authorityVars, alerts, lastScan, syncVars, overlapped, operations>>

-------------------------------------------------------------------------------
(***************************************************************************)
(* Is the power, with its certificate, good for a query at a time?  Asked  *)
(* when a batch is created and again when a job of it has been locked.     *)
(* The services a power names and those a batch asks for do not change and *)
(* are left out: every power here is good for every service asked, which   *)
(* only lets more through.                                                 *)
(***************************************************************************)
Authorized_PowerOnly(p, at) ==
  /\ power[p].status = "ACTIVE"
  /\ power[p].from <= at /\ at <= power[p].until
  /\ power[p].certificate # NoCertificate

Authorized(p, at) ==
  /\ power[p].status = "ACTIVE"
  /\ power[p].from <= at /\ at <= power[p].until
  /\ LET k == power[p].certificate IN
     /\ k # NoCertificate
     /\ certificate[k] = "ACTIVE"
     /\ Window[k].from <= at /\ at <= Window[k].until
     /\ <<k, CompanyOf[p]>> \in Scope

(***************************************************************************)
(* A batch is asked for under an idempotency key.  The key is looked up,   *)
(* the powers are read, and batch and jobs are inserted: three statements. *)
(* An insert that a unique index refuses, of the key or of the jobs, one   *)
(* per company, is answered by looking the key up again.                   *)
(***************************************************************************)
Answer(k, asked) ==
  IF batch[k] = asked
    THEN answered' = answered \union {<<k, asked, batch[k]>>} /\ UNCHANGED refused
    ELSE refused' = refused \union {<<k, asked>>} /\ UNCHANGED answered

FindBatch(c, k, asked) ==
  /\ Arrives
  /\ call[c] = Idle
  /\ IF batch[k] # {}
       THEN Answer(k, asked) /\ UNCHANGED call
       ELSE /\ Goes(c, [step |-> "authorize", key |-> k, content |-> asked, at |-> now])
            /\ UNCHANGED <<answered, refused>>
  /\ UNCHANGED <<now, authorityVars, alertVars, batch, job, overlapped>>

AuthorizeBatch(c) ==
  /\ call[c].step = "authorize"
  /\ IF \A p \in call[c].content : Authorized(p, call[c].at)
       THEN Goes(c, [call[c] EXCEPT !.step = "create"])
       ELSE Answered(c)
  /\ UNCHANGED <<now, authorityVars, alertVars, syncVars, overlapped, operations>>

OnePerCompany(content) == \A p, q \in content : CompanyOf[p] = CompanyOf[q] => p = q

CreateBatch(c) ==
  LET k == call[c].key
      asked == call[c].content
  IN
  /\ call[c].step = "create"
  /\ IF batch[k] = {} /\ OnePerCompany(asked)
       THEN /\ batch' = [batch EXCEPT ![k] = asked]
            /\ job' = [j \in Jobs |-> IF j[1] = k /\ j[2] \in asked
                                        THEN [NoJob EXCEPT !.status = "QUEUED"] ELSE job[j]]
            /\ answered' = answered \union {<<k, asked, asked>>}
            /\ Answered(c)
       ELSE /\ Goes(c, [call[c] EXCEPT !.step = "reread"])
            /\ UNCHANGED <<batch, job, answered>>
  /\ UNCHANGED <<now, authorityVars, alertVars, refused, overlapped, operations>>

Reread_Unchecked(k, asked) ==
  IF batch[k] # {}
    THEN answered' = answered \union {<<k, asked, batch[k]>>} /\ UNCHANGED refused
    ELSE refused' = refused \union {<<k, asked>>} /\ UNCHANGED answered

Reread(k, asked) == Answer(k, asked)

RereadBatch(c) ==
  /\ call[c].step = "reread"
  /\ Reread(call[c].key, call[c].content)
  /\ Answered(c)
  /\ UNCHANGED <<now, authorityVars, alertVars, batch, job, overlapped, operations>>

(***************************************************************************)
(* A job is locked by one statement of the claim and its power and         *)
(* certificate are read by a later one, judged at the time the claim       *)
(* began.  The history notes the jobs locked under a power or certificate  *)
(* that was not good any more.                                             *)
(***************************************************************************)
Ended(p, at) ==
  \/ power[p].status = "REVOKED" \/ at > power[p].until
  \/ certificate[power[p].certificate] = "REVOKED" \/ at > Window[power[p].certificate].until

LockJob(j) ==
  /\ job[j].status = "QUEUED"
  /\ job' = [job EXCEPT ![j] = [status |-> "LOCKED", at |-> now, dead |-> Ended(j[2], now)]]
  /\ UNCHANGED <<now, authorityVars, alertVars, batch, answered, refused, call, overlapped, operations>>

JudgeJob(j) ==
  /\ job[j].status = "LOCKED"
  /\ job' = [job EXCEPT ![j] = IF Authorized(j[2], job[j].at)
                                 THEN [job[j] EXCEPT !.status = "QUERYING"]
                                 ELSE [NoJob EXCEPT !.status = "DONE"]]
  /\ UNCHANGED <<now, authorityVars, alertVars, batch, answered, refused, call, overlapped, operations>>

\* The queue settles the job, or has it claimed again later (EcacQueue).
LeaveJob(j) ==
  /\ job[j].status = "QUERYING"
  /\ \E next \in {"QUEUED", "DONE"} : job' = [job EXCEPT ![j] = [NoJob EXCEPT !.status = next]]
  /\ UNCHANGED <<now, authorityVars, alertVars, batch, answered, refused, call, overlapped, operations>>

Tick ==
  /\ now < LastTick
  /\ now' = now + 1
  /\ UNCHANGED <<authorityVars, alertVars, syncVars, call, overlapped, operations>>

-------------------------------------------------------------------------------
PowerStep(c) ==
  \/ \E p \in Powers, r \in Responsibles, k \in Certificates \union {NoCertificate},
        period \in Periods : RequestPower(c, p, r, k, period)
  \/ CheckScope(c) \/ InsertPower(c) \/ ReferenceConflict(c)

DeactivationStep(c) ==
  \/ \E r \in Responsibles : FindResponsible(c, r)
  \/ CountPowers(c) \/ DeactivateResponsible(c)

AlertStep(c) ==
  \/ ListSources(c) \/ CreateAlerts(c)
  \/ \E a \in alerts : FindAlert(c, a)
  \/ AcknowledgeAlert(c)

BatchStep(c) ==
  \/ \E k \in RequestKeys, asked \in Contents : FindBatch(c, k, asked)
  \/ AuthorizeBatch(c) \/ CreateBatch(c) \/ RereadBatch(c)

Next ==
  \/ \E r \in Responsibles : AssignResponsible(r)
  \/ \E p \in Powers : RevokePower(p)
  \/ \E k \in Certificates : RevokeCertificate(k)
  \/ \E c \in Calls : DeactivationStep(c) \/ PowerStep(c) \/ AlertStep(c) \/ BatchStep(c)
  \/ \E j \in Jobs : LockJob(j) \/ JudgeJob(j) \/ LeaveJob(j)
  \/ Tick

Spec == Init /\ [][Next]_vars

-------------------------------------------------------------------------------
(***************************************************************************)
(* A power of attorney stands under an inactive responsible only if it was *)
(* inserted across that responsible's deactivation: after the count that   *)
(* found no active power and before the write, or after the write by a     *)
(* request that had found the responsible active.  This is as much as the  *)
(* refusal "Revogue ou transfira as procurações ativas antes de desativar  *)
(* o responsável" holds.                                                   *)
(***************************************************************************)
SkewNeedsOverlap ==
  \A p \in Powers :
    power[p].status = "ACTIVE" /\ responsible[power[p].responsible] # "ACTIVE" => p \in overlapped

(***************************************************************************)
(* Alerts agree with the calendar, however late their scan wrote them and  *)
(* whatever was created or revoked meanwhile.  No alert puts an end nearer *)
(* than it is; and after a scan, each active source that was there when    *)
(* it began has the alert of the narrowest band that held its end then.    *)
(***************************************************************************)
NeverEarly == \A a \in alerts : a.dueAt - now <= a.threshold * Day

Covered(source, dueAt) ==
  \A t \in Thresholds \union {0} :
    /\ dueAt - lastScan <= t * Day
    /\ \A u \in Thresholds \union {0} : u < t => dueAt - lastScan > u * Day
    => [source |-> source, threshold |-> t, dueAt |-> dueAt] \in alerts

ScansCover ==
  /\ \A p \in Powers :
       power[p].status = "ACTIVE" /\ power[p].since < lastScan => Covered(p, power[p].until)
  /\ \A k \in Certificates :
       certificate[k] = "ACTIVE" /\ lastScan >= 0 => Covered(k, Window[k].until)

AlertsMatchCalendar == NeverEarly /\ ScansCover

(***************************************************************************)
(* Whoever of several requests wins the insert, an idempotency key stands  *)
(* for one batch: each request answered with a batch asked for just what   *)
(* the key's batch holds, and each one refused asked for other powers, or  *)
(* for two powers of one company, which no batch can hold.                 *)
(***************************************************************************)
OneBatchPerKey ==
  /\ \A a \in answered : a[2] = a[3] /\ a[3] = batch[a[1]]
  /\ \A r \in refused : batch[r[1]] \notin {{}, r[2]} \/ ~OnePerCompany(r[2])

(***************************************************************************)
(* No query runs in a claim that began after its power of attorney or      *)
(* certificate was revoked or had ended.  (One revoked after the claim's   *)
(* read is still used by that claim.)                                      *)
(***************************************************************************)
QueriedUnderLivingAuthority == \A j \in Jobs : job[j].status = "QUERYING" => ~job[j].dead

-------------------------------------------------------------------------------
(* What the proofs need besides *)

(***************************************************************************)
(* A power that a query may run under was registered with a certificate.   *)
(***************************************************************************)
Registered(p) == Exists(p) /\ power[p].certificate # NoCertificate

Signing(c) == call[c].step \in {"scope", "insert"}

(***************************************************************************)
(* What a request has found and no other takes back: alerts and powers are *)
(* never deleted, a power is created by one request, and the insert of a   *)
(* batch is refused only for what the next look-up still finds.            *)
(***************************************************************************)
FoundInv ==
  \A c \in Calls :
    /\ call[c].step = "acknowledge" => call[c].alert \in alerts
    /\ call[c].step = "alert" => call[c].at <= now
    /\ Signing(c) => ~Exists(call[c].power)
    /\ \A d \in Calls : Signing(c) /\ Signing(d) /\ call[c].power = call[d].power => c = d
    /\ call[c].step = "create" => \A p \in call[c].content : Registered(p)
    /\ call[c].step = "reread" => batch[call[c].key] # {} \/ ~OnePerCompany(call[c].content)

(***************************************************************************)
(* A request for a power has its responsible active or is on record, and   *)
(* so is any power inserted since a deactivation counted none.             *)
(***************************************************************************)
SigningInv ==
  \A c \in Calls :
    /\ Signing(c) => responsible[call[c].row.responsible] = "ACTIVE" \/ call[c].power \in overlapped
    /\ call[c].step = "deactivate" => ActivePowers(call[c].responsible) \subseteq overlapped

(***************************************************************************)
(* A job's power stays registered, and one that had ended when the job was *)
(* locked is found ended by the read that follows.                         *)
(***************************************************************************)
JobInv ==
  \A j \in Jobs :
    /\ job[j].status # "ABSENT" => Registered(j[2])
    /\ job[j].status = "LOCKED" /\ job[j].dead => Ended(j[2], job[j].at)

(***************************************************************************)
(* What a scan has listed stays good until it writes: a source active now  *)
(* that was there when it listed, and due by its horizon, is on its list.  *)
(***************************************************************************)
Horizon(at) == at + Max(Thresholds) * Day

ScanInv ==
  \A c \in Calls : call[c].step = "alert" =>
    /\ \A p \in Powers :
         /\ power[p].status = "ACTIVE" /\ power[p].since < call[c].at
         /\ power[p].until <= Horizon(call[c].at)
         => [source |-> p, dueAt |-> power[p].until] \in call[c].sources
    /\ \A k \in Certificates :
         certificate[k] = "ACTIVE" /\ Window[k].until <= Horizon(call[c].at)
         => [source |-> k, dueAt |-> Window[k].until] \in call[c].sources

=============================================================================
