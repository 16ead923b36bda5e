--------------------------- MODULE AuthoritiesProofs ---------------------------
(***************************************************************************)
(* Proofs about Authorities, for any calls, companies, responsibles,       *)
(* powers, certificates and keys, and without the bounds of the runs.      *)
(***************************************************************************)
EXTENDS Authorities, FiniteSetTheorems, WellFoundedInduction, TLAPS

(***************************************************************************)
(* A bounded-below set of naturals has a least member, so the narrowest    *)
(* band of an end is one of the thresholds.                                *)
(***************************************************************************)
LEMMA MinIsMember ==
  ASSUME NEW S \in SUBSET Nat, S # {}
  PROVE  Min(S) \in S
<1>1. PICK m \in S : \A y \in S : <<y, m>> \notin OpToRel(<, Nat)
  BY NatLessThanWellFounded, WFMin, Zenon
<1>2. \A y \in S : ~(y < m)
  BY <1>1, Zenon DEF OpToRel
<1>3. \A y \in S : m <= y
  BY <1>2
<1>. QED
  BY <1>3, Zenon DEF Min

LEMMA BandsTyping ==
  ASSUME NEW remaining \in Int
  PROVE  Bands(remaining) \subseteq Thresholds \union {0}
<1>1. CASE remaining <= 0
  BY <1>1 DEF Bands
<1>2. CASE ~(remaining <= 0)
  <2>1. PICK covering : covering = {t \in Thresholds : RemainingDays(remaining) <= t}
    OBVIOUS
  <2>2. covering \in SUBSET Thresholds /\ covering \in SUBSET Nat
    BY <2>1, AuthoritiesAssumption
  <2>3. Bands(remaining) = IF covering = {} THEN {} ELSE {Min(covering)}
    BY <1>2, <2>1 DEF Bands
  <2>4. CASE covering = {}
    BY <2>3, <2>4
  <2>5. CASE covering # {}
    <3>1. Min(covering) \in covering
      BY <2>2, <2>5, MinIsMember
    <3>2. Min(covering) \in Thresholds
      BY <2>2, <3>1
    <3>3. Bands(remaining) = {Min(covering)}
      BY <2>3, <2>5
    <3>. QED
      BY <3>2, <3>3
  <2>. QED
    BY <2>4, <2>5
<1>. QED
  BY <1>1, <1>2

LEMMA LaterOfTwo ==
  ASSUME NEW a \in Int, NEW b \in Int
  PROVE  Max({a, b}) \in {a, b}
<1>1. \E x \in {a, b} : \A y \in {a, b} : x >= y
  OBVIOUS
<1>. QED
  BY <1>1, Zenon DEF Max

LEMMA MidnightTyping ==
  ASSUME NEW t \in Int
  PROVE  Midnight(t) \in Int
BY AuthoritiesAssumption DEF Midnight

(***************************************************************************)
(* What a request knows at each step.                                      *)
(***************************************************************************)
LEMMA CallFields ==
  ASSUME TypeOK, NEW c \in Calls
  PROVE  /\ call[c].step \in {"count", "deactivate"} =>
              call[c] \in [step : {"count", "deactivate"}, responsible : Responsibles]
         /\ Signing(c) => call[c] \in [step : {"scope", "insert"}, power : Powers, row : PowerRows]
         /\ call[c].step = "alert" =>
              call[c] \in [step : {"alert"}, at : Nat, sources : SUBSET [source : Sources, dueAt : Int]]
         /\ call[c].step = "acknowledge" => call[c] \in [step : {"acknowledge"}, alert : AlertKeys]
         /\ call[c].step \in {"authorize", "create", "reread"} =>
              call[c] \in [step : {"authorize", "create", "reread"}, key : RequestKeys,
                           content : Contents, at : Nat]
<1>1. call[c] \in CallStates
  BY DEF TypeOK
<1>. QED
  BY <1>1 DEF CallStates, Idle, Signing

LEMMA CallTyping ==
  ASSUME TypeOK, NEW c \in Calls, NEW state \in CallStates, Goes(c, state)
  PROVE  call' \in [Calls -> CallStates]
BY DEF Goes, TypeOK

LEMMA AnsweredTyping ==
  ASSUME TypeOK, NEW c \in Calls, Answered(c)
  PROVE  call' \in [Calls -> CallStates]
BY CallTyping DEF Answered, CallStates

LEMMA CandidatesTyping ==
  ASSUME NEW sources \in SUBSET [source : Sources, dueAt : Int], NEW at \in Nat
  PROVE  Candidates(sources, at) \subseteq AlertKeys
<1>. SUFFICES ASSUME NEW a \in Candidates(sources, at)
              PROVE  a \in AlertKeys
  OBVIOUS
<1>1. PICK s \in sources : a \in [source : {s.source}, dueAt : {s.dueAt}, threshold : Bands(s.dueAt - at)]
  BY DEF Candidates
<1>2. s.source \in Sources /\ s.dueAt \in Int /\ s.dueAt - at \in Int
  OBVIOUS
<1>3. Bands(s.dueAt - at) \subseteq Thresholds \union {0}
  BY <1>2, BandsTyping
<1>. QED
  BY <1>1, <1>2, <1>3 DEF AlertKeys

(***************************************************************************)
(* Powers and batches are not taken back, alerts not deleted, and the      *)
(* clock runs forward.                                                     *)
(***************************************************************************)
LEMMA InsertIsOfFreshPower ==
  ASSUME TypeOK, FoundInv, NEW c \in Calls, InsertPower(c)
  PROVE  /\ call[c].power \in Powers /\ ~Exists(call[c].power)
         /\ call[c].row \in PowerRows /\ Signing(c)
         /\ power' = [power EXCEPT ![call[c].power] = [call[c].row EXCEPT !.since = now]]
<1>1. call[c].step = "insert" /\ Signing(c)
  BY DEF InsertPower, Signing
<1>2. call[c].power \in Powers /\ call[c].row \in PowerRows
  BY <1>1, CallFields
<1>. QED
  BY <1>1, <1>2 DEF InsertPower, FoundInv

LEMMA NothingTakenBack ==
  ASSUME TypeOK, FoundInv, [Next]_vars
  PROVE  /\ \A p \in Powers : Exists(p) =>
              /\ Exists(p)'
              /\ power'[p].responsible = power[p].responsible
              /\ power'[p].certificate = power[p].certificate
              /\ power'[p].until = power[p].until
              /\ power[p].status = "REVOKED" => power'[p].status = "REVOKED"
         /\ \A k \in RequestKeys : batch[k] # {} => batch'[k] = batch[k]
         /\ \A k \in Certificates : certificate[k] = "REVOKED" => certificate'[k] = "REVOKED"
         /\ alerts \subseteq alerts'
         /\ now <= now'
<1>. DEFINE PowersKept == \A p \in Powers : Exists(p) =>
              /\ Exists(p)'
              /\ power'[p].responsible = power[p].responsible
              /\ power'[p].certificate = power[p].certificate
              /\ power'[p].until = power[p].until
              /\ power[p].status = "REVOKED" => power'[p].status = "REVOKED"
            BatchesKept == \A k \in RequestKeys : batch[k] # {} => batch'[k] = batch[k]
            CertificatesKept == \A k \in Certificates : certificate[k] = "REVOKED" => certificate'[k] = "REVOKED"
<1>. USE DEF authorityVars, alertVars, syncVars
<1>1. now \in Nat
  BY AuthoritiesAssumption DEF TypeOK
<1>2. UNCHANGED power => PowersKept
  BY DEF Exists
<1>3. UNCHANGED batch => BatchesKept
  OBVIOUS
<1>4. UNCHANGED certificate => CertificatesKept
  OBVIOUS
<1>5. ASSUME NEW c \in Calls, InsertPower(c)
      PROVE  PowersKept
  <2>1. PICK q \in Powers, row \in PowerRows : ~Exists(q) /\ power' = [power EXCEPT ![q] = [row EXCEPT !.since = now]]
    BY <1>5, InsertIsOfFreshPower
  <2>. QED
    BY <2>1 DEF TypeOK, Exists
<1>6. ASSUME NEW q \in Powers, RevokePower(q)
      PROVE  PowersKept
  <2>1. power[q].status = "ACTIVE" /\ power' = [power EXCEPT ![q].status = "REVOKED"]
    BY <1>6 DEF RevokePower
  <2>2. power[q] \in PowerRows
    BY <2>1 DEF TypeOK, Absent
  <2>3. /\ power'[q].status = "REVOKED"
        /\ power'[q].responsible = power[q].responsible
        /\ power'[q].certificate = power[q].certificate
        /\ power'[q].until = power[q].until
    BY <2>1, <2>2 DEF TypeOK, PowerRows
  <2>4. \A p \in Powers : p # q => power'[p] = power[p]
    BY <2>1 DEF TypeOK
  <2>. QED
    BY <2>3, <2>4 DEF Exists
<1>7. ASSUME NEW c \in Calls, CreateBatch(c)
      PROVE  BatchesKept
  BY <1>7 DEF CreateBatch, TypeOK
<1>8. ASSUME NEW k \in Certificates, RevokeCertificate(k)
      PROVE  CertificatesKept
  BY <1>8 DEF RevokeCertificate, TypeOK
<1>. HIDE DEF PowersKept, BatchesKept, CertificatesKept
<1>9. ASSUME NEW c \in Calls, DeactivationStep(c)
      PROVE  UNCHANGED <<power, batch, certificate, alerts, now>>
  BY <1>9 DEF DeactivationStep, FindResponsible, CountPowers, DeactivateResponsible
<1>10. ASSUME NEW c \in Calls, PowerStep(c)
       PROVE  PowersKept /\ UNCHANGED <<batch, certificate, alerts, now>>
  <2>1. CASE InsertPower(c)
    BY <1>5, <2>1 DEF InsertPower
  <2>2. CASE ~InsertPower(c)
    <3>1. UNCHANGED <<power, batch, certificate, alerts, now>>
      BY <1>10, <2>2 DEF PowerStep, RequestPower, CheckScope, ReferenceConflict
    <3>. QED
      BY <1>2, <3>1
  <2>. QED
    BY <2>1, <2>2
<1>11. ASSUME NEW c \in Calls, AlertStep(c)
       PROVE  alerts \subseteq alerts' /\ UNCHANGED <<power, batch, certificate, now>>
  BY <1>11 DEF AlertStep, ListSources, CreateAlerts, FindAlert, AcknowledgeAlert
<1>12. ASSUME NEW c \in Calls, BatchStep(c)
       PROVE  BatchesKept /\ UNCHANGED <<power, certificate, alerts, now>>
  <2>1. CASE CreateBatch(c)
    BY <1>7, <2>1 DEF CreateBatch
  <2>2. CASE ~CreateBatch(c)
    <3>1. UNCHANGED <<power, batch, certificate, alerts, now>>
      BY <1>12, <2>2 DEF BatchStep, FindBatch, AuthorizeBatch, RereadBatch
    <3>. QED
      BY <1>3, <3>1
  <2>. QED
    BY <2>1, <2>2
<1>13. ASSUME NEW j \in Jobs, LockJob(j) \/ JudgeJob(j) \/ LeaveJob(j)
       PROVE  UNCHANGED <<power, batch, certificate, alerts, now>>
  BY <1>13 DEF LockJob, JudgeJob, LeaveJob
<1>14. ASSUME Tick
       PROVE  now <= now' /\ UNCHANGED <<power, batch, certificate, alerts>>
  BY <1>1, <1>14 DEF Tick
<1>15. ASSUME NEW r \in Responsibles, AssignResponsible(r)
       PROVE  UNCHANGED <<power, batch, certificate, alerts, now>>
  BY <1>15 DEF AssignResponsible
<1>16. PowersKept /\ BatchesKept /\ CertificatesKept /\ alerts \subseteq alerts' /\ now <= now'
  <2>1. CASE UNCHANGED vars
    BY <1>1, <1>2, <1>3, <1>4, <2>1 DEF vars
  <2>2. CASE Next
    <3>1. CASE \E c \in Calls : DeactivationStep(c) \/ PowerStep(c) \/ AlertStep(c) \/ BatchStep(c)
      BY <1>1, <1>2, <1>3, <1>4, <1>9, <1>10, <1>11, <1>12, <3>1
    <3>2. CASE \E q \in Powers : RevokePower(q)
      <4>1. PICK q \in Powers : RevokePower(q)
        BY <3>2
      <4>2. UNCHANGED <<batch, certificate, alerts, now>>
        BY <4>1 DEF RevokePower
      <4>. QED
        BY <1>1, <1>3, <1>4, <1>6, <4>1, <4>2
    <3>3. CASE \E k \in Certificates : RevokeCertificate(k)
      <4>1. PICK k \in Certificates : RevokeCertificate(k)
        BY <3>3
      <4>2. UNCHANGED <<power, batch, alerts, now>>
        BY <4>1 DEF RevokeCertificate
      <4>. QED
        BY <1>1, <1>2, <1>3, <1>8, <4>1, <4>2
    <3>. QED
      BY <1>1, <1>2, <1>3, <1>4, <1>13, <1>14, <1>15, <2>2, <3>1, <3>2, <3>3 DEF Next
  <2>. QED
    BY <2>1, <2>2
<1>. QED
  BY <1>16 DEF PowersKept, BatchesKept, CertificatesKept

-------------------------------------------------------------------------------
(* Types, and what requests have found *)

LEMMA InitialTypes == Init => TypeOK
<1>. SUFFICES ASSUME Init
              PROVE  TypeOK
  OBVIOUS
<1>. USE AuthoritiesAssumption
<1>1. /\ now \in 0 .. LastTick
      /\ lastScan \in -1 .. now
      /\ operations \in 0 .. MaxOperations
  BY DEF Init
<1>2. /\ responsible \in [Responsibles -> {"ABSENT", "ACTIVE", "INACTIVE"}]
      /\ certificate \in [Certificates -> {"ACTIVE", "REVOKED"}]
      /\ power \in [Powers -> {Absent} \union PowerRows]
  BY DEF Init
<1>3. job \in [Jobs -> [status : {"ABSENT", "QUEUED", "LOCKED", "QUERYING", "DONE"}, at : Nat, dead : BOOLEAN]]
  BY DEF Init, NoJob
<1>4. call \in [Calls -> CallStates]
  BY DEF Init, CallStates
<1>5. /\ alerts \in SUBSET AlertKeys /\ acknowledged \subseteq alerts
      /\ batch \in [RequestKeys -> SUBSET Powers]
      /\ overlapped \subseteq Powers
      /\ answered \subseteq RequestKeys \X Contents \X Contents
      /\ refused \subseteq RequestKeys \X Contents
  BY DEF Init
<1>. QED
  BY <1>1, <1>2, <1>3, <1>4, <1>5 DEF TypeOK

LEMMA OperationTyping ==
  ASSUME TypeOK, Arrives
  PROVE  operations' \in 0 .. MaxOperations
BY AuthoritiesAssumption DEF Arrives, TypeOK

LEMMA AnswerTyping ==
  ASSUME TypeOK, NEW k \in RequestKeys, NEW asked \in Contents, Answer(k, asked)
  PROVE  /\ answered' \subseteq RequestKeys \X Contents \X Contents
         /\ refused' \subseteq RequestKeys \X Contents
<1>1. CASE batch[k] = asked
  BY <1>1 DEF Answer, TypeOK
<1>2. CASE batch[k] # asked
  BY <1>2 DEF Answer, TypeOK
<1>. QED
  BY <1>1, <1>2

LEMMA PowerStepTyping ==
  ASSUME TypeOK, NEW c \in Calls, PowerStep(c)
  PROVE  TypeOK'
<1>. USE DEF authorityVars, alertVars, syncVars
<1>1. ASSUME NEW p \in Powers, NEW r \in Responsibles, NEW k \in Certificates \union {NoCertificate},
             NEW period \in Periods, RequestPower(c, p, r, k, period)
      PROVE  TypeOK'
  <2>1. PICK row : row = [status |-> "ACTIVE", responsible |-> r, certificate |-> k, since |-> now,
                          from |-> Midnight(period.from), until |-> Midnight(period.until)]
    OBVIOUS
  <2>2. period.from \in Int /\ period.until \in Int
    BY AuthoritiesAssumption DEF Spans
  <2>3. now \in Nat
    BY AuthoritiesAssumption DEF TypeOK
  <2>4. row \in PowerRows
    BY <2>1, <2>2, <2>3, MidnightTyping DEF PowerRows
  <2>5. [step |-> IF k = NoCertificate THEN "insert" ELSE "scope", power |-> p, row |-> row] \in CallStates
    BY <2>4 DEF CallStates
  <2>6. Goes(c, [step |-> IF k = NoCertificate THEN "insert" ELSE "scope", power |-> p, row |-> row])
    BY <1>1, <2>1 DEF RequestPower
  <2>7. call' \in [Calls -> CallStates]
    BY <2>5, <2>6, CallTyping
  <2>8. /\ UNCHANGED <<now, authorityVars, alertVars, syncVars>>
        /\ overlapped' = overlapped \ {p} /\ Arrives
    BY <1>1 DEF RequestPower
  <2>. QED
    BY <2>7, <2>8, OperationTyping DEF TypeOK
<1>2. ASSUME CheckScope(c)
      PROVE  TypeOK'
  <2>1. call[c].step = "scope" /\ Signing(c)
    BY <1>2 DEF CheckScope, Signing
  <2>2. call[c] \in [step : {"scope", "insert"}, power : Powers, row : PowerRows]
    BY <2>1, CallFields
  <2>3. [call[c] EXCEPT !.step = "insert"] \in CallStates
    BY <2>2 DEF CallStates
  <2>4. Goes(c, [call[c] EXCEPT !.step = "insert"]) \/ Answered(c)
    BY <1>2 DEF CheckScope
  <2>5. call' \in [Calls -> CallStates]
    BY <2>3, <2>4, CallTyping, AnsweredTyping
  <2>6. UNCHANGED <<now, authorityVars, alertVars, syncVars, overlapped, operations>>
    BY <1>2 DEF CheckScope
  <2>. QED
    BY <2>5, <2>6 DEF TypeOK
<1>3. ASSUME InsertPower(c)
      PROVE  TypeOK'
  <2>1. call[c].step = "insert" /\ Signing(c)
    BY <1>3 DEF InsertPower, Signing
  <2>2. PICK p \in Powers, row \in PowerRows : p = call[c].power /\ row = call[c].row
    BY <2>1, CallFields
  <2>3. now \in Nat
    BY AuthoritiesAssumption DEF TypeOK
  <2>4. power' = [power EXCEPT ![p] = [row EXCEPT !.since = now]]
    BY <1>3, <2>2 DEF InsertPower
  <2>5. [row EXCEPT !.since = now] \in PowerRows
    BY <2>3 DEF PowerRows
  <2>6. power' \in [Powers -> {Absent} \union PowerRows]
    BY <2>4, <2>5 DEF TypeOK
  <2>7. overlapped' = overlapped \union {p} \/ overlapped' = overlapped
    BY <1>3, <2>2 DEF InsertPower
  <2>8. Answered(c) /\ UNCHANGED <<now, responsible, certificate, alertVars, syncVars, operations>>
    BY <1>3 DEF InsertPower
  <2>9. call' \in [Calls -> CallStates]
    BY <2>8, AnsweredTyping
  <2>. QED
    BY <2>6, <2>7, <2>8, <2>9 DEF TypeOK
<1>4. ASSUME ReferenceConflict(c)
      PROVE  TypeOK'
  <2>1. Answered(c) /\ UNCHANGED <<now, authorityVars, alertVars, syncVars, overlapped, operations>>
    BY <1>4 DEF ReferenceConflict
  <2>2. call' \in [Calls -> CallStates]
    BY <2>1, AnsweredTyping
  <2>. QED
    BY <2>1, <2>2 DEF TypeOK
<1>. QED
  BY <1>1, <1>2, <1>3, <1>4 DEF PowerStep

LEMMA DeactivationStepTyping ==
  ASSUME TypeOK, NEW c \in Calls, DeactivationStep(c)
  PROVE  TypeOK'
<1>. USE DEF authorityVars, alertVars, syncVars
<1>1. ASSUME NEW r \in Responsibles, FindResponsible(c, r)
      PROVE  TypeOK'
  <2>1. [step |-> "count", responsible |-> r] \in CallStates
    BY DEF CallStates
  <2>2. /\ Goes(c, [step |-> "count", responsible |-> r]) /\ Arrives
        /\ UNCHANGED <<now, authorityVars, alertVars, syncVars, overlapped>>
    BY <1>1 DEF FindResponsible
  <2>3. call' \in [Calls -> CallStates]
    BY <2>1, <2>2, CallTyping
  <2>. QED
    BY <2>2, <2>3, OperationTyping DEF TypeOK
<1>2. ASSUME CountPowers(c)
      PROVE  TypeOK'
  <2>1. call[c] \in [step : {"count", "deactivate"}, responsible : Responsibles]
    BY <1>2, CallFields DEF CountPowers
  <2>2. [call[c] EXCEPT !.step = "deactivate"] \in CallStates
    BY <2>1 DEF CallStates
  <2>3. Goes(c, [call[c] EXCEPT !.step = "deactivate"]) \/ Answered(c)
    BY <1>2 DEF CountPowers
  <2>4. call' \in [Calls -> CallStates]
    BY <2>2, <2>3, CallTyping, AnsweredTyping
  <2>5. UNCHANGED <<now, authorityVars, alertVars, syncVars, overlapped, operations>>
    BY <1>2 DEF CountPowers
  <2>. QED
    BY <2>4, <2>5 DEF TypeOK
<1>3. ASSUME DeactivateResponsible(c)
      PROVE  TypeOK'
  <2>1. PICK r \in Responsibles : r = call[c].responsible
    BY <1>3, CallFields DEF DeactivateResponsible
  <2>2. PICK signing \in SUBSET Calls :
          /\ signing = {d \in Calls : call[d].step \in {"scope", "insert"} /\ call[d].row.responsible = r}
          /\ overlapped' = overlapped \union {call[d].power : d \in signing}
    BY <1>3, <2>1 DEF DeactivateResponsible
  <2>3. \A d \in signing : call[d].power \in Powers
    BY <2>2, CallFields DEF Signing
  <2>4. overlapped' \subseteq Powers
    BY <2>2, <2>3 DEF TypeOK
  <2>5. /\ responsible' = [responsible EXCEPT ![r] = "INACTIVE"] /\ Answered(c)
        /\ UNCHANGED <<now, power, certificate, alertVars, syncVars, operations>>
    BY <1>3, <2>1 DEF DeactivateResponsible
  <2>6. call' \in [Calls -> CallStates]
    BY <2>5, AnsweredTyping
  <2>. QED
    BY <2>4, <2>5, <2>6 DEF TypeOK
<1>. QED
  BY <1>1, <1>2, <1>3 DEF DeactivationStep

LEMMA DueSourcesTyping ==
  ASSUME TypeOK, NEW at \in Nat
  PROVE  DueSources(at) \subseteq [source : Sources, dueAt : Int]
<1>1. {power[p].until : p \in {q \in Powers : Exists(q)}} \subseteq Int
  <2>1. \A p \in Powers : Exists(p) => power[p] \in PowerRows
    BY DEF TypeOK, Exists, Absent
  <2>. QED
    BY <2>1 DEF PowerRows
<1>2. {Window[k].until : k \in Certificates} \subseteq Int
  BY AuthoritiesAssumption DEF Spans
<1>. QED
  BY <1>1, <1>2 DEF DueSources, Sources

LEMMA AlertStepTyping ==
  ASSUME TypeOK, FoundInv, NEW c \in Calls, AlertStep(c)
  PROVE  TypeOK'
<1>. USE DEF authorityVars, alertVars, syncVars
<1>. now \in Nat /\ lastScan \in Int /\ lastScan >= -1 /\ lastScan <= now
  BY AuthoritiesAssumption DEF TypeOK
<1>1. ASSUME ListSources(c)
      PROVE  TypeOK'
  <2>1. [step |-> "alert", at |-> now, sources |-> DueSources(now)] \in CallStates
    BY DueSourcesTyping DEF CallStates
  <2>2. /\ Goes(c, [step |-> "alert", at |-> now, sources |-> DueSources(now)]) /\ Arrives
        /\ UNCHANGED <<now, authorityVars, alertVars, syncVars, overlapped>>
    BY <1>1 DEF ListSources
  <2>3. call' \in [Calls -> CallStates]
    BY <2>1, <2>2, CallTyping
  <2>. QED
    BY <2>2, <2>3, OperationTyping DEF TypeOK
<1>2. ASSUME CreateAlerts(c)
      PROVE  TypeOK'
  <2>1. call[c].step = "alert"
    BY <1>2 DEF CreateAlerts
  <2>2. PICK at \in Nat, sources \in SUBSET [source : Sources, dueAt : Int] :
          at = call[c].at /\ sources = call[c].sources
    BY <2>1, CallFields
  <2>3. at <= now
    BY <2>1, <2>2 DEF FoundInv
  <2>4. /\ alerts' = alerts \union Candidates(sources, at)
        /\ acknowledged' = acknowledged
        /\ lastScan' = Max({lastScan, at})
    BY <1>2, <2>2 DEF CreateAlerts
  <2>5. alerts' \in SUBSET AlertKeys /\ acknowledged' \subseteq alerts'
    BY <2>4, CandidatesTyping DEF TypeOK
  <2>6. lastScan' \in {lastScan, at}
    BY <2>4, LaterOfTwo
  <2>7. lastScan' \in -1 .. now
    BY <2>3, <2>6
  <2>8. Answered(c) /\ UNCHANGED <<now, authorityVars, syncVars, overlapped, operations>>
    BY <1>2 DEF CreateAlerts
  <2>9. call' \in [Calls -> CallStates]
    BY <2>8, AnsweredTyping
  <2>. QED
    BY <2>5, <2>7, <2>8, <2>9 DEF TypeOK
<1>3. ASSUME NEW a \in alerts, FindAlert(c, a)
      PROVE  TypeOK'
  <2>1. [step |-> "acknowledge", alert |-> a] \in CallStates
    BY DEF CallStates, TypeOK
  <2>2. /\ Goes(c, [step |-> "acknowledge", alert |-> a]) /\ Arrives
        /\ UNCHANGED <<now, authorityVars, alertVars, syncVars, overlapped>>
    BY <1>3 DEF FindAlert
  <2>3. call' \in [Calls -> CallStates]
    BY <2>1, <2>2, CallTyping
  <2>. QED
    BY <2>2, <2>3, OperationTyping DEF TypeOK
<1>4. ASSUME AcknowledgeAlert(c)
      PROVE  TypeOK'
  <2>1. call[c].alert \in alerts
    BY <1>4 DEF AcknowledgeAlert, FoundInv
  <2>2. /\ acknowledged' = acknowledged \union {call[c].alert} /\ Answered(c)
        /\ UNCHANGED <<now, authorityVars, alerts, lastScan, syncVars, overlapped, operations>>
    BY <1>4 DEF AcknowledgeAlert
  <2>3. call' \in [Calls -> CallStates]
    BY <2>2, AnsweredTyping
  <2>. QED
    BY <2>1, <2>2, <2>3 DEF TypeOK
<1>. QED
  BY <1>1, <1>2, <1>3, <1>4 DEF AlertStep

LEMMA BatchStepTyping ==
  ASSUME TypeOK, NEW c \in Calls, BatchStep(c)
  PROVE  TypeOK'
<1>. USE DEF authorityVars, alertVars, syncVars
<1>. now \in Nat
  BY AuthoritiesAssumption DEF TypeOK
<1>1. ASSUME NEW k \in RequestKeys, NEW asked \in Contents, FindBatch(c, k, asked)
      PROVE  TypeOK'
  <2>1. [step |-> "authorize", key |-> k, content |-> asked, at |-> now] \in CallStates
    BY DEF CallStates
  <2>2. Arrives /\ UNCHANGED <<now, authorityVars, alertVars, batch, job, overlapped>>
    BY <1>1 DEF FindBatch
  <2>3. CASE batch[k] # {}
    <3>1. Answer(k, asked) /\ UNCHANGED call
      BY <1>1, <2>3 DEF FindBatch
    <3>. QED
      BY <2>2, <3>1, AnswerTyping, OperationTyping DEF TypeOK
  <2>4. CASE batch[k] = {}
    <3>1. /\ Goes(c, [step |-> "authorize", key |-> k, content |-> asked, at |-> now])
          /\ UNCHANGED <<answered, refused>>
      BY <1>1, <2>4 DEF FindBatch
    <3>2. call' \in [Calls -> CallStates]
      BY <2>1, <3>1, CallTyping
    <3>. QED
      BY <2>2, <3>1, <3>2, OperationTyping DEF TypeOK
  <2>. QED
    BY <2>3, <2>4
<1>2. ASSUME call[c].step \in {"authorize", "create", "reread"}
      PROVE  /\ call[c].key \in RequestKeys /\ call[c].content \in Contents
             /\ [call[c] EXCEPT !.step = "create"] \in CallStates
             /\ [call[c] EXCEPT !.step = "reread"] \in CallStates
  <2>1. call[c] \in [step : {"authorize", "create", "reread"}, key : RequestKeys, content : Contents, at : Nat]
    BY <1>2, CallFields
  <2>. QED
    BY <2>1 DEF CallStates
<1>3. ASSUME AuthorizeBatch(c)
      PROVE  TypeOK'
  <2>1. UNCHANGED <<now, authorityVars, alertVars, syncVars, overlapped, operations>>
    BY <1>3 DEF AuthorizeBatch
  <2>2. call' \in [Calls -> CallStates]
    BY <1>2, <1>3, CallTyping, AnsweredTyping DEF AuthorizeBatch
  <2>. QED
    BY <2>1, <2>2 DEF TypeOK
<1>4. ASSUME CreateBatch(c)
      PROVE  TypeOK'
  <2>1. call[c].step = "create" /\ UNCHANGED <<now, authorityVars, alertVars, refused, overlapped, operations>>
    BY <1>4 DEF CreateBatch
  <2>2. PICK k \in RequestKeys, asked \in Contents : k = call[c].key /\ asked = call[c].content
    BY <1>2, <2>1
  <2>3. CASE batch[k] = {} /\ OnePerCompany(asked)
    <3>1. /\ batch' = [batch EXCEPT ![k] = asked]
          /\ job' = [j \in Jobs |-> IF j[1] = k /\ j[2] \in asked
                                      THEN [NoJob EXCEPT !.status = "QUEUED"] ELSE job[j]]
          /\ answered' = answered \union {<<k, asked, asked>>}
          /\ Answered(c)
      BY <1>4, <2>2, <2>3 DEF CreateBatch
    <3>2. batch' \in [RequestKeys -> SUBSET Powers]
      BY <3>1 DEF TypeOK, Contents
    <3>3. job' \in [Jobs -> [status : {"ABSENT", "QUEUED", "LOCKED", "QUERYING", "DONE"}, at : Nat, dead : BOOLEAN]]
      BY <3>1 DEF TypeOK, NoJob
    <3>4. answered' \subseteq RequestKeys \X Contents \X Contents
      BY <3>1 DEF TypeOK
    <3>5. call' \in [Calls -> CallStates]
      BY <3>1, AnsweredTyping
    <3>. QED
      BY <2>1, <3>2, <3>3, <3>4, <3>5 DEF TypeOK
  <2>4. CASE ~(batch[k] = {} /\ OnePerCompany(asked))
    <3>1. Goes(c, [call[c] EXCEPT !.step = "reread"]) /\ UNCHANGED <<batch, job, answered>>
      BY <1>4, <2>2, <2>4 DEF CreateBatch
    <3>2. call' \in [Calls -> CallStates]
      BY <1>2, <2>1, <3>1, CallTyping
    <3>. QED
      BY <2>1, <3>1, <3>2 DEF TypeOK
  <2>. QED
    BY <2>3, <2>4
<1>5. ASSUME RereadBatch(c)
      PROVE  TypeOK'
  <2>1. /\ call[c].step = "reread" /\ Answered(c)
        /\ Answer(call[c].key, call[c].content)
        /\ UNCHANGED <<now, authorityVars, alertVars, batch, job, overlapped, operations>>
    BY <1>5 DEF RereadBatch, Reread
  <2>2. /\ answered' \subseteq RequestKeys \X Contents \X Contents
        /\ refused' \subseteq RequestKeys \X Contents
    BY <1>2, <2>1, AnswerTyping
  <2>3. call' \in [Calls -> CallStates]
    BY <2>1, AnsweredTyping
  <2>. QED
    BY <2>1, <2>2, <2>3 DEF TypeOK
<1>. QED
  BY <1>1, <1>3, <1>4, <1>5 DEF BatchStep

LEMMA OtherStepTyping ==
  ASSUME TypeOK,
         \/ \E r \in Responsibles : AssignResponsible(r)
         \/ \E p \in Powers : RevokePower(p)
         \/ \E k \in Certificates : RevokeCertificate(k)
         \/ \E j \in Jobs : LockJob(j) \/ JudgeJob(j) \/ LeaveJob(j)
         \/ Tick
  PROVE  TypeOK'
<1>. USE DEF authorityVars, alertVars, syncVars
<1>1. ASSUME NEW r \in Responsibles, AssignResponsible(r)
      PROVE  TypeOK'
  <2>1. /\ Arrives /\ responsible' = [responsible EXCEPT ![r] = "ACTIVE"]
        /\ UNCHANGED <<now, power, certificate, alertVars, syncVars, call, overlapped>>
    BY <1>1 DEF AssignResponsible
  <2>. QED
    BY <2>1, OperationTyping DEF TypeOK
<1>2. ASSUME NEW p \in Powers, RevokePower(p)
      PROVE  TypeOK'
  <2>1. /\ Arrives /\ power' = [power EXCEPT ![p].status = "REVOKED"] /\ power[p].status = "ACTIVE"
        /\ UNCHANGED <<now, responsible, certificate, alertVars, syncVars, call, overlapped>>
    BY <1>2 DEF RevokePower
  <2>2. power[p] \in PowerRows
    BY <2>1 DEF TypeOK, Absent
  <2>3. [power[p] EXCEPT !.status = "REVOKED"] \in PowerRows
    BY <2>2 DEF PowerRows
  <2>4. power' = [power EXCEPT ![p] = [power[p] EXCEPT !.status = "REVOKED"]]
    BY <2>1
  <2>5. power' \in [Powers -> {Absent} \union PowerRows]
    BY <2>3, <2>4 DEF TypeOK
  <2>. QED
    BY <2>1, <2>5, OperationTyping DEF TypeOK
<1>3. ASSUME NEW k \in Certificates, RevokeCertificate(k)
      PROVE  TypeOK'
  <2>1. /\ Arrives /\ certificate' = [certificate EXCEPT ![k] = "REVOKED"]
        /\ UNCHANGED <<now, responsible, power, alertVars, syncVars, call, overlapped>>
    BY <1>3 DEF RevokeCertificate
  <2>. QED
    BY <2>1, OperationTyping DEF TypeOK
<1>4. ASSUME NEW j \in Jobs, LockJob(j) \/ JudgeJob(j) \/ LeaveJob(j)
      PROVE  TypeOK'
  <2>1. UNCHANGED <<now, authorityVars, alertVars, batch, answered, refused, call, overlapped, operations>>
    BY <1>4 DEF LockJob, JudgeJob, LeaveJob
  <2>2. PICK row \in [status : {"ABSENT", "QUEUED", "LOCKED", "QUERYING", "DONE"}, at : Nat, dead : BOOLEAN] :
          job' = [job EXCEPT ![j] = row]
    <3>1. CASE LockJob(j)
      <4>1. job' = [job EXCEPT ![j] = [status |-> "LOCKED", at |-> now, dead |-> Ended(j[2], now)]]
        BY <3>1 DEF LockJob
      <4>2. Ended(j[2], now) \in BOOLEAN
        BY DEF Ended
      <4>3. now \in Nat
        BY AuthoritiesAssumption DEF TypeOK
      <4>. QED
        BY <4>1, <4>2, <4>3
    <3>2. CASE JudgeJob(j)
      BY <3>2 DEF JudgeJob, TypeOK, NoJob
    <3>3. CASE LeaveJob(j)
      BY <3>3 DEF LeaveJob, TypeOK, NoJob
    <3>. QED
      BY <1>4, <3>1, <3>2, <3>3
  <2>. QED
    BY <2>1, <2>2 DEF TypeOK
<1>5. ASSUME Tick
      PROVE  TypeOK'
  <2>1. /\ now < LastTick /\ now' = now + 1
        /\ UNCHANGED <<authorityVars, alertVars, syncVars, call, overlapped, operations>>
    BY <1>5 DEF Tick
  <2>2. now' \in 0 .. LastTick /\ lastScan' \in -1 .. now'
    BY <2>1, AuthoritiesAssumption DEF TypeOK
  <2>. QED
    BY <2>1, <2>2 DEF TypeOK
<1>. QED
  BY <1>1, <1>2, <1>3, <1>4, <1>5

LEMMA TypesKept ==
  ASSUME TypeOK, FoundInv, [Next]_vars
  PROVE  TypeOK'
<1>1. CASE UNCHANGED vars
  BY <1>1 DEF vars, authorityVars, alertVars, syncVars, TypeOK
<1>2. CASE Next
  BY <1>2, PowerStepTyping, DeactivationStepTyping, AlertStepTyping, BatchStepTyping, OtherStepTyping DEF Next
<1>. QED
  BY <1>1, <1>2

(***************************************************************************)
(* FoundInv after a step that takes one request to another state, from     *)
(* what the new state must satisfy: others keep what they have found.      *)
(***************************************************************************)
LEMMA FoundStep ==
  ASSUME TypeOK, FoundInv, [Next]_vars, NEW c \in Calls, NEW state,
         call' = [call EXCEPT ![c] = state],
         state.step = "acknowledge" => state.alert \in alerts',
         state.step = "alert" => state.at <= now',
         state.step \in {"scope", "insert"} =>
           /\ ~Exists(state.power)'
           /\ \A d \in Calls : d # c /\ Signing(d) => call[d].power # state.power,
         state.step = "create" => \A p \in state.content : Registered(p)',
         state.step = "reread" => batch'[state.key] # {} \/ ~OnePerCompany(state.content),
         \A d \in Calls : d # c /\ Signing(d) => ~Exists(call[d].power)'
  PROVE  FoundInv'
<1>1. call'[c] = state /\ \A d \in Calls : d # c => call'[d] = call[d]
  BY DEF TypeOK
<1>2. Signing(c)' <=> state.step \in {"scope", "insert"}
  BY <1>1 DEF Signing
<1>3. \A d \in Calls : d # c => (Signing(d)' <=> Signing(d))
  BY <1>1 DEF Signing
<1>. SUFFICES ASSUME NEW d \in Calls
              PROVE  /\ call'[d].step = "acknowledge" => call'[d].alert \in alerts'
                     /\ call'[d].step = "alert" => call'[d].at <= now'
                     /\ Signing(d)' => ~Exists(call[d].power)'
                     /\ \A e \in Calls : Signing(d)' /\ Signing(e)' /\ call'[d].power = call'[e].power => d = e
                     /\ call'[d].step = "create" => \A p \in call'[d].content : Registered(p)'
                     /\ call'[d].step = "reread" =>
                          batch'[call'[d].key] # {} \/ ~OnePerCompany(call'[d].content)
  BY DEF FoundInv
<1>4. \A e \in Calls : Signing(d)' /\ Signing(e)' /\ call'[d].power = call'[e].power => d = e
  BY <1>1, <1>2, <1>3 DEF FoundInv
<1>5. Signing(d)' => ~Exists(call[d].power)'
  <2>1. CASE d = c
    BY <1>1, <1>2, <2>1 DEF Exists
  <2>2. CASE d # c
    BY <1>1, <1>3, <2>2 DEF Exists
  <2>. QED
    BY <2>1, <2>2
<1>6. CASE d = c
  BY <1>1, <1>4, <1>5, <1>6
<1>7. CASE d # c
  <2>1. call'[d] = call[d]
    BY <1>1, <1>7
  <2>2. call[d].step = "acknowledge" => call[d].alert \in alerts'
    BY NothingTakenBack DEF FoundInv
  <2>3. call[d].step = "alert" => call[d].at <= now'
    <3>1. now \in Int /\ now' \in Int /\ now <= now'
      BY NothingTakenBack, TypesKept, AuthoritiesAssumption DEF TypeOK
    <3>2. call[d].step = "alert" => call[d].at \in Nat /\ call[d].at <= now
      BY CallFields DEF FoundInv
    <3>. QED
      BY <3>1, <3>2
  <2>4. call[d].step = "create" => \A p \in call[d].content : Registered(p)'
    <3>1. SUFFICES ASSUME call[d].step = "create", NEW p \in call[d].content
                   PROVE  Registered(p)'
      OBVIOUS
    <3>2. p \in Powers
      BY <3>1, CallFields DEF Contents
    <3>3. Registered(p)
      BY <3>1 DEF FoundInv
    <3>. QED
      BY <3>2, <3>3, NothingTakenBack DEF Registered
  <2>5. call[d].step = "reread" => batch'[call[d].key] # {} \/ ~OnePerCompany(call[d].content)
    <3>1. call[d].step = "reread" => call[d].key \in RequestKeys
      BY CallFields
    <3>. QED
      BY <3>1, NothingTakenBack DEF FoundInv
  <2>. QED
    BY <1>4, <1>5, <2>1, <2>2, <2>3, <2>4, <2>5
<1>. QED
  BY <1>6, <1>7

LEMMA FoundStutter ==
  ASSUME TypeOK, FoundInv, [Next]_vars, UNCHANGED call,
         \A p \in Powers : ~Exists(p) => ~Exists(p)'
  PROVE  FoundInv'
<1>1. CASE Calls = {}
  BY <1>1 DEF FoundInv
<1>2. CASE Calls # {}
  <2>1. PICK c \in Calls : TRUE
    BY <1>2
  <2>2. PICK state : state = call[c]
    OBVIOUS
  <2>3. call' = [call EXCEPT ![c] = state]
    BY <2>2 DEF TypeOK
  <2>4. \A d \in Calls : Signing(d) => call[d].power \in Powers /\ ~Exists(call[d].power)
    BY CallFields DEF FoundInv
  <2>5. \A d \in Calls : Signing(d) => ~Exists(call[d].power)'
    <3>1. SUFFICES ASSUME NEW d \in Calls, Signing(d)
                   PROVE  ~Exists(call[d].power)'
      OBVIOUS
    <3>2. PICK p \in Powers : p = call[d].power /\ ~Exists(p)
      BY <2>4, <3>1
    <3>. QED
      BY <3>2 DEF Exists
  <2>6. state.step = "acknowledge" => state.alert \in alerts'
    BY <2>2, NothingTakenBack DEF FoundInv
  <2>7. state.step = "alert" => state.at <= now'
    <3>1. now \in Int /\ now' \in Int /\ now <= now'
      BY NothingTakenBack, TypesKept, AuthoritiesAssumption DEF TypeOK
    <3>2. state.step = "alert" => state.at \in Nat /\ state.at <= now
      BY <2>2, CallFields DEF FoundInv
    <3>. QED
      BY <3>1, <3>2
  <2>8. state.step \in {"scope", "insert"} =>
          /\ ~Exists(state.power)'
          /\ \A d \in Calls : d # c /\ Signing(d) => call[d].power # state.power
    <3>1. SUFFICES ASSUME state.step \in {"scope", "insert"}
                   PROVE  /\ ~Exists(state.power)'
                          /\ \A d \in Calls : d # c /\ Signing(d) => call[d].power # state.power
      OBVIOUS
    <3>2. Signing(c)
      BY <2>2, <3>1 DEF Signing
    <3>3. ~Exists(call[c].power)'
      BY <2>5, <3>2
    <3>. QED
      BY <2>2, <3>2, <3>3 DEF FoundInv, Exists
  <2>9. state.step = "create" => \A p \in state.content : Registered(p)'
    <3>1. SUFFICES ASSUME state.step = "create", NEW p \in state.content
                   PROVE  Registered(p)'
      OBVIOUS
    <3>2. p \in Powers /\ Registered(p)
      BY <2>2, <3>1, CallFields DEF Contents, FoundInv
    <3>. QED
      BY <3>2, NothingTakenBack DEF Registered
  <2>10. state.step = "reread" => batch'[state.key] # {} \/ ~OnePerCompany(state.content)
    <3>1. state.step = "reread" => state.key \in RequestKeys
      BY <2>2, CallFields
    <3>. QED
      BY <2>2, <3>1, NothingTakenBack DEF FoundInv
  <2>. HIDE <2>2
  <2>. QED
    BY <2>3, <2>5, <2>6, <2>7, <2>8, <2>9, <2>10, FoundStep
<1>. QED
  BY <1>1, <1>2

(***************************************************************************)
(* A step of one request that creates no power leaves the others' fresh.   *)
(***************************************************************************)
LEMMA OthersStayFresh ==
  ASSUME TypeOK, FoundInv, NEW c \in Calls, NEW state, Goes(c, state), UNCHANGED power
  PROVE  \A d \in Calls : d # c /\ Signing(d) => ~Exists(call[d].power)'
<1>1. \A d \in Calls : d # c => call'[d] = call[d]
  BY DEF Goes, TypeOK
<1>. QED
  BY <1>1 DEF Exists, FoundInv

LEMMA FoundPlainStep ==
  ASSUME TypeOK, FoundInv, [Next]_vars, NEW c \in Calls, NEW state, Goes(c, state), UNCHANGED power,
         state.step \in {"idle", "count", "deactivate", "authorize"}
  PROVE  FoundInv'
<1>1. call' = [call EXCEPT ![c] = state]
  BY DEF Goes
<1>. QED
  BY <1>1, FoundStep, OthersStayFresh

LEMMA FoundPowerStep ==
  ASSUME TypeOK, FoundInv, [Next]_vars, NEW c \in Calls, PowerStep(c)
  PROVE  FoundInv'
<1>. USE DEF authorityVars, alertVars, syncVars
<1>1. ASSUME NEW p \in Powers, NEW r \in Responsibles, NEW k \in Certificates \union {NoCertificate},
             NEW period \in Periods, RequestPower(c, p, r, k, period)
      PROVE  FoundInv'
  <2>1. PICK row : Goes(c, [step |-> IF k = NoCertificate THEN "insert" ELSE "scope", power |-> p, row |-> row])
    BY <1>1 DEF RequestPower
  <2>2. PICK state : state = [step |-> IF k = NoCertificate THEN "insert" ELSE "scope", power |-> p, row |-> row]
    OBVIOUS
  <2>3. call' = [call EXCEPT ![c] = state] /\ Goes(c, state)
    BY <2>1, <2>2 DEF Goes
  <2>4. /\ ~Exists(p) /\ UNCHANGED power
        /\ \A d \in Calls : call[d].step \in {"scope", "insert"} => call[d].power # p
    BY <1>1 DEF RequestPower
  <2>5. state.step \in {"scope", "insert"} /\ state.power = p
    BY <2>2
  <2>6. ~Exists(state.power)' /\ \A d \in Calls : d # c /\ Signing(d) => call[d].power # state.power
    BY <2>4, <2>5 DEF Exists, Signing
  <2>7. \A d \in Calls : d # c /\ Signing(d) => ~Exists(call[d].power)'
    BY <2>3, <2>4, OthersStayFresh
  <2>8. state.step \notin {"acknowledge", "alert", "create", "reread"}
    BY <2>5
  <2>. QED
    BY <2>3, <2>6, <2>7, <2>8, FoundStep
<1>2. ASSUME CheckScope(c)
      PROVE  FoundInv'
  <2>1. call[c].step = "scope" /\ Signing(c) /\ UNCHANGED power
    BY <1>2 DEF CheckScope, Signing
  <2>2. CASE Answered(c)
    BY <2>1, <2>2, FoundPlainStep DEF Answered, Idle
  <2>3. CASE Goes(c, [call[c] EXCEPT !.step = "insert"])
    <3>1. PICK state : state = [call[c] EXCEPT !.step = "insert"]
      OBVIOUS
    <3>2. state.step = "insert" /\ state.power = call[c].power
      BY <2>1, <3>1, CallFields
    <3>3. call' = [call EXCEPT ![c] = state] /\ Goes(c, state)
      BY <2>3, <3>1 DEF Goes
    <3>4. ~Exists(state.power)' /\ \A d \in Calls : d # c /\ Signing(d) => call[d].power # state.power
      BY <2>1, <3>1, <3>2 DEF Exists, FoundInv
    <3>5. \A d \in Calls : d # c /\ Signing(d) => ~Exists(call[d].power)'
      BY <2>1, <3>3, OthersStayFresh
    <3>. QED
      BY <3>2, <3>3, <3>4, <3>5, FoundStep
  <2>. QED
    BY <1>2, <2>2, <2>3 DEF CheckScope
<1>3. ASSUME InsertPower(c)
      PROVE  FoundInv'
  <2>1. PICK p \in Powers, row \in PowerRows :
          /\ p = call[c].power /\ ~Exists(p)
          /\ power' = [power EXCEPT ![p] = [row EXCEPT !.since = now]]
    BY <1>3, InsertIsOfFreshPower
  <2>2. Signing(c)
    BY <1>3, InsertIsOfFreshPower
  <2>3. call' = [call EXCEPT ![c] = Idle]
    BY <1>3 DEF InsertPower, Answered, Goes
  <2>4. ASSUME NEW d \in Calls, d # c, Signing(d)
        PROVE  ~Exists(call[d].power)'
    <3>1. PICK q \in Powers : q = call[d].power /\ ~Exists(q) /\ q # p
      BY <2>1, <2>2, <2>4, CallFields DEF FoundInv
    <3>2. call'[d] = call[d] /\ power'[q] = power[q]
      BY <2>1, <2>3, <2>4, <3>1 DEF TypeOK
    <3>. QED
      BY <3>1, <3>2 DEF Exists
  <2>5. Idle.step = "idle"
    BY DEF Idle
  <2>. QED
    BY <2>3, <2>4, <2>5, FoundStep
<1>4. ASSUME ReferenceConflict(c)
      PROVE  FoundInv'
  BY <1>4, FoundPlainStep DEF ReferenceConflict, Answered, Idle
<1>. QED
  BY <1>1, <1>2, <1>3, <1>4 DEF PowerStep

LEMMA FoundDeactivationStep ==
  ASSUME TypeOK, FoundInv, [Next]_vars, NEW c \in Calls, DeactivationStep(c)
  PROVE  FoundInv'
<1>. USE DEF authorityVars
<1>1. UNCHANGED power
  BY DEF DeactivationStep, FindResponsible, CountPowers, DeactivateResponsible
<1>2. PICK state : Goes(c, state) /\ state.step \in {"idle", "count", "deactivate"}
  <2>1. CASE \E r \in Responsibles : FindResponsible(c, r)
    BY <2>1 DEF FindResponsible
  <2>2. CASE CountPowers(c)
    <3>1. PICK next : next = [call[c] EXCEPT !.step = "deactivate"]
      OBVIOUS
    <3>2. next.step = "deactivate"
      BY <2>2, <3>1, CallFields DEF CountPowers
    <3>3. Goes(c, next) \/ Goes(c, Idle)
      BY <2>2, <3>1 DEF CountPowers, Answered
    <3>. QED
      BY <3>2, <3>3 DEF Idle
  <2>3. CASE DeactivateResponsible(c)
    BY <2>3 DEF DeactivateResponsible, Answered, Idle
  <2>. QED
    BY <2>1, <2>2, <2>3 DEF DeactivationStep
<1>. QED
  BY <1>1, <1>2, FoundPlainStep

LEMMA FoundAlertStep ==
  ASSUME TypeOK, FoundInv, [Next]_vars, NEW c \in Calls, AlertStep(c)
  PROVE  FoundInv'
<1>. USE DEF authorityVars
<1>1. UNCHANGED power
  BY DEF AlertStep, ListSources, CreateAlerts, FindAlert, AcknowledgeAlert
<1>2. CASE ListSources(c)
  <2>1. PICK state : state = [step |-> "alert", at |-> now, sources |-> DueSources(now)]
    OBVIOUS
  <2>2. Goes(c, state) /\ call' = [call EXCEPT ![c] = state] /\ UNCHANGED now
    BY <1>2, <2>1 DEF ListSources, Goes
  <2>3. state.step = "alert" /\ state.at <= now'
    BY <2>1, <2>2, AuthoritiesAssumption DEF TypeOK
  <2>. QED
    BY <1>1, <2>2, <2>3, OthersStayFresh, FoundStep
<1>3. ASSUME NEW a \in alerts, FindAlert(c, a)
      PROVE  FoundInv'
  <2>1. PICK state : state = [step |-> "acknowledge", alert |-> a]
    OBVIOUS
  <2>2. Goes(c, state) /\ call' = [call EXCEPT ![c] = state] /\ UNCHANGED alerts
    BY <1>3, <2>1 DEF FindAlert, Goes, alertVars
  <2>3. state.step = "acknowledge" /\ state.alert \in alerts'
    BY <2>1, <2>2
  <2>. QED
    BY <1>1, <2>2, <2>3, OthersStayFresh, FoundStep
<1>4. CASE CreateAlerts(c) \/ AcknowledgeAlert(c)
  BY <1>1, <1>4, FoundPlainStep DEF CreateAlerts, AcknowledgeAlert, Answered, Idle
<1>. QED
  BY <1>2, <1>3, <1>4 DEF AlertStep

LEMMA FoundBatchStep ==
  ASSUME TypeOK, FoundInv, [Next]_vars, NEW c \in Calls, BatchStep(c)
  PROVE  FoundInv'
<1>. USE DEF authorityVars
<1>1. UNCHANGED power
  BY DEF BatchStep, FindBatch, AuthorizeBatch, CreateBatch, RereadBatch
<1>2. ASSUME NEW k \in RequestKeys, NEW asked \in Contents, FindBatch(c, k, asked)
      PROVE  FoundInv'
  <2>1. CASE UNCHANGED call
    BY <1>1, <2>1, FoundStutter DEF Exists
  <2>2. CASE Goes(c, [step |-> "authorize", key |-> k, content |-> asked, at |-> now])
    BY <1>1, <2>2, FoundPlainStep
  <2>. QED
    BY <1>2, <2>1, <2>2 DEF FindBatch
<1>3. CASE AuthorizeBatch(c)
  <2>1. call[c].step = "authorize"
    BY <1>3 DEF AuthorizeBatch
  <2>2. PICK state : state = [call[c] EXCEPT !.step = "create"]
    OBVIOUS
  <2>3. state.step = "create" /\ state.content = call[c].content /\ call[c].content \subseteq Powers
    BY <2>1, <2>2, CallFields DEF Contents
  <2>4. CASE Goes(c, state) /\ \A p \in call[c].content : Authorized(p, call[c].at)
    <3>1. \A p \in state.content : Registered(p)'
      BY <1>1, <2>3, <2>4 DEF Authorized, Registered, Exists
    <3>2. call' = [call EXCEPT ![c] = state]
      BY <2>4 DEF Goes
    <3>. QED
      BY <1>1, <2>3, <2>4, <3>1, <3>2, OthersStayFresh, FoundStep
  <2>5. CASE Answered(c)
    BY <1>1, <2>5, FoundPlainStep DEF Answered, Idle
  <2>. QED
    BY <1>3, <2>2, <2>4, <2>5 DEF AuthorizeBatch
<1>4. CASE CreateBatch(c)
  <2>1. call[c].step = "create"
    BY <1>4 DEF CreateBatch
  <2>2. PICK state : state = [call[c] EXCEPT !.step = "reread"]
    OBVIOUS
  <2>3. state.step = "reread" /\ state.content = call[c].content /\ state.key = call[c].key
    BY <2>1, <2>2, CallFields
  <2>4. CASE ~(batch[call[c].key] = {} /\ OnePerCompany(call[c].content))
    <3>1. Goes(c, state) /\ UNCHANGED batch
      BY <1>4, <2>2, <2>4 DEF CreateBatch
    <3>2. call' = [call EXCEPT ![c] = state]
      BY <3>1 DEF Goes
    <3>3. batch'[state.key] # {} \/ ~OnePerCompany(state.content)
      BY <2>3, <2>4, <3>1
    <3>. QED
      BY <1>1, <2>3, <3>1, <3>2, <3>3, OthersStayFresh, FoundStep
  <2>5. CASE Answered(c)
    BY <1>1, <2>5, FoundPlainStep DEF Answered, Idle
  <2>. QED
    BY <1>4, <2>4, <2>5 DEF CreateBatch
<1>5. CASE RereadBatch(c)
  BY <1>1, <1>5, FoundPlainStep DEF RereadBatch, Answered, Idle
<1>. QED
  BY <1>2, <1>3, <1>4, <1>5 DEF BatchStep

(***************************************************************************)
(* Types and findings are kept together: an acknowledgement stays within   *)
(* the alerts because the alert it found was not deleted.                  *)
(***************************************************************************)
LEMMA FoundInvariant == Spec => [](TypeOK /\ FoundInv)
<1>1. Init => FoundInv
  BY DEF Init, FoundInv, Idle, Signing
<1>2. TypeOK /\ FoundInv /\ [Next]_vars => FoundInv'
  <2>. SUFFICES ASSUME TypeOK, FoundInv, [Next]_vars
                PROVE  FoundInv'
    OBVIOUS
  <2>. USE DEF authorityVars
  <2>1. CASE \E c \in Calls : DeactivationStep(c) \/ PowerStep(c) \/ AlertStep(c) \/ BatchStep(c)
    BY <2>1, FoundDeactivationStep, FoundPowerStep, FoundAlertStep, FoundBatchStep
  <2>2. ASSUME NEW p \in Powers, RevokePower(p)
        PROVE  FoundInv'
    <3>1. /\ UNCHANGED call /\ power[p].status = "ACTIVE"
          /\ power' = [power EXCEPT ![p].status = "REVOKED"]
      BY <2>2 DEF RevokePower
    <3>2. \A q \in Powers : ~Exists(q) => ~Exists(q)'
      BY <3>1 DEF TypeOK, Exists
    <3>. QED
      BY <3>1, <3>2, FoundStutter
  <2>3. CASE UNCHANGED <<power, call>>
    BY <2>3, FoundStutter DEF Exists
  <2>4. ASSUME \/ \E r \in Responsibles : AssignResponsible(r)
               \/ \E k \in Certificates : RevokeCertificate(k)
               \/ \E j \in Jobs : LockJob(j) \/ JudgeJob(j) \/ LeaveJob(j)
               \/ Tick
        PROVE  UNCHANGED <<power, call>>
    BY <2>4 DEF AssignResponsible, RevokeCertificate, LockJob, JudgeJob, LeaveJob, Tick
  <2>5. CASE Next
    BY <2>1, <2>2, <2>3, <2>4, <2>5 DEF Next
  <2>6. CASE UNCHANGED vars
    BY <2>3, <2>6 DEF vars
  <2>. QED
    BY <2>5, <2>6
<1>3. TypeOK /\ FoundInv /\ [Next]_vars => TypeOK'
  BY TypesKept
<1>. QED
  BY <1>1, <1>2, <1>3, InitialTypes, PTL DEF Spec

(***************************************************************************)
(* The variables have their types in every reachable state.                *)
(***************************************************************************)
THEOREM AuthoritiesTypeCorrect == Spec => []TypeOK
  BY FoundInvariant, PTL

-------------------------------------------------------------------------------
(* Responsibles and powers of attorney *)

(***************************************************************************)
(* Skew, and what brings it about, are kept together: the insert of a      *)
(* power relies on what was noted when its responsible was deactivated,    *)
(* the deactivation on what was noted of inserts since its count.          *)
(***************************************************************************)
LEMMA SigningInvariant == Spec => [](SkewNeedsOverlap /\ SigningInv)
<1>1. Init => SkewNeedsOverlap /\ SigningInv
  BY DEF Init, SkewNeedsOverlap, SigningInv, Signing, Idle, Absent
<1>2. TypeOK /\ FoundInv /\ SkewNeedsOverlap /\ SigningInv /\ [Next]_vars => (SkewNeedsOverlap /\ SigningInv)'
  <2>. SUFFICES ASSUME TypeOK, FoundInv, SkewNeedsOverlap, SigningInv, [Next]_vars
                PROVE  SkewNeedsOverlap' /\ SigningInv'
    OBVIOUS
  <2>. USE DEF authorityVars
  <2>1. ASSUME UNCHANGED <<responsible, power, overlapped, call>>
        PROVE  SkewNeedsOverlap' /\ SigningInv'
    BY <2>1 DEF SkewNeedsOverlap, SigningInv, Signing, ActivePowers
  \* A request moves on, with what it has read of a power or on to no such thing.
  <2>2. ASSUME NEW c \in Calls, NEW state, Goes(c, state), UNCHANGED <<responsible, power, overlapped>>,
               state.step \in {"scope", "insert"} =>
                 responsible[state.row.responsible] = "ACTIVE" \/ state.power \in overlapped,
               state.step = "deactivate" => ActivePowers(state.responsible) \subseteq overlapped
        PROVE  SkewNeedsOverlap' /\ SigningInv'
    <3>1. call'[c] = state /\ \A d \in Calls : d # c => call'[d] = call[d]
      BY <2>2 DEF Goes, TypeOK
    <3>2. SkewNeedsOverlap'
      BY <2>2 DEF SkewNeedsOverlap
    <3>3. SigningInv'
      <4>. SUFFICES ASSUME NEW d \in Calls
                    PROVE  /\ Signing(d)' => responsible[call'[d].row.responsible] = "ACTIVE"
                                             \/ call'[d].power \in overlapped
                           /\ call'[d].step = "deactivate" =>
                                ActivePowers(call'[d].responsible) \subseteq overlapped
        BY <2>2 DEF SigningInv, ActivePowers
      <4>1. CASE d = c
        BY <2>2, <3>1, <4>1 DEF Signing
      <4>2. CASE d # c
        BY <3>1, <4>2 DEF Signing, SigningInv
      <4>. QED
        BY <4>1, <4>2
    <3>. QED
      BY <3>2, <3>3
  <2>3. ASSUME NEW c \in Calls, Answered(c), UNCHANGED <<responsible, power, overlapped>>
        PROVE  SkewNeedsOverlap' /\ SigningInv'
    BY <2>2, <2>3 DEF Answered, Idle
  <2>4. ASSUME NEW r \in Responsibles, AssignResponsible(r)
        PROVE  SkewNeedsOverlap' /\ SigningInv'
    <3>1. responsible' = [responsible EXCEPT ![r] = "ACTIVE"] /\ UNCHANGED <<power, overlapped, call>>
      BY <2>4 DEF AssignResponsible
    <3>2. SkewNeedsOverlap'
      <4>1. \A p \in Powers : power[p].status = "ACTIVE" => power[p].responsible \in Responsibles
        BY DEF TypeOK, Absent, PowerRows
      <4>. QED
        BY <3>1, <4>1 DEF SkewNeedsOverlap, TypeOK
    <3>3. SigningInv'
      <4>1. \A d \in Calls : Signing(d) => call[d].row.responsible \in Responsibles
        BY CallFields DEF PowerRows
      <4>. QED
        BY <3>1, <4>1 DEF SigningInv, Signing, ActivePowers, TypeOK
    <3>. QED
      BY <3>2, <3>3
  <2>5. ASSUME NEW p \in Powers, RevokePower(p)
        PROVE  SkewNeedsOverlap' /\ SigningInv'
    <3>1. /\ power' = [power EXCEPT ![p].status = "REVOKED"] /\ power[p].status = "ACTIVE"
          /\ UNCHANGED <<responsible, overlapped, call>>
      BY <2>5 DEF RevokePower
    <3>2. \A q \in Powers : power'[q].status = "ACTIVE" => power'[q] = power[q]
      <4>1. power[p] \in PowerRows
        BY <3>1 DEF TypeOK, Absent
      <4>2. power'[p].status = "REVOKED"
        BY <3>1, <4>1 DEF TypeOK, PowerRows
      <4>. QED
        BY <3>1, <4>2 DEF TypeOK
    <3>3. SkewNeedsOverlap'
      BY <3>1, <3>2 DEF SkewNeedsOverlap
    <3>4. SigningInv'
      BY <3>1, <3>2 DEF SigningInv, Signing, ActivePowers
    <3>. QED
      BY <3>3, <3>4
  <2>6. ASSUME NEW c \in Calls, PowerStep(c)
        PROVE  SkewNeedsOverlap' /\ SigningInv'
    <3>1. ASSUME NEW p \in Powers, NEW r \in Responsibles, NEW k \in Certificates \union {NoCertificate},
                 NEW period \in Periods, RequestPower(c, p, r, k, period)
          PROVE  SkewNeedsOverlap' /\ SigningInv'
      <4>1. PICK row : /\ row.responsible = r
                       /\ Goes(c, [step |-> IF k = NoCertificate THEN "insert" ELSE "scope",
                                   power |-> p, row |-> row])
        BY <3>1 DEF RequestPower
      <4>2. /\ ~Exists(p) /\ responsible[r] = "ACTIVE"
            /\ overlapped' = overlapped \ {p} /\ UNCHANGED <<responsible, power>>
            /\ \A d \in Calls : call[d].step \in {"scope", "insert"} => call[d].power # p
        BY <3>1 DEF RequestPower, Signable
      <4>3. /\ call'[c] = [step |-> IF k = NoCertificate THEN "insert" ELSE "scope", power |-> p, row |-> row]
            /\ \A d \in Calls : d # c => call'[d] = call[d]
        BY <4>1 DEF Goes, TypeOK
      <4>4. \A q \in Powers : power[q].status = "ACTIVE" => q # p
        BY <4>2 DEF Exists
      <4>5. SkewNeedsOverlap'
        BY <4>2, <4>4 DEF SkewNeedsOverlap
      <4>6. SigningInv'
        <5>. SUFFICES ASSUME NEW d \in Calls
                      PROVE  /\ Signing(d)' => responsible'[call'[d].row.responsible] = "ACTIVE"
                                               \/ call'[d].power \in overlapped'
                             /\ call'[d].step = "deactivate" => ActivePowers(call[d].responsible)' \subseteq overlapped'
          BY DEF SigningInv, ActivePowers
        <5>1. CASE d = c
          BY <4>1, <4>2, <4>3, <5>1
        <5>2. CASE d # c
          BY <4>2, <4>3, <4>4, <5>2 DEF SigningInv, Signing, ActivePowers
        <5>. QED
          BY <5>1, <5>2
      <4>. QED
        BY <4>5, <4>6
    <3>2. CASE CheckScope(c)
      <4>1. call[c].step = "scope" /\ Signing(c) /\ UNCHANGED <<responsible, power, overlapped>>
        BY <3>2 DEF CheckScope, Signing
      <4>2. PICK state : state = [call[c] EXCEPT !.step = "insert"]
        OBVIOUS
      <4>3. state.step = "insert" /\ state.power = call[c].power /\ state.row = call[c].row
        BY <4>1, <4>2, CallFields
      <4>4. responsible[state.row.responsible] = "ACTIVE" \/ state.power \in overlapped
        BY <4>1, <4>3 DEF SigningInv
      <4>5. Goes(c, state) \/ Answered(c)
        BY <3>2, <4>2 DEF CheckScope
      <4>. QED
        BY <2>2, <2>3, <4>1, <4>3, <4>4, <4>5
    <3>3. CASE InsertPower(c)
      <4>1. PICK p \in Powers, row \in PowerRows :
              /\ p = call[c].power /\ row = call[c].row /\ ~Exists(p) /\ Signing(c)
              /\ power' = [power EXCEPT ![p] = [row EXCEPT !.since = now]]
        BY <3>3, InsertIsOfFreshPower
      <4>2. /\ call'[c] = Idle /\ \A d \in Calls : d # c => call'[d] = call[d]
            /\ UNCHANGED responsible
        BY <3>3 DEF InsertPower, Answered, Goes, TypeOK
      <4>3. /\ overlapped' = overlapped \union {p} \/ overlapped' = overlapped
            /\ (\E d \in Calls : call[d] = [step |-> "deactivate", responsible |-> row.responsible])
                 => p \in overlapped'
        BY <3>3, <4>1 DEF InsertPower
      <4>4. /\ power'[p].responsible = row.responsible
            /\ \A q \in Powers : q # p => power'[q] = power[q]
        BY <4>1 DEF TypeOK, PowerRows
      <4>5. responsible[row.responsible] = "ACTIVE" \/ p \in overlapped
        BY <4>1 DEF SigningInv
      <4>6. SkewNeedsOverlap'
        BY <4>2, <4>3, <4>4, <4>5 DEF SkewNeedsOverlap
      <4>7. SigningInv'
        <5>. SUFFICES ASSUME NEW d \in Calls
                      PROVE  /\ Signing(d)' => responsible'[call'[d].row.responsible] = "ACTIVE"
                                               \/ call'[d].power \in overlapped'
                             /\ call'[d].step = "deactivate" => ActivePowers(call[d].responsible)' \subseteq overlapped'
          BY DEF SigningInv, ActivePowers
        <5>1. CASE d = c
          BY <4>2, <5>1 DEF Signing, Idle
        <5>2. CASE d # c
          <6>1. call'[d] = call[d]
            BY <4>2, <5>2
          <6>2. Signing(d)' => responsible'[call'[d].row.responsible] = "ACTIVE" \/ call'[d].power \in overlapped'
            BY <4>2, <4>3, <6>1 DEF SigningInv, Signing
          <6>3. ASSUME call[d].step = "deactivate"
                PROVE  ActivePowers(call[d].responsible)' \subseteq overlapped'
            <7>1. call[d] = [step |-> "deactivate", responsible |-> call[d].responsible]
              BY <6>3, CallFields
            <7>2. row.responsible = call[d].responsible => p \in overlapped'
              BY <4>3, <7>1
            <7>3. ActivePowers(call[d].responsible) \subseteq overlapped
              BY <6>3 DEF SigningInv
            <7>. QED
              BY <4>3, <4>4, <6>1, <7>2, <7>3 DEF ActivePowers
          <6>. QED
            BY <6>1, <6>2, <6>3
        <5>. QED
          BY <5>1, <5>2
      <4>. QED
        BY <4>6, <4>7
    <3>4. CASE ReferenceConflict(c)
      BY <2>3, <3>4 DEF ReferenceConflict
    <3>. QED
      BY <2>6, <3>1, <3>2, <3>3, <3>4 DEF PowerStep
  <2>7. ASSUME NEW c \in Calls, DeactivationStep(c)
        PROVE  SkewNeedsOverlap' /\ SigningInv'
    <3>1. ASSUME NEW r \in Responsibles, FindResponsible(c, r)
          PROVE  SkewNeedsOverlap' /\ SigningInv'
      BY <2>2, <3>1 DEF FindResponsible
    <3>2. CASE CountPowers(c)
      <4>1. call[c].step = "count" /\ UNCHANGED <<responsible, power, overlapped>>
        BY <3>2 DEF CountPowers
      <4>2. PICK state : state = [call[c] EXCEPT !.step = "deactivate"]
        OBVIOUS
      <4>3. state.step = "deactivate" /\ state.responsible = call[c].responsible
        BY <4>1, <4>2, CallFields
      <4>4. CASE Answered(c)
        BY <2>3, <4>1, <4>4
      <4>5. CASE Goes(c, state) /\ Standing(call[c].responsible) = {}
        BY <2>2, <4>1, <4>3, <4>5 DEF Standing
      <4>. QED
        BY <3>2, <4>2, <4>4, <4>5 DEF CountPowers
    <3>3. CASE DeactivateResponsible(c)
      <4>1. PICK r \in Responsibles : r = call[c].responsible
        BY <3>3, CallFields DEF DeactivateResponsible
      <4>2. /\ call[c].step = "deactivate" /\ responsible' = [responsible EXCEPT ![r] = "INACTIVE"]
            /\ UNCHANGED power
            /\ call'[c] = Idle /\ \A d \in Calls : d # c => call'[d] = call[d]
        BY <3>3, <4>1 DEF DeactivateResponsible, Answered, Goes, TypeOK
      <4>3. /\ overlapped \subseteq overlapped'
            /\ \A d \in Calls : Signing(d) /\ call[d].row.responsible = r => call[d].power \in overlapped'
        BY <3>3, <4>1 DEF DeactivateResponsible, Signing
      <4>4. ActivePowers(r) \subseteq overlapped
        BY <4>1, <4>2 DEF SigningInv
      <4>5. \A s \in Responsibles : s # r => responsible'[s] = responsible[s]
        BY <4>2 DEF TypeOK
      <4>6. SkewNeedsOverlap'
        <5>1. \A p \in Powers : power[p].status = "ACTIVE" => power[p].responsible \in Responsibles
          BY DEF TypeOK, Absent, PowerRows
        <5>. QED
          BY <4>2, <4>3, <4>4, <4>5, <5>1 DEF SkewNeedsOverlap, ActivePowers
      <4>7. SigningInv'
        <5>1. \A d \in Calls : Signing(d) => call[d].row.responsible \in Responsibles
          BY CallFields DEF PowerRows
        <5>. SUFFICES ASSUME NEW d \in Calls
                      PROVE  /\ Signing(d)' => responsible'[call'[d].row.responsible] = "ACTIVE"
                                               \/ call'[d].power \in overlapped'
                             /\ call'[d].step = "deactivate" => ActivePowers(call[d].responsible)' \subseteq overlapped'
          BY DEF SigningInv, ActivePowers
        <5>2. CASE d = c
          BY <4>2, <5>2 DEF Signing, Idle
        <5>3. CASE d # c
          BY <4>2, <4>3, <4>5, <5>1, <5>3 DEF Signing, SigningInv, ActivePowers
        <5>. QED
          BY <5>2, <5>3
      <4>. QED
        BY <4>6, <4>7
    <3>. QED
      BY <2>7, <3>1, <3>2, <3>3 DEF DeactivationStep
  \* Alerts, batches and jobs go their own way.
  <2>8. ASSUME NEW c \in Calls, NEW state, Goes(c, state), UNCHANGED <<responsible, power, overlapped>>,
               state.step \notin {"scope", "insert", "deactivate"}
        PROVE  SkewNeedsOverlap' /\ SigningInv'
    BY <2>2, <2>8
  <2>9. ASSUME NEW c \in Calls, AlertStep(c)
        PROVE  SkewNeedsOverlap' /\ SigningInv'
    <3>1. UNCHANGED <<responsible, power, overlapped>>
      BY <2>9 DEF AlertStep, ListSources, CreateAlerts, FindAlert, AcknowledgeAlert
    <3>2. PICK state : Goes(c, state) /\ state.step \in {"idle", "alert", "acknowledge"}
      <4>1. CASE ListSources(c)
        BY <4>1 DEF ListSources
      <4>2. CASE \E a \in alerts : FindAlert(c, a)
        BY <4>2 DEF FindAlert
      <4>3. CASE CreateAlerts(c) \/ AcknowledgeAlert(c)
        BY <4>3 DEF CreateAlerts, AcknowledgeAlert, Answered, Idle
      <4>. QED
        BY <2>9, <4>1, <4>2, <4>3 DEF AlertStep
    <3>. QED
      BY <2>8, <3>1, <3>2
  <2>10. ASSUME NEW c \in Calls, BatchStep(c)
         PROVE  SkewNeedsOverlap' /\ SigningInv'
    <3>1. UNCHANGED <<responsible, power, overlapped>>
      BY <2>10 DEF BatchStep, FindBatch, AuthorizeBatch, CreateBatch, RereadBatch
    <3>2. PICK create, reread : create = [call[c] EXCEPT !.step = "create"]
                                /\ reread = [call[c] EXCEPT !.step = "reread"]
      OBVIOUS
    <3>3. call[c].step \in {"authorize", "create", "reread"} => create.step = "create" /\ reread.step = "reread"
      BY <3>2, CallFields
    <3>4. CASE UNCHANGED call
      BY <2>1, <3>1, <3>4
    <3>5. CASE Answered(c)
      BY <2>3, <3>1, <3>5
    <3>6. CASE \E k \in RequestKeys, asked \in Contents :
                 Goes(c, [step |-> "authorize", key |-> k, content |-> asked, at |-> now])
      BY <2>8, <3>1, <3>6
    <3>7. CASE call[c].step \in {"authorize", "create", "reread"} /\ (Goes(c, create) \/ Goes(c, reread))
      BY <2>8, <3>1, <3>3, <3>7
    <3>. QED
      BY <2>10, <3>2, <3>4, <3>5, <3>6, <3>7 DEF BatchStep, FindBatch, AuthorizeBatch, CreateBatch, RereadBatch
  <2>11. ASSUME \/ \E k \in Certificates : RevokeCertificate(k)
                \/ \E j \in Jobs : LockJob(j) \/ JudgeJob(j) \/ LeaveJob(j)
                \/ Tick
         PROVE  UNCHANGED <<responsible, power, overlapped, call>>
    BY <2>11 DEF RevokeCertificate, LockJob, JudgeJob, LeaveJob, Tick
  <2>12. CASE Next
    BY <2>1, <2>4, <2>5, <2>6, <2>7, <2>9, <2>10, <2>11, <2>12 DEF Next
  <2>13. CASE UNCHANGED vars
    BY <2>1, <2>13 DEF vars
  <2>. QED
    BY <2>12, <2>13
<1>. QED
  BY <1>1, <1>2, FoundInvariant, PTL DEF Spec

(***************************************************************************)
(* An active power under an inactive responsible was inserted across the   *)
(* deactivation, for any number of requests at once.                       *)
(***************************************************************************)
THEOREM SkewIsAccounted == Spec => []SkewNeedsOverlap
  BY SigningInvariant, PTL

-------------------------------------------------------------------------------
(* Batches, jobs and alerts *)

(***************************************************************************)
(* An idempotency key stands for one batch, whoever wins the insert.       *)
(***************************************************************************)
THEOREM KeyStandsForOneBatch == Spec => []OneBatchPerKey
<1>1. Init => OneBatchPerKey
  BY DEF Init, OneBatchPerKey
<1>2. TypeOK /\ FoundInv /\ OneBatchPerKey /\ [Next]_vars => OneBatchPerKey'
  <2>. SUFFICES ASSUME TypeOK, FoundInv, OneBatchPerKey, [Next]_vars
                PROVE  OneBatchPerKey'
    OBVIOUS
  <2>. USE DEF syncVars
  <2>1. \A k \in RequestKeys : batch[k] # {} => batch'[k] = batch[k]
    BY NothingTakenBack
  <2>2. \A a \in answered : a[1] \in RequestKeys /\ a[2] # {} /\ a[2] = a[3] /\ a[3] = batch[a[1]]
    <3>1. \A a \in answered : a[1] \in RequestKeys /\ a[2] \in Contents
      BY DEF TypeOK
    <3>. QED
      BY <3>1 DEF Contents, OneBatchPerKey
  <2>3. \A r \in refused : r[1] \in RequestKeys /\ (batch[r[1]] \notin {{}, r[2]} \/ ~OnePerCompany(r[2]))
    BY DEF TypeOK, OneBatchPerKey
  <2>4. /\ \A a \in answered : a[2] = a[3] /\ a[3] = batch'[a[1]]
        /\ \A r \in refused : batch'[r[1]] \notin {{}, r[2]} \/ ~OnePerCompany(r[2])
    BY <2>1, <2>2, <2>3
  <2>5. ASSUME UNCHANGED <<answered, refused>>
        PROVE  OneBatchPerKey'
    BY <2>4, <2>5 DEF OneBatchPerKey
  <2>6. ASSUME NEW k \in RequestKeys, NEW asked \in Contents, Answer(k, asked), UNCHANGED batch,
               batch[k] # {} \/ ~OnePerCompany(asked)
        PROVE  OneBatchPerKey'
    <3>1. CASE batch[k] = asked
      <4>1. answered' = answered \union {<<k, asked, asked>>} /\ UNCHANGED refused
        BY <2>6, <3>1 DEF Answer
      <4>. QED
        BY <2>4, <2>6, <3>1, <4>1 DEF OneBatchPerKey
    <3>2. CASE batch[k] # asked
      <4>1. refused' = refused \union {<<k, asked>>} /\ UNCHANGED answered
        BY <2>6, <3>2 DEF Answer
      <4>. QED
        BY <2>4, <2>6, <3>2, <4>1 DEF OneBatchPerKey
    <3>. QED
      BY <3>1, <3>2
  <2>7. ASSUME NEW c \in Calls, BatchStep(c)
        PROVE  OneBatchPerKey'
    <3>1. ASSUME NEW k \in RequestKeys, NEW asked \in Contents, FindBatch(c, k, asked)
          PROVE  OneBatchPerKey'
      <4>1. CASE batch[k] # {}
        <5>1. Answer(k, asked) /\ UNCHANGED batch
          BY <3>1, <4>1 DEF FindBatch
        <5>. QED
          BY <2>6, <4>1, <5>1
      <4>2. CASE batch[k] = {}
        BY <2>5, <3>1, <4>2 DEF FindBatch
      <4>. QED
        BY <4>1, <4>2
    <3>2. CASE AuthorizeBatch(c)
      BY <2>5, <3>2 DEF AuthorizeBatch
    <3>3. CASE CreateBatch(c)
      <4>1. PICK k \in RequestKeys, asked \in Contents : k = call[c].key /\ asked = call[c].content
        BY <3>3, CallFields DEF CreateBatch
      <4>2. UNCHANGED refused
        BY <3>3 DEF CreateBatch
      <4>3. CASE batch[k] = {} /\ OnePerCompany(asked)
        <5>1. batch' = [batch EXCEPT ![k] = asked] /\ answered' = answered \union {<<k, asked, asked>>}
          BY <3>3, <4>1, <4>3 DEF CreateBatch
        <5>2. batch'[k] = asked
          BY <5>1 DEF TypeOK
        <5>. QED
          BY <2>4, <4>2, <5>1, <5>2 DEF OneBatchPerKey
      <4>4. CASE ~(batch[k] = {} /\ OnePerCompany(asked))
        BY <2>5, <3>3, <4>1, <4>2, <4>4 DEF CreateBatch
      <4>. QED
        BY <4>3, <4>4
    <3>4. CASE RereadBatch(c)
      <4>1. PICK k \in RequestKeys, asked \in Contents : k = call[c].key /\ asked = call[c].content
        BY <3>4, CallFields DEF RereadBatch
      <4>2. Answer(k, asked) /\ UNCHANGED batch /\ call[c].step = "reread"
        BY <3>4, <4>1 DEF RereadBatch, Reread
      <4>3. batch[k] # {} \/ ~OnePerCompany(asked)
        BY <4>1, <4>2 DEF FoundInv
      <4>. QED
        BY <2>6, <4>2, <4>3
    <3>. QED
      BY <2>7, <3>1, <3>2, <3>3, <3>4 DEF BatchStep
  <2>8. ASSUME \/ \E r \in Responsibles : AssignResponsible(r)
               \/ \E p \in Powers : RevokePower(p)
               \/ \E k \in Certificates : RevokeCertificate(k)
               \/ \E j \in Jobs : LockJob(j) \/ JudgeJob(j) \/ LeaveJob(j)
               \/ Tick
        PROVE  UNCHANGED <<answered, refused>>
    BY <2>8 DEF AssignResponsible, RevokePower, RevokeCertificate, LockJob, JudgeJob, LeaveJob, Tick
  <2>9. ASSUME NEW c \in Calls, DeactivationStep(c) \/ PowerStep(c) \/ AlertStep(c)
        PROVE  UNCHANGED <<answered, refused>>
    BY <2>9 DEF DeactivationStep, FindResponsible, CountPowers, DeactivateResponsible, PowerStep, RequestPower,
       CheckScope, InsertPower, ReferenceConflict, AlertStep, ListSources, CreateAlerts, FindAlert, AcknowledgeAlert
  <2>10. CASE Next
    BY <2>5, <2>7, <2>8, <2>9, <2>10 DEF Next
  <2>11. CASE UNCHANGED vars
    BY <2>5, <2>11 DEF vars
  <2>. QED
    BY <2>10, <2>11
<1>. QED
  BY <1>1, <1>2, FoundInvariant, PTL DEF Spec

(***************************************************************************)
(* What had ended once is found ended by every later read at that time.    *)
(***************************************************************************)
LEMMA EndedForGood ==
  ASSUME TypeOK, FoundInv, [Next]_vars, NEW p \in Powers, NEW at \in Nat, Registered(p), Ended(p, at)
  PROVE  Ended(p, at)'
<1>1. /\ power'[p].certificate = power[p].certificate /\ power'[p].until = power[p].until
      /\ power[p].status = "REVOKED" => power'[p].status = "REVOKED"
  BY NothingTakenBack DEF Registered
<1>2. power[p].certificate \in Certificates
  BY DEF Registered, Exists, TypeOK, Absent, PowerRows
<1>3. certificate[power[p].certificate] = "REVOKED" => certificate'[power[p].certificate] = "REVOKED"
  BY <1>2, NothingTakenBack
<1>. QED
  BY <1>1, <1>3 DEF Ended

LEMMA AuthorizedIsAlive ==
  ASSUME TypeOK, NEW p \in Powers, NEW at \in Nat, Authorized(p, at)
  PROVE  ~Ended(p, at) /\ Registered(p)
<1>1. power[p].status = "ACTIVE" /\ at <= power[p].until /\ power[p].certificate # NoCertificate
  BY DEF Authorized
<1>2. power[p] \in PowerRows
  BY <1>1 DEF TypeOK, Absent
<1>3. PICK k \in Certificates : k = power[p].certificate /\ certificate[k] = "ACTIVE" /\ at <= Window[k].until
  BY <1>1, <1>2 DEF Authorized, PowerRows
<1>4. power[p].until \in Int /\ Window[k].until \in Int
  BY <1>2, AuthoritiesAssumption DEF PowerRows, Spans
<1>. QED
  BY <1>1, <1>3, <1>4 DEF Ended, Registered, Exists

(***************************************************************************)
(* The read that follows the lock judges at the time of the claim, so what *)
(* had ended by then is not queried for.                                   *)
(***************************************************************************)
LEMMA JobInvariant == Spec => [](JobInv /\ QueriedUnderLivingAuthority)
<1>1. Init => JobInv /\ QueriedUnderLivingAuthority
  BY DEF Init, JobInv, QueriedUnderLivingAuthority, NoJob
<1>2. TypeOK /\ FoundInv /\ JobInv /\ QueriedUnderLivingAuthority /\ [Next]_vars
        => (JobInv /\ QueriedUnderLivingAuthority)'
  <2>. SUFFICES ASSUME TypeOK, FoundInv, JobInv, QueriedUnderLivingAuthority, [Next]_vars, NEW i \in Jobs
                PROVE  /\ job'[i].status # "ABSENT" => Registered(i[2])'
                       /\ job'[i].status = "LOCKED" /\ job'[i].dead => Ended(i[2], job[i].at)'
                       /\ job'[i].status = "QUERYING" => ~job'[i].dead
    BY DEF JobInv, QueriedUnderLivingAuthority
  <2>. DEFINE Goal == /\ job'[i].status # "ABSENT" => Registered(i[2])'
                      /\ job'[i].status = "LOCKED" /\ job'[i].dead => Ended(i[2], job[i].at)'
                      /\ job'[i].status = "QUERYING" => ~job'[i].dead
  <2>. USE DEF syncVars
  <2>1. i[2] \in Powers /\ job[i].at \in Nat
    BY DEF TypeOK, Jobs
  <2>2. Registered(i[2]) => Registered(i[2])'
    BY <2>1, NothingTakenBack DEF Registered
  <2>3. ASSUME UNCHANGED job[i]
        PROVE  Goal
    <3>1. job[i].status = "LOCKED" /\ job[i].dead => Ended(i[2], job[i].at)'
      <4>1. SUFFICES ASSUME job[i].status = "LOCKED", job[i].dead
                     PROVE  Ended(i[2], job[i].at)'
        OBVIOUS
      <4>2. PICK at \in Nat, p \in Powers : at = job[i].at /\ p = i[2] /\ Registered(p) /\ Ended(p, at)
        BY <2>1, <4>1 DEF JobInv
      <4>3. Ended(p, at)'
        BY <4>2, EndedForGood
      <4>. QED
        BY <2>3, <4>2, <4>3
    <3>. QED
      BY <2>2, <2>3, <3>1 DEF JobInv, QueriedUnderLivingAuthority
  <2>4. ASSUME NEW j \in Jobs, LockJob(j)
        PROVE  Goal
    <3>1. CASE i = j
      <4>1. job'[i] = [status |-> "LOCKED", at |-> now, dead |-> Ended(i[2], now)] /\ job[i].status = "QUEUED"
        BY <2>4, <3>1 DEF LockJob, TypeOK
      <4>2. job'[i].at = now /\ job'[i].dead = Ended(i[2], now) /\ job'[i].status = "LOCKED"
        BY <4>1
      <4>3. Registered(i[2])
        BY <4>1 DEF JobInv
      <4>4. now \in Nat
        BY AuthoritiesAssumption DEF TypeOK
      <4>5. Ended(i[2], now) => Ended(i[2], now)'
        <5>1. UNCHANGED <<power, certificate, now>>
          BY <2>4 DEF LockJob, authorityVars
        <5>. QED
          BY <5>1 DEF Ended
      <4>6. UNCHANGED now
        BY <2>4 DEF LockJob
      <4>. QED
        BY <2>2, <4>2, <4>3, <4>5, <4>6
    <3>2. CASE i # j
      BY <2>3, <2>4, <3>2 DEF LockJob, TypeOK
    <3>. QED
      BY <3>1, <3>2
  <2>5. ASSUME NEW j \in Jobs, JudgeJob(j)
        PROVE  Goal
    <3>1. CASE i = j
      <4>1. job[i].status = "LOCKED" /\ Registered(i[2])
        BY <2>5, <3>1 DEF JudgeJob, JobInv
      <4>2. CASE Authorized(i[2], job[i].at)
        <5>1. job'[i] = [job[i] EXCEPT !.status = "QUERYING"]
          BY <2>5, <3>1, <4>2 DEF JudgeJob, TypeOK
        <5>2. job'[i].status = "QUERYING" /\ job'[i].dead = job[i].dead
          BY <5>1 DEF TypeOK
        <5>3. ~job[i].dead
          BY <2>1, <4>1, <4>2, AuthorizedIsAlive DEF JobInv
        <5>. QED
          BY <2>2, <4>1, <5>2, <5>3
      <4>3. CASE ~Authorized(i[2], job[i].at)
        <5>1. job'[i].status = "DONE"
          BY <2>5, <3>1, <4>3 DEF JudgeJob, TypeOK, NoJob
        <5>. QED
          BY <2>2, <4>1, <5>1
      <4>. QED
        BY <4>2, <4>3
    <3>2. CASE i # j
      BY <2>3, <2>5, <3>2 DEF JudgeJob, TypeOK
    <3>. QED
      BY <3>1, <3>2
  <2>6. ASSUME NEW j \in Jobs, LeaveJob(j)
        PROVE  Goal
    <3>1. CASE i = j
      <4>1. job'[i].status \in {"QUEUED", "DONE"} /\ Registered(i[2])
        BY <2>6, <3>1 DEF LeaveJob, TypeOK, NoJob, JobInv
      <4>. QED
        BY <2>2, <4>1
    <3>2. CASE i # j
      BY <2>3, <2>6, <3>2 DEF LeaveJob, TypeOK
    <3>. QED
      BY <3>1, <3>2
  <2>7. ASSUME NEW c \in Calls, CreateBatch(c)
        PROVE  Goal
    <3>1. CASE UNCHANGED job
      BY <2>3, <3>1
    <3>2. CASE job' = [j \in Jobs |-> IF j[1] = call[c].key /\ j[2] \in call[c].content
                                        THEN [NoJob EXCEPT !.status = "QUEUED"] ELSE job[j]]
      <4>1. CASE i[1] = call[c].key /\ i[2] \in call[c].content
        <5>1. Registered(i[2])
          BY <2>7, <4>1 DEF CreateBatch, FoundInv
        <5>2. job'[i].status = "QUEUED"
          BY <3>2, <4>1 DEF NoJob
        <5>. QED
          BY <2>2, <5>1, <5>2
      <4>2. CASE ~(i[1] = call[c].key /\ i[2] \in call[c].content)
        BY <2>3, <3>2, <4>2
      <4>. QED
        BY <4>1, <4>2
    <3>. QED
      BY <2>7, <3>1, <3>2 DEF CreateBatch
  <2>8. ASSUME NEW c \in Calls, BatchStep(c)
        PROVE  Goal
    <3>1. CASE CreateBatch(c)
      BY <2>7, <3>1
    <3>2. CASE ~CreateBatch(c)
      <4>1. UNCHANGED job
        BY <2>8, <3>2 DEF BatchStep, FindBatch, AuthorizeBatch, RereadBatch
      <4>. QED
        BY <2>3, <4>1
    <3>. QED
      BY <3>1, <3>2
  <2>. HIDE DEF Goal
  <2>9. ASSUME \/ \E r \in Responsibles : AssignResponsible(r)
               \/ \E p \in Powers : RevokePower(p)
               \/ \E k \in Certificates : RevokeCertificate(k)
               \/ Tick
        PROVE  UNCHANGED job
    BY <2>9 DEF AssignResponsible, RevokePower, RevokeCertificate, Tick
  <2>10. ASSUME NEW c \in Calls, DeactivationStep(c) \/ PowerStep(c) \/ AlertStep(c)
         PROVE  UNCHANGED job
    BY <2>10 DEF DeactivationStep, FindResponsible, CountPowers, DeactivateResponsible, PowerStep, RequestPower,
       CheckScope, InsertPower, ReferenceConflict, AlertStep, ListSources, CreateAlerts, FindAlert, AcknowledgeAlert
  <2>11. Goal
    <3>1. CASE UNCHANGED vars
      BY <2>3, <3>1 DEF vars
    <3>2. CASE Next
      BY <2>3, <2>4, <2>5, <2>6, <2>8, <2>9, <2>10, <3>2 DEF Next
    <3>. QED
      BY <3>1, <3>2
  <2>. QED
    BY <2>11 DEF Goal
<1>. QED
  BY <1>1, <1>2, FoundInvariant, PTL DEF Spec

(***************************************************************************)
(* No query runs under a power or certificate that had ended when its      *)
(* claim began, whatever is revoked while the claim is under way.          *)
(***************************************************************************)
THEOREM QueriesAreAuthorized == Spec => []QueriedUnderLivingAuthority
  BY JobInvariant, PTL

-------------------------------------------------------------------------------
(* Alerts and the calendar *)

(***************************************************************************)
(* A least member is below the others; a finite set of naturals has a      *)
(* largest one.  Were there a set without, take one with the fewest        *)
(* members: without one of them it has a largest member, and the larger of *)
(* the two is the largest of all.                                          *)
(***************************************************************************)
LEMMA MinIsLeast ==
  ASSUME NEW S \in SUBSET Nat, NEW x \in S, \A y \in S : x <= y
  PROVE  Min(S) = x
<1>1. Min(S) \in S /\ \A y \in S : Min(S) <= y
  BY Zenon DEF Min
<1>2. PICK m \in Nat : m = Min(S)
  BY <1>1
<1>3. m <= x /\ x <= m
  BY <1>1, <1>2
<1>. QED
  BY <1>2, <1>3

LEMMA LargestExists ==
  ASSUME NEW S \in SUBSET Nat, S # {}, IsFiniteSet(S)
  PROVE  \E x \in S : \A y \in S : x >= y
<1>. DEFINE Unbounded(T) == T # {} /\ IsFiniteSet(T) /\ ~ \E x \in T : \A y \in T : x >= y
            Sizes == {n \in Nat : \E T \in SUBSET Nat : Unbounded(T) /\ Cardinality(T) = n}
<1>. SUFFICES ASSUME Unbounded(S) PROVE FALSE
  OBVIOUS
<1>1. Sizes # {}
  BY FS_CardinalityType
<1>2. PICK n \in Sizes : \A m \in Sizes : <<m, n>> \notin OpToRel(<, Nat)
  <2>. HIDE DEF Sizes
  <2>1. Sizes \subseteq Nat
    BY DEF Sizes
  <2>. QED
    BY <1>1, <2>1, NatLessThanWellFounded, WFMin, Zenon
<1>3. \A m \in Sizes : ~(m < n)
  BY <1>2, Zenon DEF OpToRel
<1>4. PICK T \in SUBSET Nat : Unbounded(T) /\ Cardinality(T) = n
  OBVIOUS
<1>5. PICK x \in T : TRUE
  BY <1>4
<1>6. IsFiniteSet(T \ {x}) /\ Cardinality(T \ {x}) = n - 1
  BY <1>4, <1>5, FS_RemoveElement
<1>7. Cardinality(T \ {x}) \in Nat
  BY <1>6, FS_CardinalityType
<1>8. ~Unbounded(T \ {x})
  <2>1. n - 1 \in Nat /\ n - 1 < n
    BY <1>6, <1>7
  <2>2. n - 1 \notin Sizes
    BY <1>3, <2>1
  <2>3. T \ {x} \in SUBSET Nat
    BY <1>4
  <2>. HIDE DEF Unbounded
  <2>. QED
    BY <1>6, <2>1, <2>2, <2>3
<1>9. CASE T \ {x} = {}
  <2>1. x >= x /\ \A y \in T : y = x
    BY <1>5, <1>9
  <2>. QED
    BY <1>4, <1>5, <2>1
<1>10. CASE T \ {x} # {}
  <2>1. PICK m \in T \ {x} : \A y \in T \ {x} : m >= y
    BY <1>6, <1>8, <1>10
  <2>2. m \in Nat /\ x \in Nat /\ m \in T
    BY <1>4, <1>5, <2>1
  <2>3. CASE m >= x
    BY <1>4, <1>5, <2>1, <2>2, <2>3
  <2>4. CASE x > m
    <3>1. \A y \in T : x >= y
      BY <1>4, <1>5, <2>1, <2>2, <2>4
    <3>. QED
      BY <1>4, <1>5, <3>1
  <2>. QED
    BY <2>2, <2>3, <2>4
<1>. QED
  BY <1>9, <1>10

LEMMA MaxIsLargest ==
  ASSUME NEW S \in SUBSET Nat, S # {}, IsFiniteSet(S)
  PROVE  Max(S) \in S /\ \A y \in S : Max(S) >= y
<1>1. \E x \in S : \A y \in S : x >= y
  BY LargestExists
<1>. QED
  BY <1>1, Zenon DEF Max

(***************************************************************************)
(* Whole days left, rounded up, are at most t just when the time left is   *)
(* at most t days.                                                         *)
(***************************************************************************)
LEMMA DaysMeasure ==
  ASSUME NEW ms \in Int, NEW t \in Int
  PROVE  RemainingDays(ms) <= t <=> ms <= t * Day
<1>1. PICK d \in Nat \ {0} : d = Day
  BY AuthoritiesAssumption
<1>2. PICK q \in Int : q = (ms + d - 1) \div d
  OBVIOUS
<1>3. q * d <= ms + d - 1 /\ ms + d - 1 < q * d + d
  BY <1>2
<1>4. q <= t => q * d <= t * d
  OBVIOUS
<1>5. t < q => t * d + d <= q * d
  OBVIOUS
<1>6. q * d \in Int /\ t * d \in Int
  OBVIOUS
<1>7. q <= t <=> ms <= t * d
  BY <1>3, <1>4, <1>5, <1>6
<1>. QED
  BY <1>1, <1>2, <1>7 DEF RemainingDays

(***************************************************************************)
(* A finding falls in no band narrower than the time it has left, and in   *)
(* the band t when t is the narrowest that holds it.                       *)
(***************************************************************************)
LEMMA BandsHold ==
  ASSUME NEW ms \in Int, NEW t \in Bands(ms)
  PROVE  ms <= t * Day
<1>0. Day \in Nat /\ Thresholds \subseteq Nat
  BY AuthoritiesAssumption
<1>1. CASE ms <= 0
  BY <1>0, <1>1 DEF Bands
<1>2. CASE ~(ms <= 0)
  <2>1. PICK covering \in SUBSET Nat : covering = {u \in Thresholds : RemainingDays(ms) <= u}
    BY <1>0
  <2>2. covering # {} /\ t = Min(covering)
    BY <1>2, <2>1 DEF Bands
  <2>3. t \in covering
    BY <2>2, MinIsMember
  <2>. QED
    BY <1>0, <2>1, <2>3, DaysMeasure
<1>. QED
  BY <1>1, <1>2

LEMMA NarrowestBand ==
  ASSUME NEW ms \in Int, NEW t \in Thresholds \union {0},
         ms <= t * Day,
         \A u \in Thresholds \union {0} : u < t => ms > u * Day
  PROVE  t \in Bands(ms)
<1>0. /\ Day \in Nat /\ Thresholds \subseteq Nat /\ 0 \notin Thresholds
      /\ 0 * Day = 0
  BY AuthoritiesAssumption
<1>1. CASE t = 0
  BY <1>0, <1>1 DEF Bands
<1>2. CASE t # 0
  <2>1. t \in Thresholds /\ ms > 0 /\ 0 < t
    BY <1>0, <1>2
  <2>2. PICK covering \in SUBSET Nat : covering = {u \in Thresholds : RemainingDays(ms) <= u}
    BY <1>0
  <2>3. t \in covering
    BY <1>0, <2>1, <2>2, DaysMeasure
  <2>4. \A u \in covering : t <= u
    <3>. SUFFICES ASSUME NEW u \in covering, u < t PROVE FALSE
      BY <1>0, <2>1, <2>2
    <3>1. ms <= u * Day
      BY <1>0, <2>2, DaysMeasure
    <3>2. ms > u * Day /\ u * Day \in Int
      BY <1>0, <2>2
    <3>. QED
      BY <3>1, <3>2
  <2>5. Min(covering) = t
    BY <2>3, <2>4, MinIsLeast
  <2>. QED
    BY <2>1, <2>2, <2>3, <2>5 DEF Bands
<1>. QED
  BY <1>1, <1>2

(***************************************************************************)
(* What a step does to what scans read.  A power that is active after it   *)
(* was there as it is, or is inserted by it.                               *)
(***************************************************************************)
LEMMA ActiveSources ==
  ASSUME TypeOK, FoundInv, [Next]_vars
  PROVE  /\ \A p \in Powers : power'[p].status = "ACTIVE" =>
              power'[p] = power[p] \/ power'[p].since = now
         /\ \A k \in Certificates : certificate'[k] = "ACTIVE" => certificate[k] = "ACTIVE"
<1>. USE DEF authorityVars
<1>1. ASSUME NEW k \in Certificates, certificate'[k] = "ACTIVE"
      PROVE  certificate[k] = "ACTIVE"
  BY <1>1, NothingTakenBack DEF TypeOK
<1>2. CASE UNCHANGED power
  BY <1>1, <1>2
<1>3. ASSUME NEW c \in Calls, InsertPower(c), NEW p \in Powers
      PROVE  power'[p] = power[p] \/ power'[p].since = now
  <2>1. PICK q \in Powers, row \in PowerRows : power' = [power EXCEPT ![q] = [row EXCEPT !.since = now]]
    BY <1>3, InsertIsOfFreshPower
  <2>2. [row EXCEPT !.since = now].since = now
    BY DEF PowerRows
  <2>. QED
    BY <2>1, <2>2 DEF TypeOK
<1>4. ASSUME NEW q \in Powers, RevokePower(q), NEW p \in Powers, power'[p].status = "ACTIVE"
      PROVE  power'[p] = power[p]
  <2>1. power[q].status = "ACTIVE" /\ power' = [power EXCEPT ![q].status = "REVOKED"]
    BY <1>4 DEF RevokePower
  <2>2. power[q] \in PowerRows
    BY <2>1 DEF TypeOK, Absent
  <2>3. power'[q].status = "REVOKED"
    BY <2>1, <2>2 DEF TypeOK, PowerRows
  <2>. QED
    BY <1>4, <2>1, <2>3 DEF TypeOK
<1>5. \/ UNCHANGED power
      \/ \E c \in Calls : InsertPower(c)
      \/ \E q \in Powers : RevokePower(q)
  <2>1. ASSUME NEW c \in Calls, DeactivationStep(c) \/ AlertStep(c) \/ BatchStep(c)
        PROVE  UNCHANGED power
    BY <2>1 DEF DeactivationStep, FindResponsible, CountPowers, DeactivateResponsible,
                AlertStep, ListSources, CreateAlerts, FindAlert, AcknowledgeAlert,
                BatchStep, FindBatch, AuthorizeBatch, CreateBatch, RereadBatch
  <2>2. ASSUME NEW c \in Calls, PowerStep(c)
        PROVE  UNCHANGED power \/ InsertPower(c)
    BY <2>2 DEF PowerStep, RequestPower, CheckScope, ReferenceConflict
  <2>3. ASSUME NEW j \in Jobs, LockJob(j) \/ JudgeJob(j) \/ LeaveJob(j)
        PROVE  UNCHANGED power
    BY <2>3 DEF LockJob, JudgeJob, LeaveJob
  <2>4. ASSUME \/ \E r \in Responsibles : AssignResponsible(r)
               \/ \E k \in Certificates : RevokeCertificate(k)
               \/ Tick \/ UNCHANGED vars
        PROVE  UNCHANGED power
    BY <2>4 DEF AssignResponsible, RevokeCertificate, Tick, vars
  <2>. QED
    BY <2>1, <2>2, <2>3, <2>4 DEF Next
<1>. QED
  BY <1>1, <1>2, <1>3, <1>4, <1>5

(***************************************************************************)
(* Only a scan's last step writes alerts; a scan that is under way after a *)
(* step was so before, or has listed what is due now.                      *)
(***************************************************************************)
LEMMA ScanSteps ==
  ASSUME TypeOK, [Next]_vars
  PROVE  /\ \A c \in Calls : call'[c].step = "alert" =>
              \/ call'[c] = call[c]
              \/ /\ call'[c] = [step |-> "alert", at |-> now, sources |-> DueSources(now)]
                 /\ UNCHANGED authorityVars
         /\ UNCHANGED <<alerts, lastScan>> \/ \E c \in Calls : CreateAlerts(c)
<1>. USE DEF alertVars
<1>. DEFINE ScansKept == \A c \in Calls : call'[c].step = "alert" =>
              \/ call'[c] = call[c]
              \/ /\ call'[c] = [step |-> "alert", at |-> now, sources |-> DueSources(now)]
                 /\ UNCHANGED authorityVars
<1>1. ASSUME NEW c \in Calls, NEW state, Goes(c, state), state.step # "alert"
      PROVE  ScansKept
  BY <1>1 DEF Goes, TypeOK
<1>2. ASSUME NEW c \in Calls, Answered(c)
      PROVE  ScansKept
  BY <1>1, <1>2 DEF Answered, Idle
<1>3. UNCHANGED call => ScansKept
  OBVIOUS
<1>4. ASSUME NEW c \in Calls, ListSources(c)
      PROVE  ScansKept /\ UNCHANGED <<alerts, lastScan>>
  <2>1. /\ Goes(c, [step |-> "alert", at |-> now, sources |-> DueSources(now)])
        /\ UNCHANGED <<authorityVars, alerts, lastScan>>
    BY <1>4 DEF ListSources
  <2>. QED
    BY <2>1 DEF Goes, TypeOK
<1>. HIDE DEF ScansKept
<1>5. ASSUME NEW c \in Calls, DeactivationStep(c)
      PROVE  ScansKept /\ UNCHANGED <<alerts, lastScan>>
  <2>1. ASSUME NEW r \in Responsibles, FindResponsible(c, r)
        PROVE  ScansKept /\ UNCHANGED <<alerts, lastScan>>
    BY <1>1, <2>1 DEF FindResponsible
  <2>2. CASE CountPowers(c)
    <3>1. call[c].step = "count" => [call[c] EXCEPT !.step = "deactivate"].step # "alert"
      BY CallFields
    <3>. QED
      BY <1>1, <1>2, <2>2, <3>1 DEF CountPowers
  <2>3. CASE DeactivateResponsible(c)
    BY <1>2, <2>3 DEF DeactivateResponsible
  <2>. QED
    BY <1>5, <2>1, <2>2, <2>3 DEF DeactivationStep
<1>6. ASSUME NEW c \in Calls, PowerStep(c)
      PROVE  ScansKept /\ UNCHANGED <<alerts, lastScan>>
  <2>1. ASSUME NEW p \in Powers, NEW r \in Responsibles,
               NEW k \in Certificates \union {NoCertificate}, NEW period \in Periods,
               RequestPower(c, p, r, k, period)
        PROVE  ScansKept /\ UNCHANGED <<alerts, lastScan>>
    BY <1>1, <2>1 DEF RequestPower
  <2>2. CASE CheckScope(c)
    <3>1. call[c].step = "scope" => [call[c] EXCEPT !.step = "insert"].step # "alert"
      BY CallFields DEF Signing
    <3>. QED
      BY <1>1, <1>2, <2>2, <3>1 DEF CheckScope
  <2>3. CASE InsertPower(c) \/ ReferenceConflict(c)
    BY <1>2, <2>3 DEF InsertPower, ReferenceConflict
  <2>. QED
    BY <1>6, <2>1, <2>2, <2>3 DEF PowerStep
<1>7. ASSUME NEW c \in Calls, AlertStep(c)
      PROVE  ScansKept /\ (UNCHANGED <<alerts, lastScan>> \/ CreateAlerts(c))
  <2>1. ASSUME NEW a \in alerts, FindAlert(c, a)
        PROVE  ScansKept /\ UNCHANGED <<alerts, lastScan>>
    BY <1>1, <2>1 DEF FindAlert
  <2>2. CreateAlerts(c) => ScansKept
    BY <1>2 DEF CreateAlerts
  <2>3. AcknowledgeAlert(c) => ScansKept /\ UNCHANGED <<alerts, lastScan>>
    BY <1>2 DEF AcknowledgeAlert
  <2>. QED
    BY <1>4, <1>7, <2>1, <2>2, <2>3 DEF AlertStep
<1>8. ASSUME NEW c \in Calls, BatchStep(c)
      PROVE  ScansKept /\ UNCHANGED <<alerts, lastScan>>
  <2>1. ASSUME NEW k \in RequestKeys, NEW asked \in Contents, FindBatch(c, k, asked)
        PROVE  ScansKept /\ UNCHANGED <<alerts, lastScan>>
    BY <1>1, <1>3, <2>1 DEF FindBatch
  <2>2. call[c].step \in {"authorize", "create"} =>
          /\ [call[c] EXCEPT !.step = "create"].step # "alert"
          /\ [call[c] EXCEPT !.step = "reread"].step # "alert"
    BY CallFields
  <2>3. CASE AuthorizeBatch(c)
    BY <1>1, <1>2, <2>2, <2>3 DEF AuthorizeBatch
  <2>4. CASE CreateBatch(c)
    BY <1>1, <1>2, <2>2, <2>4 DEF CreateBatch
  <2>5. CASE RereadBatch(c)
    BY <1>2, <2>5 DEF RereadBatch
  <2>. QED
    BY <1>8, <2>1, <2>3, <2>4, <2>5 DEF BatchStep
<1>9. ASSUME NEW j \in Jobs, LockJob(j) \/ JudgeJob(j) \/ LeaveJob(j)
      PROVE  UNCHANGED <<call, alerts, lastScan>>
  BY <1>9 DEF LockJob, JudgeJob, LeaveJob
<1>10. ASSUME \/ \E r \in Responsibles : AssignResponsible(r)
              \/ \E p \in Powers : RevokePower(p)
              \/ \E k \in Certificates : RevokeCertificate(k)
              \/ Tick \/ UNCHANGED vars
       PROVE  UNCHANGED <<call, alerts, lastScan>>
  BY <1>10 DEF AssignResponsible, RevokePower, RevokeCertificate, Tick, vars
<1>11. ScansKept /\ (UNCHANGED <<alerts, lastScan>> \/ \E c \in Calls : CreateAlerts(c))
  BY <1>3, <1>5, <1>6, <1>7, <1>8, <1>9, <1>10 DEF Next
<1>. QED
  BY <1>11 DEF ScansKept

(***************************************************************************)
(* What is due is listed, and what is listed stays good: no step makes     *)
(* active what was not, except an insert, which is later than the list.    *)
(***************************************************************************)
LEMMA ListedIsDue ==
  ASSUME TypeOK, NEW at \in Nat
  PROVE  /\ \A p \in Powers : power[p].status = "ACTIVE" /\ power[p].until <= Horizon(at) =>
              [source |-> p, dueAt |-> power[p].until] \in DueSources(at)
         /\ \A k \in Certificates : certificate[k] = "ACTIVE" /\ Window[k].until <= Horizon(at) =>
              [source |-> k, dueAt |-> Window[k].until] \in DueSources(at)
<1>1. ASSUME NEW p \in Powers, power[p].status = "ACTIVE", power[p].until <= Horizon(at)
      PROVE  [source |-> p, dueAt |-> power[p].until] \in DueSources(at)
  <2>1. power[p].until \in {power[q].until : q \in {r \in Powers : Exists(r)}}
    BY <1>1 DEF Exists
  <2>. QED
    BY <1>1, <2>1 DEF DueSources, Horizon
<1>2. ASSUME NEW k \in Certificates, certificate[k] = "ACTIVE", Window[k].until <= Horizon(at)
      PROVE  [source |-> k, dueAt |-> Window[k].until] \in DueSources(at)
  BY <1>2 DEF DueSources, Horizon
<1>. QED
  BY <1>1, <1>2

LEMMA ScanStep ==
  ASSUME TypeOK, FoundInv, ScanInv, [Next]_vars
  PROVE  ScanInv'
<1>. SUFFICES ASSUME NEW c \in Calls, call'[c].step = "alert"
              PROVE  /\ \A p \in Powers :
                          /\ power'[p].status = "ACTIVE" /\ power'[p].since < call'[c].at
                          /\ power'[p].until <= Horizon(call'[c].at)
                          => [source |-> p, dueAt |-> power'[p].until] \in call'[c].sources
                     /\ \A k \in Certificates :
                          certificate'[k] = "ACTIVE" /\ Window[k].until <= Horizon(call'[c].at)
                          => [source |-> k, dueAt |-> Window[k].until] \in call'[c].sources
  BY DEF ScanInv, Horizon
<1>1. now \in Nat
  BY DEF TypeOK
<1>2. CASE call'[c] = call[c]
  <2>1. call[c].step = "alert" /\ call[c].at \in Nat /\ call[c].at <= now
    BY <1>2, CallFields DEF FoundInv
  <2>2. ASSUME NEW p \in Powers, power'[p].status = "ACTIVE", power'[p].since < call[c].at
        PROVE  power'[p] = power[p]
    BY <1>1, <2>1, <2>2, ActiveSources
  <2>. QED
    BY <1>2, <2>1, <2>2, ActiveSources DEF ScanInv
<1>3. CASE /\ call'[c] = [step |-> "alert", at |-> now, sources |-> DueSources(now)]
           /\ UNCHANGED authorityVars
  <2>1. call'[c].at = now /\ call'[c].sources = DueSources(now)
    BY <1>3
  <2>2. power' = power /\ certificate' = certificate
    BY <1>3 DEF authorityVars
  <2>. QED
    BY <1>1, <2>1, <2>2, ListedIsDue
<1>. QED
  BY <1>2, <1>3, ScanSteps

(***************************************************************************)
(* A scan that writes covers what it has listed, as of when it listed it.  *)
(***************************************************************************)
LEMMA ListedIsCovered ==
  ASSUME TypeOK, NEW c \in Calls, CreateAlerts(c), lastScan' = call[c].at,
         NEW x \in Sources, NEW due \in Int,
         due <= Horizon(call[c].at) => [source |-> x, dueAt |-> due] \in call[c].sources
  PROVE  Covered(x, due)'
<1>1. call[c].step = "alert"
  BY DEF CreateAlerts
<1>2. PICK at \in Nat, sources \in SUBSET [source : Sources, dueAt : Int] :
        at = call[c].at /\ sources = call[c].sources
  BY <1>1, CallFields
<1>3. alerts' = alerts \union Candidates(sources, at) /\ lastScan' = at
  BY <1>2 DEF CreateAlerts
<1>. SUFFICES ASSUME NEW t \in Thresholds \union {0},
                     due - at <= t * Day,
                     \A u \in Thresholds \union {0} : u < t => due - at > u * Day
              PROVE  [source |-> x, threshold |-> t, dueAt |-> due] \in alerts'
  BY <1>3 DEF Covered
<1>4. due - at \in Int /\ t \in Bands(due - at)
  BY NarrowestBand
<1>5. due <= Horizon(at)
  <2>1. PICK m \in Nat : m = Max(Thresholds) /\ t <= m
    <3>1. /\ Thresholds \in SUBSET Nat /\ Thresholds # {} /\ IsFiniteSet(Thresholds)
      BY AuthoritiesAssumption
    <3>2. Max(Thresholds) \in Nat /\ \A u \in Thresholds : Max(Thresholds) >= u
      BY <3>1, MaxIsLargest
    <3>. QED
      BY <3>1, <3>2
  <2>2. PICK d \in Nat : d = Day
    BY AuthoritiesAssumption
  <2>3. t \in Nat
    BY AuthoritiesAssumption
  <2>4. t * d <= m * d /\ t * d \in Int /\ m * d \in Int
    BY <2>1, <2>3
  <2>5. due - at <= t * d
    BY <2>2
  <2>6. due <= at + m * d
    BY <2>4, <2>5
  <2>. QED
    BY <2>1, <2>2, <2>6 DEF Horizon
<1>6. [source |-> x, dueAt |-> due] \in sources
  BY <1>2, <1>5
<1>7. [source |-> x, threshold |-> t, dueAt |-> due] \in Candidates(sources, at)
  <2>. DEFINE s == [source |-> x, dueAt |-> due]
  <2>1. s \in sources /\ s.source = x /\ s.dueAt = due
    BY <1>6
  <2>2. [source |-> x, threshold |-> t, dueAt |-> due]
          \in [source : {s.source}, dueAt : {s.dueAt}, threshold : Bands(s.dueAt - at)]
    BY <1>4, <2>1
  <2>. HIDE DEF s
  <2>. QED
    BY <2>1, <2>2 DEF Candidates
<1>. QED
  BY <1>3, <1>7

LEMMA NeverEarlyStep ==
  ASSUME TypeOK, FoundInv, NeverEarly, [Next]_vars
  PROVE  NeverEarly'
<1>. SUFFICES ASSUME NEW a \in alerts' PROVE a.dueAt - now' <= a.threshold * Day
  BY DEF NeverEarly
<1>1. now \in Nat /\ now' \in Nat /\ now <= now'
  BY TypesKept, NothingTakenBack DEF TypeOK
<1>2. a \in AlertKeys
  BY TypesKept DEF TypeOK
<1>3. a.dueAt \in Int /\ a.threshold \in Nat
  <2>1. Thresholds \union {0} \subseteq Nat
    BY AuthoritiesAssumption
  <2>. QED
    BY <1>2, <2>1 DEF AlertKeys
<1>4. PICK d \in Nat : d = Day
  BY AuthoritiesAssumption
<1>5. a.threshold * d \in Int
  BY <1>3
<1>6. CASE a \in alerts
  <2>1. a.dueAt - now <= a.threshold * d
    BY <1>4, <1>6 DEF NeverEarly
  <2>2. a.dueAt - now' <= a.threshold * d
    BY <1>1, <1>3, <1>5, <2>1
  <2>. QED
    BY <1>4, <2>2
<1>7. ASSUME NEW c \in Calls, CreateAlerts(c), a \in Candidates(call[c].sources, call[c].at)
      PROVE  a.dueAt - now' <= a.threshold * Day
  <2>1. call[c].step = "alert"
    BY <1>7 DEF CreateAlerts
  <2>2. PICK at \in Nat, sources \in SUBSET [source : Sources, dueAt : Int] :
          at = call[c].at /\ sources = call[c].sources
    BY <2>1, CallFields
  <2>3. at <= now
    BY <2>1, <2>2 DEF FoundInv
  <2>4. PICK s \in sources : a \in [source : {s.source}, dueAt : {s.dueAt}, threshold : Bands(s.dueAt - at)]
    BY <1>7, <2>2 DEF Candidates
  <2>5. a.dueAt - at \in Int /\ a.threshold \in Bands(a.dueAt - at)
    BY <1>3, <2>4
  <2>6. a.dueAt - at <= a.threshold * d
    BY <1>4, <2>5, BandsHold
  <2>7. a.dueAt - now' <= a.threshold * d
    BY <1>1, <1>3, <1>5, <2>3, <2>6
  <2>. QED
    BY <1>4, <2>7
<1>. QED
  BY <1>6, <1>7, ScanSteps DEF CreateAlerts

LEMMA CoverStep ==
  ASSUME TypeOK, FoundInv, ScanInv, ScansCover, [Next]_vars
  PROVE  ScansCover'
<1>1. now \in Nat /\ lastScan \in Int /\ lastScan <= now /\ lastScan >= -1
  BY DEF TypeOK
<1>2. ASSUME NEW x, NEW due, Covered(x, due), lastScan' = lastScan
      PROVE  Covered(x, due)'
  BY <1>2, NothingTakenBack DEF Covered
<1>3. CASE lastScan' = lastScan
  <2>1. ASSUME NEW p \in Powers, power'[p].status = "ACTIVE", power'[p].since < lastScan
        PROVE  \E due : due = power'[p].until /\ Covered(p, due)'
    <3>1. power'[p] = power[p]
      BY <1>1, <2>1, ActiveSources
    <3>2. PICK due : due = power[p].until
      OBVIOUS
    <3>3. Covered(p, due)
      BY <2>1, <3>1, <3>2 DEF ScansCover
    <3>. QED
      BY <1>2, <1>3, <3>1, <3>2, <3>3
  <2>2. ASSUME NEW k \in Certificates, certificate'[k] = "ACTIVE", lastScan >= 0
        PROVE  Covered(k, Window[k].until)'
    BY <1>2, <1>3, <2>2, ActiveSources DEF ScansCover
  <2>. QED
    BY <1>3, <2>1, <2>2 DEF ScansCover, Covered
<1>4. ASSUME NEW c \in Calls, CreateAlerts(c), lastScan' # lastScan
      PROVE  ScansCover'
  <2>1. call[c].step = "alert"
    BY <1>4 DEF CreateAlerts
  <2>2. PICK at \in Nat : at = call[c].at
    BY <2>1, CallFields
  <2>3. lastScan' = at /\ power' = power /\ certificate' = certificate
    <3>1. lastScan' \in {lastScan, at}
      BY <1>1, <1>4, <2>2, LaterOfTwo DEF CreateAlerts
    <3>. QED
      BY <1>4, <3>1 DEF CreateAlerts, authorityVars
  <2>4. ASSUME NEW p \in Powers, power[p].status = "ACTIVE", power[p].since < at
        PROVE  \E due : due = power'[p].until /\ Covered(p, due)'
    <3>1. power[p].until \in Int /\ p \in Sources
      BY <2>4 DEF TypeOK, Absent, PowerRows, Sources
    <3>2. power[p].until <= Horizon(call[c].at) =>
            [source |-> p, dueAt |-> power[p].until] \in call[c].sources
      BY <2>1, <2>2, <2>4 DEF ScanInv
    <3>3. PICK due \in Int : due = power[p].until
      BY <3>1
    <3>4. Covered(p, due)'
      BY <1>4, <2>2, <2>3, <3>1, <3>2, <3>3, ListedIsCovered
    <3>. QED
      BY <2>3, <3>3, <3>4
  <2>5. ASSUME NEW k \in Certificates, certificate[k] = "ACTIVE"
        PROVE  Covered(k, Window[k].until)'
    <3>1. Window[k].until \in Int /\ k \in Sources
      BY AuthoritiesAssumption DEF Spans, Sources
    <3>2. Window[k].until <= Horizon(call[c].at) =>
            [source |-> k, dueAt |-> Window[k].until] \in call[c].sources
      BY <2>1, <2>5 DEF ScanInv
    <3>. QED
      BY <1>4, <2>2, <2>3, <3>1, <3>2, ListedIsCovered
  <2>. QED
    BY <2>3, <2>4, <2>5 DEF ScansCover, Covered
<1>. QED
  BY <1>3, <1>4, ScanSteps

(***************************************************************************)
(* Whatever the thresholds, the length of a day and the times of the scans *)
(* alerts agree with the calendar.  A scan may end long after it listed,   *)
(* and after scans that listed later: what it lists covers the sources     *)
(* that are still active, and no insert slips between.                     *)
(***************************************************************************)
THEOREM AlertsAgreeWithCalendar == Spec => []AlertsMatchCalendar
<1>1. Init => NeverEarly /\ ScansCover /\ ScanInv
  <2>. SUFFICES ASSUME Init PROVE NeverEarly /\ ScansCover /\ ScanInv
    OBVIOUS
  <2>1. NeverEarly
    BY DEF Init, NeverEarly
  <2>2. ScansCover
    BY DEF Init, ScansCover, Absent
  <2>3. ScanInv
    BY DEF Init, ScanInv, Idle
  <2>. QED
    BY <2>1, <2>2, <2>3
<1>2. TypeOK /\ FoundInv /\ NeverEarly /\ ScansCover /\ ScanInv /\ [Next]_vars
        => (NeverEarly /\ ScansCover /\ ScanInv)'
  BY NeverEarlyStep, CoverStep, ScanStep
<1>3. NeverEarly /\ ScansCover => AlertsMatchCalendar
  BY DEF AlertsMatchCalendar
<1>. QED
  BY <1>1, <1>2, <1>3, FoundInvariant, PTL DEF Spec

===============================================================================
