----------------------------- MODULE VaultProofs -----------------------------
(***************************************************************************)
(* Proofs about Vault, for any processes, requests and certificates.       *)
(***************************************************************************)
EXTENDS Vault, TLAPS

(***************************************************************************)
(* What a request of a kind carries.                                       *)
(***************************************************************************)
LEMMA RequestFields ==
  ASSUME TypeOK, NEW r \in Requests
  PROVE  /\ request[r].kind \in Kinds
         /\ request[r].kind = "idle" <=> request[r] = Idle
         /\ request[r] # Idle => request[r].process \in Processes /\ request[r].key \in Versions
         /\ request[r].kind \in {"upload", "configure", "create", "update"} =>
              request[r].certificate \in Certificates
         /\ request[r].kind \in {"configure", "create", "update", "reseal"} => request[r].secret \in Secrets
         /\ request[r].kind = "rotate" =>
              /\ request[r].more \in BOOLEAN /\ request[r].agreed \in BOOLEAN
              /\ request[r].todo \in SUBSET [certificate : Certificates, key : Versions]
         /\ request[r].kind = "reseal" => request[r].expected \in Versions /\ request[r].agreed \in BOOLEAN
<1>1. request[r] \in RequestsOfKind
  BY DEF TypeOK
<1>. QED
  BY <1>1 DEF RequestsOfKind, Kinds, Idle

(***************************************************************************)
(* What each step puts into a request is a request.                        *)
(***************************************************************************)
LEMMA RequestTyping ==
  ASSUME NEW p \in Processes, NEW k \in Versions
  PROVE  /\ Idle \in RequestsOfKind
         /\ \A c \in Certificates : [kind |-> "upload", process |-> p, certificate |-> c, key |-> k] \in RequestsOfKind
         /\ \A c \in Certificates, s \in Secrets :
              [kind |-> "configure", process |-> p, certificate |-> c, secret |-> s, key |-> k] \in RequestsOfKind
         /\ \A more, agreed \in BOOLEAN, todo \in SUBSET [certificate : Certificates, key : Versions] :
              [kind |-> "rotate", process |-> p, key |-> k, more |-> more, agreed |-> agreed, todo |-> todo]
                \in RequestsOfKind
         /\ \A s \in Secrets, e \in Versions, agreed \in BOOLEAN :
              [kind |-> "reseal", process |-> p, secret |-> s, expected |-> e, key |-> k, agreed |-> agreed]
                \in RequestsOfKind
  BY DEF RequestsOfKind, Idle

LEMMA RequestUpdates ==
  ASSUME NEW what \in RequestsOfKind
  PROVE  /\ what.kind = "rotate" => \A item : [what EXCEPT !.todo = @ \ {item}] \in RequestsOfKind
         /\ what.kind = "configure" => \A kind \in {"create", "update"} : [what EXCEPT !.kind = kind] \in RequestsOfKind
<1>1. ASSUME what.kind = "rotate", NEW item
      PROVE  [what EXCEPT !.todo = @ \ {item}] \in RequestsOfKind
  <2>1. what \in [kind : {"rotate"}, process : Processes, key : Versions, more : BOOLEAN, agreed : BOOLEAN,
                  todo : SUBSET [certificate : Certificates, key : Versions]]
    BY <1>1 DEF RequestsOfKind, Idle
  <2>2. [what EXCEPT !.todo = @ \ {item}] \in
          [kind : {"rotate"}, process : Processes, key : Versions, more : BOOLEAN, agreed : BOOLEAN,
           todo : SUBSET [certificate : Certificates, key : Versions]]
    BY <2>1
  <2>. QED
    BY <2>2 DEF RequestsOfKind
<1>2. ASSUME what.kind = "configure", NEW kind \in {"create", "update"}
      PROVE  [what EXCEPT !.kind = kind] \in RequestsOfKind
  <2>1. what \in [kind : {"configure", "create", "update"}, process : Processes, certificate : Certificates,
                  secret : Secrets, key : Versions]
    BY <1>2 DEF RequestsOfKind, Idle
  <2>2. [what EXCEPT !.kind = kind] \in
          [kind : {"configure", "create", "update"}, process : Processes, certificate : Certificates,
           secret : Secrets, key : Versions]
    BY <2>1
  <2>. QED
    BY <2>2 DEF RequestsOfKind
<1>. QED
  BY <1>1, <1>2

(***************************************************************************)
(* The variables have their types in every reachable state.                *)
(***************************************************************************)
THEOREM VaultTypeCorrect == Spec => []TypeOK
<1>. USE VaultAssumption
<1>1. Init => TypeOK
  BY DEF Init, TypeOK, Versions, RequestsOfKind, Idle
<1>2. TypeOK /\ [Next]_vars => TypeOK'
  <2>. SUFFICES ASSUME TypeOK, [Next]_vars
                PROVE  TypeOK'
    OBVIOUS
  <2>. USE DEF operatorVars, processVars, rowVars, historyVars, Serve
  <2>1. \A p \in Processes : active[p] \in Versions
    BY DEF TypeOK
  <2>2. ASSUME NEW r \in Requests, NEW what \in RequestsOfKind, Serve(r, what)
        PROVE  request' \in [Requests -> RequestsOfKind]
    BY <2>2 DEF TypeOK
  <2>3. ASSUME NEW r \in Requests, StoreUpload(r)
        PROVE  TypeOK'
    <3>1. request[r].certificate \in Certificates /\ request[r].key \in Versions
      BY <2>3, RequestFields DEF StoreUpload, Idle
    <3>2. certificate' \in [Certificates -> [status : {"ABSENT", "ACTIVE", "REVOKED"}, key : Versions]]
      BY <2>3, <3>1 DEF StoreUpload, TypeOK
    <3>3. request' \in [Requests -> RequestsOfKind]
      BY <2>2, <2>3, RequestTyping DEF StoreUpload, RequestsOfKind
    <3>. QED
      BY <2>3, <3>2, <3>3 DEF StoreUpload, TypeOK
  <2>4. ASSUME NEW r \in Requests, ReSealCertificate(r)
        PROVE  TypeOK'
    <3>1. request[r].kind = "rotate" /\ request[r].key \in Versions /\ request[r] \in RequestsOfKind
          /\ request[r].todo \in SUBSET [certificate : Certificates, key : Versions]
      BY <2>4, RequestFields DEF ReSealCertificate, Idle, TypeOK
    <3>2. PICK item \in request[r].todo :
            IF item.key \in keys[request[r].process]
            THEN /\ certificate' = IF certificate[item.certificate].key = item.key
                                   THEN [certificate EXCEPT ![item.certificate].key = request[r].key]
                                   ELSE certificate
                 /\ Serve(r, [request[r] EXCEPT !.todo = @ \ {item}])
            ELSE Serve(r, Idle) /\ UNCHANGED certificate
      BY <2>4 DEF ReSealCertificate
    <3>3. certificate' \in [Certificates -> [status : {"ABSENT", "ACTIVE", "REVOKED"}, key : Versions]]
      BY <3>1, <3>2 DEF TypeOK
    <3>4. request' \in [Requests -> RequestsOfKind]
      <4>1. Idle \in RequestsOfKind /\ [request[r] EXCEPT !.todo = @ \ {item}] \in RequestsOfKind
        BY <3>1, RequestUpdates DEF RequestsOfKind
      <4>. QED
        BY <2>2, <3>2, <4>1
    <3>. QED
      BY <2>4, <3>3, <3>4 DEF ReSealCertificate, TypeOK
  <2>5. ASSUME NEW r \in Requests, AnswerRotation(r)
        PROVE  TypeOK'
    <3>1. request[r].key \in Versions
      BY <2>5, RequestFields DEF AnswerRotation, Idle
    <3>2. request' \in [Requests -> RequestsOfKind]
      BY <2>2, <2>5 DEF AnswerRotation, RequestsOfKind
    <3>. QED
      BY <2>5, <3>1, <3>2 DEF AnswerRotation, TypeOK
  <2>6. ASSUME NEW r \in Requests, FindConnection(r)
        PROVE  TypeOK'
    <3>1. request[r].kind = "configure" /\ request[r] \in RequestsOfKind
      BY <2>6 DEF FindConnection, TypeOK
    <3>2. Idle \in RequestsOfKind /\ \A kind \in {"create", "update"} : [request[r] EXCEPT !.kind = kind] \in RequestsOfKind
      BY <3>1, RequestUpdates DEF RequestsOfKind
    <3>3. request' \in [Requests -> RequestsOfKind]
      BY <2>2, <2>6, <3>2 DEF FindConnection
    <3>. QED
      BY <2>6, <3>3 DEF FindConnection, TypeOK
  <2>7. ASSUME NEW r \in Requests, WriteConfiguration(r)
        PROVE  TypeOK'
    <3>1. request[r].secret \in Secrets /\ request[r].key \in Versions
      BY <2>7, RequestFields DEF WriteConfiguration, Idle
    <3>2. request' \in [Requests -> RequestsOfKind]
      BY <2>2, <2>7 DEF WriteConfiguration, RequestsOfKind
    <3>. QED
      BY <2>7, <3>1, <3>2 DEF WriteConfiguration, TypeOK
  <2>8. ASSUME NEW r \in Requests, ReSealConnection(r)
        PROVE  TypeOK'
    <3>1. request[r].secret \in Secrets /\ request[r].key \in Versions
      BY <2>8, RequestFields DEF ReSealConnection, Idle
    <3>2. request' \in [Requests -> RequestsOfKind]
      BY <2>2, <2>8 DEF ReSealConnection, RequestsOfKind
    <3>. QED
      BY <2>8, <3>1, <3>2 DEF ReSealConnection, TypeOK
  <2>9. ASSUME NEW r \in Requests, NEW p \in Processes,
               \/ \E c \in Certificates : SealUpload(r, p, c)
               \/ \E c \in Certificates, s \in Secrets : SealConfiguration(r, p, c, s)
        PROVE  TypeOK'
    <3>1. request' \in [Requests -> RequestsOfKind]
      BY <2>1, <2>2, <2>9, RequestTyping DEF SealUpload, SealConfiguration, SealingKey
    <3>. QED
      BY <2>9, <3>1 DEF SealUpload, SealConfiguration, TypeOK
  <2>10. ASSUME NEW r \in Requests, NEW p \in Processes, ListForRotation(r, p)
         PROVE  TypeOK'
    <3>1. PICK batch \in SUBSET LeftBehind(active[p]) :
            Serve(r, [kind |-> "rotate", process |-> p, key |-> active[p],
                      more |-> LeftBehind(active[p]) \ batch # {}, agreed |-> Agreed(p),
                      todo |-> {[certificate |-> c, key |-> certificate[c].key] : c \in batch}])
      BY <2>10 DEF ListForRotation
    <3>2. {[certificate |-> c, key |-> certificate[c].key] : c \in batch}
            \in SUBSET [certificate : Certificates, key : Versions]
      BY DEF LeftBehind, TypeOK
    <3>3. (LeftBehind(active[p]) \ batch # {}) \in BOOLEAN /\ Agreed(p) \in BOOLEAN
      BY DEF Agreed
    <3>4. [kind |-> "rotate", process |-> p, key |-> active[p],
           more |-> LeftBehind(active[p]) \ batch # {}, agreed |-> Agreed(p),
           todo |-> {[certificate |-> c, key |-> certificate[c].key] : c \in batch}] \in RequestsOfKind
      BY <2>1, <3>2, <3>3, RequestTyping
    <3>5. request' \in [Requests -> RequestsOfKind]
      BY <2>2, <3>1, <3>4
    <3>. QED
      BY <2>10, <3>5 DEF ListForRotation, TypeOK
  <2>11. ASSUME NEW r \in Requests, NEW p \in Processes, ReadConnectionForRotation(r, p)
         PROVE  TypeOK'
    <3>1. connection.secret \in Secrets /\ connection.key \in Versions /\ Agreed(p) \in BOOLEAN
      BY <2>11 DEF ReadConnectionForRotation, Configured, TypeOK, Agreed
    <3>2. request' \in [Requests -> RequestsOfKind]
      BY <2>1, <2>2, <2>11, <3>1, RequestTyping DEF ReadConnectionForRotation
    <3>. QED
      BY <2>11, <3>2 DEF ReadConnectionForRotation, TypeOK
  <2>12. ASSUME NEW c \in Certificates, Revoke(c)
         PROVE  TypeOK'
    BY <2>12 DEF Revoke, TypeOK
  <2>13. CASE DeployKey \/ (\E v \in Versions : RetireKey(v))
    <3>1. DeployKey => deployed' \in Versions
      BY DEF DeployKey, TypeOK, Versions
    <3>2. CASE DeployKey
      BY <3>1, <3>2 DEF DeployKey, TypeOK
    <3>3. CASE \E v \in Versions : RetireKey(v)
      BY <3>3 DEF RetireKey, TypeOK
    <3>. QED
      BY <2>13, <3>2, <3>3
  <2>14. ASSUME NEW p \in Processes, RestartWithNewKey(p) \/ Crash(p)
         PROVE  TypeOK'
    <3>1. Start(p) /\ crashes' \in Nat
      BY <2>14 DEF RestartWithNewKey, Crash, TypeOK
    <3>2. request' \in [Requests -> RequestsOfKind]
      BY <3>1 DEF Start, TypeOK, RequestsOfKind
    <3>3. (1 .. deployed) \ retired \in SUBSET Versions
      BY DEF TypeOK, Versions
    <3>. QED
      BY <3>1, <3>2, <3>3 DEF Start, TypeOK
  <2>15. CASE UNCHANGED vars
    BY <2>15 DEF vars, TypeOK
  <2>. QED
    BY <2>3, <2>4, <2>5, <2>6, <2>7, <2>8, <2>9, <2>10, <2>11, <2>12, <2>13, <2>14, <2>15 DEF Next, Proceed
<1>. QED
  BY <1>1, <1>2, PTL DEF Spec

------------------------------------------------------------------------------
(* What a step does to requests, processes and rows *)

(***************************************************************************)
(* A request ends, goes on under its process and key, or is new and under  *)
(* its process's key; only a start changes a process, and it drops the     *)
(* process's requests.                                                     *)
(***************************************************************************)
Ends(r) == request'[r] = Idle

GoesOn(r) ==
  /\ request[r] # Idle
  /\ request'[r].process = request[r].process
  /\ request'[r].key = request[r].key

Begins(r) ==
  /\ request'[r].process \in Processes
  /\ request'[r].key = active[request'[r].process]

RowsWritten(k) ==
  /\ \A c \in Certificates : Stored(c)' =>
       \/ Stored(c) /\ certificate'[c].key = certificate[c].key
       \/ certificate'[c].key = k
  /\ connection' = connection \/ connection'.key = k

LEMMA Steps ==
  ASSUME TypeOK, [Next]_vars
  PROVE  \/ \E p \in Processes : Start(p)
         \/ DeployKey
         \/ \E v \in Versions : RetireKey(v)
         \/ /\ UNCHANGED <<operatorVars, processVars>>
            /\ \A r \in Requests : Ends(r) \/ GoesOn(r) \/ Begins(r) \/ UNCHANGED request[r]
            /\ \/ UNCHANGED <<certificate, connection>>
               \/ \E c \in Certificates : Revoke(c)
               \/ \E r \in Requests : request[r] # Idle /\ RowsWritten(request[r].key)
<1>. USE DEF operatorVars, processVars, rowVars, historyVars, Serve
<1>1. ASSUME NEW r \in Requests, NEW what, Serve(r, what)
      PROVE  /\ request'[r] = what
             /\ \A q \in Requests : q # r => UNCHANGED request[q]
  BY <1>1 DEF TypeOK
<1>2. ASSUME NEW r \in Requests, StoreUpload(r)
      PROVE  /\ UNCHANGED <<operatorVars, processVars>>
             /\ Ends(r) /\ \A q \in Requests : q # r => UNCHANGED request[q]
             /\ request[r] # Idle /\ RowsWritten(request[r].key)
  <2>1. request[r].certificate \in Certificates /\ request[r] # Idle
    BY <1>2, RequestFields DEF StoreUpload, Idle
  <2>2. RowsWritten(request[r].key)
    BY <1>2, <2>1 DEF StoreUpload, RowsWritten, Stored, TypeOK
  <2>. QED
    BY <1>1, <1>2, <2>1, <2>2 DEF StoreUpload, Ends
<1>3. ASSUME NEW r \in Requests, ReSealCertificate(r)
      PROVE  /\ UNCHANGED <<operatorVars, processVars>>
             /\ Ends(r) \/ GoesOn(r)
             /\ \A q \in Requests : q # r => UNCHANGED request[q]
             /\ request[r] # Idle /\ RowsWritten(request[r].key)
  <2>1. /\ request[r].kind = "rotate" /\ request[r] # Idle
        /\ request[r] \in [kind : {"rotate"}, process : Processes, key : Versions, more : BOOLEAN,
                           agreed : BOOLEAN, todo : SUBSET [certificate : Certificates, key : Versions]]
    BY <1>3 DEF ReSealCertificate, Idle, TypeOK, RequestsOfKind
  <2>2. PICK item \in request[r].todo :
          IF item.key \in keys[request[r].process]
          THEN /\ certificate' = IF certificate[item.certificate].key = item.key
                                 THEN [certificate EXCEPT ![item.certificate].key = request[r].key]
                                 ELSE certificate
               /\ Serve(r, [request[r] EXCEPT !.todo = @ \ {item}])
          ELSE Serve(r, Idle) /\ UNCHANGED certificate
    BY <1>3 DEF ReSealCertificate
  <2>3. RowsWritten(request[r].key)
    BY <1>3, <2>1, <2>2 DEF ReSealCertificate, RowsWritten, Stored, TypeOK
  <2>4. Serve(r, Idle) \/ Serve(r, [request[r] EXCEPT !.todo = @ \ {item}])
    BY <2>2
  <2>5. Ends(r) \/ GoesOn(r)
    BY <1>1, <2>1, <2>4 DEF Ends, GoesOn
  <2>6. \A q \in Requests : q # r => UNCHANGED request[q]
    BY <1>1, <2>4
  <2>. QED
    BY <1>3, <2>1, <2>3, <2>5, <2>6 DEF ReSealCertificate
<1>4. ASSUME NEW r \in Requests, AnswerRotation(r)
      PROVE  /\ UNCHANGED <<operatorVars, processVars, rowVars>>
             /\ Ends(r) /\ \A q \in Requests : q # r => UNCHANGED request[q]
  BY <1>1, <1>4 DEF AnswerRotation, Ends
<1>5. ASSUME NEW r \in Requests, FindConnection(r)
      PROVE  /\ UNCHANGED <<operatorVars, processVars, rowVars>>
             /\ Ends(r) \/ GoesOn(r)
             /\ \A q \in Requests : q # r => UNCHANGED request[q]
  <2>1. /\ request[r] # Idle
        /\ request[r] \in [kind : {"configure", "create", "update"}, process : Processes,
                           certificate : Certificates, secret : Secrets, key : Versions]
    BY <1>5 DEF FindConnection, Idle, TypeOK, RequestsOfKind
  <2>2. \/ Serve(r, Idle)
        \/ \E kind \in {"create", "update"} : Serve(r, [request[r] EXCEPT !.kind = kind])
    BY <1>5 DEF FindConnection
  <2>. QED
    BY <1>1, <1>5, <2>1, <2>2 DEF FindConnection, Ends, GoesOn
<1>6. ASSUME NEW r \in Requests, WriteConfiguration(r) \/ ReSealConnection(r)
      PROVE  /\ UNCHANGED <<operatorVars, processVars>>
             /\ Ends(r) /\ \A q \in Requests : q # r => UNCHANGED request[q]
             /\ request[r] # Idle /\ RowsWritten(request[r].key)
  <2>1. request[r] # Idle
    BY <1>6 DEF WriteConfiguration, ReSealConnection, Idle
  <2>2. connection' = connection \/ connection'.key = request[r].key
    BY <1>6 DEF WriteConfiguration, ReSealConnection
  <2>3. UNCHANGED certificate
    BY <1>6 DEF WriteConfiguration, ReSealConnection
  <2>4. RowsWritten(request[r].key)
    BY <2>2, <2>3 DEF RowsWritten, Stored
  <2>. QED
    BY <1>1, <1>6, <2>1, <2>4 DEF WriteConfiguration, ReSealConnection, Ends
<1>7. ASSUME NEW r \in Requests, NEW p \in Processes,
             \/ \E c \in Certificates : SealUpload(r, p, c)
             \/ ListForRotation(r, p)
             \/ \E c \in Certificates, s \in Secrets : SealConfiguration(r, p, c, s)
             \/ ReadConnectionForRotation(r, p)
      PROVE  /\ UNCHANGED <<operatorVars, processVars, rowVars>>
             /\ Begins(r)
             /\ \A q \in Requests : q # r => UNCHANGED request[q]
  <2>1. /\ request'[r].process = p /\ request'[r].key = active[p]
        /\ \A q \in Requests : q # r => UNCHANGED request[q]
    <3>1. CASE \E c \in Certificates : SealUpload(r, p, c)
      BY <3>1 DEF SealUpload, SealingKey, TypeOK
    <3>2. CASE ListForRotation(r, p)
      <4>1. PICK batch \in SUBSET LeftBehind(active[p]) :
              Serve(r, [kind |-> "rotate", process |-> p, key |-> active[p],
                        more |-> LeftBehind(active[p]) \ batch # {}, agreed |-> Agreed(p),
                        todo |-> {[certificate |-> c, key |-> certificate[c].key] : c \in batch}])
        BY <3>2 DEF ListForRotation
      <4>. QED
        BY <4>1 DEF TypeOK
    <3>3. CASE \E c \in Certificates, s \in Secrets : SealConfiguration(r, p, c, s)
      BY <3>3 DEF SealConfiguration, SealingKey, TypeOK
    <3>4. CASE ReadConnectionForRotation(r, p)
      BY <3>4 DEF ReadConnectionForRotation, TypeOK
    <3>. QED
      BY <1>7, <3>1, <3>2, <3>3, <3>4
  <2>. QED
    BY <1>7, <2>1 DEF SealUpload, ListForRotation, SealConfiguration, ReadConnectionForRotation, Begins
<1>8. ASSUME NEW c \in Certificates, Revoke(c)
      PROVE  UNCHANGED <<operatorVars, processVars, request>>
  BY <1>8 DEF Revoke
<1>9. (\E p \in Processes : RestartWithNewKey(p) \/ Crash(p)) => \E p \in Processes : Start(p)
  BY DEF RestartWithNewKey, Crash
<1>10. UNCHANGED vars => UNCHANGED <<operatorVars, processVars, request, certificate, connection>>
  BY DEF vars
<1>. QED
  BY <1>2, <1>3, <1>4, <1>5, <1>6, <1>7, <1>8, <1>9, <1>10 DEF Next, Proceed

(***************************************************************************)
(* Processes open what they seal, and seal under their key.                *)
(***************************************************************************)
LEMMA KeyInvariant == Spec => []KeyInv
<1>. USE VaultAssumption
<1>1. Init => KeyInv
  BY DEF Init, KeyInv
<1>2. TypeOK /\ TypeOK' /\ KeyInv /\ [Next]_vars => KeyInv'
  <2>. SUFFICES ASSUME TypeOK, TypeOK', KeyInv, [Next]_vars
                PROVE  KeyInv'
    OBVIOUS
  <2>. USE DEF operatorVars, processVars
  <2>1. deployed \in Nat /\ \A p \in Processes : active[p] \in Nat
    BY DEF TypeOK, Versions
  <2>2. ASSUME NEW p \in Processes, Start(p)
        PROVE  KeyInv'
    <3>1. /\ active'[p] = deployed /\ keys'[p] = (1 .. deployed) \ retired
          /\ \A q \in Processes : q # p => UNCHANGED <<active[q], keys[q]>>
      BY <2>2 DEF Start, TypeOK
    <3>2. deployed \notin retired
      <4>1. \A v \in retired : v < deployed
        BY DEF KeyInv
      <4>. QED
        BY <2>1, <4>1
    <3>3. \A r \in Requests : request'[r] # Idle =>
            /\ request'[r] = request[r] /\ request[r].process # p
            /\ request[r].process \in Processes
      BY <2>2, RequestFields DEF Start
    <3>. QED
      BY <2>1, <2>2, <3>1, <3>2, <3>3 DEF KeyInv, Start
  <2>3. CASE DeployKey
    <3>1. \A v \in retired : v \in Nat
      BY DEF TypeOK, Versions
    <3>. QED
      BY <2>1, <2>3, <3>1 DEF DeployKey, KeyInv
  <2>4. ASSUME NEW v \in Versions, RetireKey(v)
        PROVE  KeyInv'
    BY <2>1, <2>4 DEF RetireKey, KeyInv
  <2>5. CASE /\ UNCHANGED <<operatorVars, processVars>>
             /\ \A r \in Requests : Ends(r) \/ GoesOn(r) \/ Begins(r) \/ UNCHANGED request[r]
    BY <2>5 DEF KeyInv, Ends, GoesOn, Begins
  <2>. QED
    BY <2>2, <2>3, <2>4, <2>5, Steps
<1>. QED
  BY <1>1, <1>2, VaultTypeCorrect, PTL DEF Spec

------------------------------------------------------------------------------
(* Every secret opens *)

LEMMA RowInvariant == Spec => []RowInv
<1>. USE VaultAssumption
<1>1. Init => RowInv
  BY DEF Init, RowInv, Stored, Configured
<1>2. TypeOK /\ TypeOK' /\ KeyInv /\ KeyInv' /\ RowInv /\ [Next]_vars => RowInv'
  <2>. SUFFICES ASSUME TypeOK, TypeOK', KeyInv, KeyInv', RowInv, [Next]_vars
                PROVE  RowInv'
    OBVIOUS
  <2>. USE DEF operatorVars, processVars, rowVars
  <2>1. /\ deployed \in Nat /\ connection.key \in Nat /\ \A p \in Processes : active[p] \in Nat
        /\ \A c \in Certificates : certificate[c].key \in Nat
    BY DEF TypeOK, Versions
  <2>2. ASSUME NEW p \in Processes, Start(p)
        PROVE  RowInv'
    <3>1. \A q \in Processes : active'[q] >= active[q]
      BY <2>1, <2>2 DEF Start, KeyInv, TypeOK
    <3>2. UNCHANGED <<deployed, retired, certificate, connection>>
      BY <2>2 DEF Start
    <3>3. \A q \in Processes : active'[q] \in Nat
      BY DEF TypeOK, Versions
    <3>. QED
      BY <2>1, <3>1, <3>2, <3>3 DEF RowInv, Stored, Configured
  <2>3. CASE DeployKey
    BY <2>1, <2>3 DEF DeployKey, RowInv, Stored, Configured
  <2>4. ASSUME NEW v \in Versions, RetireKey(v)
        PROVE  RowInv'
    BY <2>1, <2>4 DEF RetireKey, RowInv, Stored, Configured
  <2>5. CASE UNCHANGED <<operatorVars, processVars, certificate, connection>>
    BY <2>5 DEF RowInv, Stored, Configured
  <2>6. ASSUME NEW c \in Certificates, Revoke(c), UNCHANGED <<operatorVars, processVars>>
        PROVE  RowInv'
    <3>1. \A d \in Certificates : certificate'[d].key = certificate[d].key /\ (Stored(d)' <=> Stored(d))
      BY <2>6 DEF Revoke, Stored, TypeOK
    <3>2. UNCHANGED connection
      BY <2>6 DEF Revoke
    <3>. QED
      BY <2>6, <3>1, <3>2 DEF RowInv, Configured
  <2>7. ASSUME NEW r \in Requests, request[r] # Idle, RowsWritten(request[r].key),
               UNCHANGED <<operatorVars, processVars>>
        PROVE  RowInv'
    <3>1. PICK p \in Processes : request[r].key = active[p]
      BY <2>7, RequestFields DEF KeyInv
    <3>2. active[p] <= deployed /\ active[p] \notin retired
      BY DEF KeyInv
    <3>3. \A c \in Certificates : Stored(c)' => certificate'[c].key <= deployed /\ certificate'[c].key \notin retired
      BY <2>7, <3>1, <3>2 DEF RowsWritten, RowInv
    <3>4. Configured' => /\ connection'.key <= deployed /\ connection'.key \notin retired
                         /\ \E q \in Processes : connection'.key <= active[q]
      <4>1. CASE connection' = connection
        BY <4>1 DEF RowInv, Configured
      <4>2. CASE connection'.key = active[p]
        BY <2>1, <3>2, <4>2
      <4>. QED
        BY <2>7, <3>1, <4>1, <4>2 DEF RowsWritten
    <3>. QED
      BY <2>7, <3>3, <3>4 DEF RowInv
  <2>. QED
    BY <2>2, <2>3, <2>4, <2>5, <2>6, <2>7, Steps
<1>. QED
  BY <1>1, <1>2, VaultTypeCorrect, KeyInvariant, PTL DEF Spec

(***************************************************************************)
(* A process started with the configured keys opens whatever is stored.    *)
(***************************************************************************)
THEOREM SecretsOpen == Spec => []EverySecretOpens
<1>1. TypeOK /\ KeyInv /\ RowInv => EverySecretOpens
  <2>. SUFFICES ASSUME TypeOK, KeyInv, RowInv, NEW p \in Processes, active[p] = deployed
                PROVE  /\ \A c \in Certificates : Stored(c) => certificate[c].key \in keys[p]
                       /\ Configured => connection.key \in keys[p]
    BY DEF EverySecretOpens
  <2>1. \A v \in Versions : v <= deployed /\ v \notin retired => v \in keys[p]
    BY DEF KeyInv, TypeOK, Versions
  <2>2. \A c \in Certificates : certificate[c].key \in Versions
    BY DEF TypeOK
  <2>3. connection.key \in Versions
    BY DEF TypeOK
  <2>. QED
    BY <2>1, <2>2, <2>3 DEF RowInv
<1>. QED
  BY <1>1, VaultTypeCorrect, KeyInvariant, RowInvariant, PTL

------------------------------------------------------------------------------
(* Versions left behind *)

(***************************************************************************)
(* What every process has reached stays reached, and later writes are      *)
(* under such a version.                                                   *)
(***************************************************************************)
LEMMA ReachedStays ==
  ASSUME TypeOK, TypeOK', KeyInv, [Next]_vars, NEW v \in Versions, Reached(v)
  PROVE  Reached(v)'
<1>1. \A p \in Processes : active[p] \in Nat /\ active'[p] \in Nat /\ active[p] <= deployed
  BY DEF TypeOK, Versions, KeyInv
<1>2. \A p \in Processes : active'[p] = active[p] \/ active'[p] = deployed
  BY Steps DEF Start, DeployKey, RetireKey, processVars, TypeOK
<1>3. v \in Nat /\ deployed \in Nat
  BY DEF TypeOK, Versions
<1>. QED
  BY <1>1, <1>2, <1>3 DEF Reached

LEMMA WritesReached ==
  ASSUME TypeOK, KeyInv, [Next]_vars, NEW v \in Versions, Reached(v)
  PROVE  /\ \A c \in Certificates : Stored(c)' =>
              \/ Stored(c) /\ certificate'[c].key = certificate[c].key
              \/ certificate'[c].key >= v
         /\ connection' = connection \/ connection'.key >= v
<1>1. ASSUME NEW r \in Requests, request[r] # Idle
      PROVE  request[r].key >= v
  BY <1>1, RequestFields DEF KeyInv, Reached
<1>2. CASE UNCHANGED <<certificate, connection>>
  BY <1>2 DEF Stored
<1>3. ASSUME NEW c \in Certificates, Revoke(c)
      PROVE  /\ \A d \in Certificates : Stored(d)' => Stored(d) /\ certificate'[d].key = certificate[d].key
             /\ connection' = connection
  BY <1>3 DEF Revoke, Stored, TypeOK
<1>4. ASSUME NEW r \in Requests, request[r] # Idle, RowsWritten(request[r].key)
      PROVE  /\ \A c \in Certificates : Stored(c)' =>
                  \/ Stored(c) /\ certificate'[c].key = certificate[c].key
                  \/ certificate'[c].key >= v
             /\ connection' = connection \/ connection'.key >= v
  BY <1>1, <1>4 DEF RowsWritten
<1>. QED
  BY <1>2, <1>3, <1>4, Steps DEF Start, DeployKey, RetireKey, rowVars

(***************************************************************************)
(* Where the requests that re-seal come from.                              *)
(***************************************************************************)
LEMMA RotationSteps ==
  ASSUME TypeOK, [Next]_vars, NEW r \in Requests, request'[r].kind = "rotate"
  PROVE  \/ request'[r] = request[r]
         \/ \E p \in Processes : ListForRotation(r, p)
         \/ ReSealCertificate(r)
<1>. USE DEF Serve
<1>1. ASSUME NEW q \in Requests, NEW what, Serve(q, what), q # r \/ what.kind # "rotate"
      PROVE  request'[r] = request[r]
  BY <1>1 DEF TypeOK
<1>2. Idle.kind # "rotate"
  BY DEF Idle
<1>3. ASSUME NEW q \in Requests, Proceed(q), ~ReSealCertificate(r)
      PROVE  request'[r] = request[r]
  <2>1. CASE StoreUpload(q) \/ AnswerRotation(q) \/ WriteConfiguration(q) \/ ReSealConnection(q)
    BY <1>1, <1>2, <2>1 DEF StoreUpload, AnswerRotation, WriteConfiguration, ReSealConnection
  <2>2. CASE FindConnection(q)
    <3>1. request[q] \in [kind : {"configure", "create", "update"}, process : Processes,
                          certificate : Certificates, secret : Secrets, key : Versions]
      BY <2>2 DEF FindConnection, Idle, TypeOK, RequestsOfKind
    <3>2. \/ Serve(q, Idle)
          \/ \E kind \in {"create", "update"} : Serve(q, [request[q] EXCEPT !.kind = kind])
      BY <2>2 DEF FindConnection
    <3>3. \A kind \in {"create", "update"} : [request[q] EXCEPT !.kind = kind].kind # "rotate"
      BY <3>1
    <3>. HIDE DEF Serve
    <3>. QED
      BY <1>1, <1>2, <3>2, <3>3
  <2>3. CASE ReSealCertificate(q)
    <3>1. q # r
      BY <1>3, <2>3
    <3>2. Serve(q, Idle) \/ \E item : Serve(q, [request[q] EXCEPT !.todo = @ \ {item}])
      BY <2>3 DEF ReSealCertificate
    <3>. HIDE DEF Serve
    <3>. QED
      BY <1>1, <3>1, <3>2
  <2>. QED
    BY <1>3, <2>1, <2>2, <2>3 DEF Proceed
<1>4. ASSUME NEW q \in Requests, NEW p \in Processes,
             \/ \E c \in Certificates : SealUpload(q, p, c)
             \/ \E c \in Certificates, s \in Secrets : SealConfiguration(q, p, c, s)
             \/ ReadConnectionForRotation(q, p)
      PROVE  request'[r] = request[r]
  BY <1>4 DEF SealUpload, SealConfiguration, ReadConnectionForRotation, TypeOK
<1>5. ASSUME NEW q \in Requests, q # r, NEW p \in Processes, ListForRotation(q, p)
      PROVE  request'[r] = request[r]
  BY <1>5 DEF ListForRotation, TypeOK
<1>6. ASSUME NEW p \in Processes, RestartWithNewKey(p) \/ Crash(p)
      PROVE  request'[r] = request[r]
  BY <1>2, <1>6 DEF RestartWithNewKey, Crash, Start, TypeOK
<1>7. ASSUME \/ \E c \in Certificates : Revoke(c)
             \/ DeployKey
             \/ \E v \in Versions : RetireKey(v)
             \/ UNCHANGED vars
      PROVE  request'[r] = request[r]
  BY <1>7 DEF Revoke, DeployKey, RetireKey, vars
<1>. QED
  BY <1>3, <1>4, <1>5, <1>6, <1>7 DEF Next

LEMMA DrainInvariant == Spec => []DrainInv
<1>. USE VaultAssumption
<1>1. Init => DrainInv
  BY DEF Init, DrainInv, Idle
<1>2. TypeOK /\ TypeOK' /\ KeyInv /\ KeyInv' /\ DrainInv /\ [Next]_vars => DrainInv'
  <2>. SUFFICES ASSUME TypeOK, TypeOK', KeyInv, KeyInv', DrainInv, [Next]_vars
                PROVE  DrainInv'
    OBVIOUS
  <2>1. \A v \in drained' : Reached(v)'
    <3>1. \A v \in drained' : v \in Versions
      BY DEF TypeOK
    <3>2. \A v \in drained' : v \in drained \/
            \E r \in Requests : request[r].kind = "rotate" /\ request[r].agreed /\ v = request[r].key
      <4>1. ASSUME NEW r \in Requests, AnswerRotation(r)
            PROVE  drained' = drained \/
                     (request[r].kind = "rotate" /\ request[r].agreed /\ drained' = drained \union {request[r].key})
        BY <4>1 DEF AnswerRotation
      <4>2. drained' = drained \/ \E r \in Requests : AnswerRotation(r)
        BY DEF Next, Proceed, StoreUpload, ReSealCertificate, FindConnection, WriteConfiguration,
               ReSealConnection, SealUpload, ListForRotation, SealConfiguration, ReadConnectionForRotation,
               Revoke, DeployKey, RetireKey, RestartWithNewKey, Crash, Start, vars, historyVars
      <4>. QED
        BY <4>1, <4>2
    <3>3. \A v \in drained' : Reached(v)
      BY <3>2 DEF DrainInv
    <3>. QED
      BY <3>1, <3>3, ReachedStays
  <2>2. ASSUME NEW r \in Requests, request'[r].kind = "rotate", request'[r].agreed
        PROVE  /\ \A q \in Processes : active'[q] >= request'[r].key
               /\ ~request'[r].more => \A c \in Certificates : Stored(c)' =>
                    \/ certificate'[c].key >= request'[r].key
                    \/ [certificate |-> c, key |-> certificate'[c].key] \in request'[r].todo
    <3>1. CASE request'[r] = request[r]
      <4>1. PICK v \in Versions : v = request[r].key
        BY <2>2, <3>1, RequestFields DEF Idle
      <4>2. Reached(v)
        BY <2>2, <3>1, <4>1 DEF DrainInv
      <4>3. Reached(v)'
        BY <4>2, ReachedStays
      <4>4. \A c \in Certificates : Stored(c)' =>
              \/ Stored(c) /\ certificate'[c].key = certificate[c].key
              \/ certificate'[c].key >= v
        BY <4>2, WritesReached
      <4>5. \A q \in Processes : active'[q] >= request'[r].key
        BY <3>1, <4>1, <4>3 DEF Reached
      <4>. QED
        BY <2>2, <3>1, <4>1, <4>4, <4>5 DEF DrainInv
    <3>2. ASSUME NEW p \in Processes, ListForRotation(r, p)
          PROVE  /\ \A q \in Processes : active'[q] >= request'[r].key
                 /\ ~request'[r].more => \A c \in Certificates : Stored(c)' =>
                      \/ certificate'[c].key >= request'[r].key
                      \/ [certificate |-> c, key |-> certificate'[c].key] \in request'[r].todo
      <4>1. PICK batch \in SUBSET LeftBehind(active[p]) :
              Serve(r, [kind |-> "rotate", process |-> p, key |-> active[p],
                        more |-> LeftBehind(active[p]) \ batch # {}, agreed |-> Agreed(p),
                        todo |-> {[certificate |-> c, key |-> certificate[c].key] : c \in batch}])
        BY <3>2 DEF ListForRotation
      <4>2. /\ request'[r].key = active[p]
            /\ request'[r].more <=> LeftBehind(active[p]) \ batch # {}
            /\ request'[r].agreed <=> Agreed(p)
            /\ request'[r].todo = {[certificate |-> c, key |-> certificate[c].key] : c \in batch}
        BY <4>1 DEF Serve, TypeOK
      <4>3. UNCHANGED <<active, certificate>>
        BY <3>2 DEF ListForRotation, processVars, rowVars
      <4>4. \A q \in Processes : active'[q] >= request'[r].key
        BY <2>2, <4>2, <4>3 DEF Agreed, Reached, TypeOK, Versions
      <4>5. \A c \in Certificates : certificate[c].key \in Nat /\ active[p] \in Nat
        BY DEF TypeOK, Versions
      <4>6. ~request'[r].more => \A c \in Certificates : Stored(c) =>
              certificate[c].key = active[p] \/ c \in batch
        BY <4>2 DEF LeftBehind
      <4>. QED
        BY <4>2, <4>3, <4>4, <4>5, <4>6 DEF Stored
    <3>3. CASE ReSealCertificate(r)
      <4>1. /\ request[r].kind = "rotate" /\ request[r] # Idle
            /\ request[r] \in [kind : {"rotate"}, process : Processes, key : Versions, more : BOOLEAN,
                               agreed : BOOLEAN, todo : SUBSET [certificate : Certificates, key : Versions]]
        BY <3>3 DEF ReSealCertificate, Idle, TypeOK, RequestsOfKind
      <4>2. PICK item \in request[r].todo :
              /\ certificate' = IF certificate[item.certificate].key = item.key
                                THEN [certificate EXCEPT ![item.certificate].key = request[r].key]
                                ELSE certificate
              /\ Serve(r, [request[r] EXCEPT !.todo = @ \ {item}])
        <5>1. ~Serve(r, Idle)
          BY <2>2 DEF Serve, Idle, TypeOK
        <5>. QED
          BY <3>3, <5>1 DEF ReSealCertificate
      <4>3. /\ request'[r].key = request[r].key /\ request'[r].more = request[r].more
            /\ request'[r].agreed = request[r].agreed /\ request'[r].todo = request[r].todo \ {item}
        BY <4>1, <4>2 DEF Serve, TypeOK
      <4>4. PICK v \in Versions : v = request[r].key
        BY <4>1
      <4>5. Reached(v)
        BY <2>2, <4>1, <4>3, <4>4 DEF DrainInv
      <4>6. Reached(v)'
        BY <4>5, ReachedStays
      <4>7. \A q \in Processes : active'[q] >= request'[r].key
        BY <4>3, <4>4, <4>6 DEF Reached
      <4>8. ASSUME ~request'[r].more, NEW c \in Certificates, Stored(c)'
            PROVE  \/ certificate'[c].key >= v
                   \/ [certificate |-> c, key |-> certificate'[c].key] \in request'[r].todo
        <5>1. item \in [certificate : Certificates, key : Versions] /\ v \in Int
          BY <4>1 DEF Versions
        <5>2. Stored(c)
          BY <4>2, <4>8 DEF Stored, TypeOK
        <5>3. \/ certificate[c].key >= v
              \/ [certificate |-> c, key |-> certificate[c].key] \in request[r].todo
          BY <2>2, <4>1, <4>3, <4>4, <4>8, <5>2 DEF DrainInv
        <5>4. certificate'[c].key = certificate[c].key \/ certificate'[c].key = v
          BY <4>2, <4>4 DEF TypeOK
        <5>5. CASE certificate'[c].key = v
          BY <5>1, <5>5
        <5>6. CASE certificate'[c].key = certificate[c].key /\ certificate[c].key # v
          <6>1. [certificate |-> c, key |-> certificate[c].key] # item
            BY <4>2, <4>4, <5>6 DEF TypeOK
          <6>. QED
            BY <4>3, <5>3, <5>6, <6>1
        <5>. QED
          BY <5>1, <5>4, <5>5, <5>6
      <4>. QED
        BY <4>3, <4>4, <4>7, <4>8
    <3>. QED
      BY <2>2, <3>1, <3>2, <3>3, RotationSteps
  <2>. QED
    BY <2>1, <2>2 DEF DrainInv, Reached
<1>. QED
  BY <1>1, <1>2, VaultTypeCorrect, KeyInvariant, PTL DEF Spec

(***************************************************************************)
(* Nothing is, or comes back, under a key older than one reported drained. *)
(***************************************************************************)
THEOREM Drained == Spec => []DrainedForGood
<1>1. Init => DrainedForGood
  BY DEF Init, DrainedForGood
<1>2. TypeOK /\ TypeOK' /\ KeyInv /\ DrainInv /\ DrainedForGood /\ [Next]_vars => DrainedForGood'
  <2>. SUFFICES ASSUME TypeOK, TypeOK', KeyInv, DrainInv, DrainedForGood, [Next]_vars,
                       NEW v \in drained', NEW c \in Certificates, Stored(c)'
                PROVE  certificate'[c].key >= v
    BY DEF DrainedForGood
  <2>0. v \in Versions
    BY DEF TypeOK
  <2>1. CASE v \in drained
    <3>1. Reached(v)
      BY <2>1 DEF DrainInv
    <3>2. Stored(c) => certificate[c].key >= v
      BY <2>1 DEF DrainedForGood
    <3>. QED
      BY <2>0, <3>1, <3>2, WritesReached
  <2>2. CASE v \notin drained
    <3>1. drained' = drained \/ \E r \in Requests : AnswerRotation(r)
      BY DEF Next, Proceed, StoreUpload, ReSealCertificate, FindConnection, WriteConfiguration,
             ReSealConnection, SealUpload, ListForRotation, SealConfiguration, ReadConnectionForRotation,
             Revoke, DeployKey, RetireKey, RestartWithNewKey, Crash, Start, vars, historyVars
    <3>2. PICK r \in Requests : AnswerRotation(r)
      BY <2>2, <3>1
    <3>3. /\ request[r].kind = "rotate" /\ request[r].todo = {} /\ request[r].agreed /\ ~request[r].more
          /\ v = request[r].key
      BY <2>2, <3>2 DEF AnswerRotation
    <3>4. UNCHANGED certificate
      BY <3>2 DEF AnswerRotation, rowVars
    <3>. QED
      BY <3>3, <3>4 DEF DrainInv, Stored
  <2>. QED
    BY <2>1, <2>2
<1>. QED
  BY <1>1, <1>2, VaultTypeCorrect, KeyInvariant, DrainInvariant, PTL DEF Spec

------------------------------------------------------------------------------
(* The configured secret *)

LEMMA ReSealSteps ==
  ASSUME TypeOK, [Next]_vars, NEW r \in Requests, request'[r].kind = "reseal"
  PROVE  request'[r] = request[r] \/ \E p \in Processes : ReadConnectionForRotation(r, p)
<1>. USE DEF Serve
<1>1. ASSUME NEW q \in Requests, NEW what, Serve(q, what), q # r \/ what.kind # "reseal"
      PROVE  request'[r] = request[r]
  BY <1>1 DEF TypeOK
<1>2. Idle.kind # "reseal"
  BY DEF Idle
<1>3. ASSUME NEW q \in Requests, Proceed(q)
      PROVE  request'[r] = request[r]
  <2>1. CASE StoreUpload(q) \/ AnswerRotation(q) \/ WriteConfiguration(q) \/ ReSealConnection(q)
    BY <1>1, <1>2, <2>1 DEF StoreUpload, AnswerRotation, WriteConfiguration, ReSealConnection
  <2>2. CASE FindConnection(q)
    <3>1. request[q] \in [kind : {"configure", "create", "update"}, process : Processes,
                          certificate : Certificates, secret : Secrets, key : Versions]
      BY <2>2 DEF FindConnection, Idle, TypeOK, RequestsOfKind
    <3>2. \/ Serve(q, Idle)
          \/ \E kind \in {"create", "update"} : Serve(q, [request[q] EXCEPT !.kind = kind])
      BY <2>2 DEF FindConnection
    <3>3. \A kind \in {"create", "update"} : [request[q] EXCEPT !.kind = kind].kind # "reseal"
      BY <3>1
    <3>. HIDE DEF Serve
    <3>. QED
      BY <1>1, <1>2, <3>2, <3>3
  <2>3. CASE ReSealCertificate(q)
    <3>1. request[q] \in [kind : {"rotate"}, process : Processes, key : Versions, more : BOOLEAN,
                          agreed : BOOLEAN, todo : SUBSET [certificate : Certificates, key : Versions]]
      BY <2>3 DEF ReSealCertificate, Idle, TypeOK, RequestsOfKind
    <3>2. PICK item \in request[q].todo : Serve(q, Idle) \/ Serve(q, [request[q] EXCEPT !.todo = @ \ {item}])
      BY <2>3 DEF ReSealCertificate
    <3>3. [request[q] EXCEPT !.todo = @ \ {item}].kind # "reseal"
      BY <3>1
    <3>. HIDE DEF Serve
    <3>. QED
      BY <1>1, <1>2, <3>2, <3>3
  <2>. QED
    BY <1>3, <2>1, <2>2, <2>3 DEF Proceed
<1>4. ASSUME NEW q \in Requests, NEW p \in Processes,
             \/ \E c \in Certificates : SealUpload(q, p, c)
             \/ \E c \in Certificates, s \in Secrets : SealConfiguration(q, p, c, s)
             \/ ListForRotation(q, p)
      PROVE  request'[r] = request[r]
  BY <1>4 DEF SealUpload, SealConfiguration, ListForRotation, TypeOK
<1>5. ASSUME NEW q \in Requests, q # r, NEW p \in Processes, ReadConnectionForRotation(q, p)
      PROVE  request'[r] = request[r]
  BY <1>5 DEF ReadConnectionForRotation, TypeOK
<1>6. ASSUME NEW p \in Processes, RestartWithNewKey(p) \/ Crash(p)
      PROVE  request'[r] = request[r]
  BY <1>2, <1>6 DEF RestartWithNewKey, Crash, Start, TypeOK
<1>7. ASSUME \/ \E c \in Certificates : Revoke(c)
             \/ DeployKey
             \/ \E v \in Versions : RetireKey(v)
             \/ UNCHANGED vars
      PROVE  request'[r] = request[r]
  BY <1>7 DEF Revoke, DeployKey, RetireKey, vars
<1>. QED
  BY <1>3, <1>4, <1>5, <1>6, <1>7 DEF Next

(***************************************************************************)
(* After a re-sealing has read the row with all processes on its key, the  *)
(* row's secret changes only along with its key, and never back.           *)
(***************************************************************************)
LEMMA ReSealInvariant == Spec => []ReSealInv
<1>. USE VaultAssumption
<1>1. Init => ReSealInv
  BY DEF Init, ReSealInv, Idle
<1>2. TypeOK /\ TypeOK' /\ KeyInv /\ RowInv /\ ReSealInv /\ [Next]_vars => ReSealInv'
  <2>. SUFFICES ASSUME TypeOK, TypeOK', KeyInv, RowInv, ReSealInv, [Next]_vars,
                       NEW r \in Requests, request'[r].kind = "reseal", request'[r].agreed
                PROVE  /\ \A q \in Processes : active'[q] >= request'[r].key
                       /\ request'[r].expected < request'[r].key
                       /\ connection'.key = request'[r].expected => connection'.secret = request'[r].secret
    BY DEF ReSealInv, Reached
  <2>1. CASE request'[r] = request[r]
    <3>1. PICK v \in Versions : v = request[r].key
      BY <2>1, RequestFields DEF Idle
    <3>2. Reached(v) /\ request[r].expected < v /\ request[r].expected \in Int /\ v \in Int
      BY <2>1, <3>1, RequestFields DEF ReSealInv, Versions
    <3>3. Reached(v)'
      BY <3>2, ReachedStays
    <3>4. connection' = connection \/ connection'.key >= v
      BY <3>2, WritesReached
    <3>5. connection'.key = request[r].expected => connection'.secret = request[r].secret
      <4>1. CASE connection' = connection
        BY <2>1, <4>1 DEF ReSealInv
      <4>2. CASE connection'.key >= v
        BY <3>2, <4>2
      <4>. QED
        BY <3>4, <4>1, <4>2
    <3>. QED
      BY <2>1, <3>1, <3>2, <3>3, <3>5 DEF Reached
  <2>2. ASSUME NEW p \in Processes, ReadConnectionForRotation(r, p)
        PROVE  /\ \A q \in Processes : active'[q] >= request'[r].key
               /\ request'[r].expected < request'[r].key
               /\ connection'.key = request'[r].expected => connection'.secret = request'[r].secret
    <3>1. /\ request'[r].key = active[p] /\ request'[r].expected = connection.key
          /\ request'[r].secret = connection.secret /\ (request'[r].agreed <=> Agreed(p))
      BY <2>2 DEF ReadConnectionForRotation, Serve, TypeOK
    <3>2. UNCHANGED <<active, connection>> /\ Configured /\ connection.key # active[p]
      BY <2>2 DEF ReadConnectionForRotation, processVars, rowVars
    <3>3. \A q \in Processes : active[q] = active[p] /\ active[q] \in Nat
      BY <3>1 DEF Agreed, TypeOK, Versions
    <3>4. connection.key \in Nat
      BY DEF TypeOK, Versions
    <3>5. connection.key <= active[p]
      BY <3>2, <3>3 DEF RowInv
    <3>. QED
      BY <3>1, <3>2, <3>3, <3>4, <3>5
  <2>. QED
    BY <2>1, <2>2, ReSealSteps
<1>. QED
  BY <1>1, <1>2, VaultTypeCorrect, KeyInvariant, RowInvariant, PTL DEF Spec

(***************************************************************************)
(* The stored secret changes only by a configuration, as long as re-seals  *)
(* begin when every process is on the key they seal under.                 *)
(***************************************************************************)
THEOREM ConfigurationKept == Spec => ConfigurationSurvives
<1>1. TypeOK /\ ReSealInv /\ [Next]_vars =>
        [connection'.secret # connection.secret =>
           \/ configured' = connection'.secret
           \/ \E r \in Requests : /\ request[r].kind = "reseal"
                                  /\ ~request[r].agreed
                                  /\ request'[r] = Idle]_vars
  <2>. SUFFICES ASSUME TypeOK, ReSealInv, [Next]_vars, connection'.secret # connection.secret
                PROVE  \/ configured' = connection'.secret
                       \/ \E r \in Requests : /\ request[r].kind = "reseal"
                                              /\ ~request[r].agreed
                                              /\ request'[r] = Idle
    OBVIOUS
  <2>1. ASSUME NEW r \in Requests, WriteConfiguration(r)
        PROVE  configured' = connection'.secret
    BY <2>1 DEF WriteConfiguration
  <2>2. ASSUME NEW r \in Requests, ReSealConnection(r)
        PROVE  /\ request[r].kind = "reseal"
               /\ ~request[r].agreed
               /\ request'[r] = Idle
    BY <2>2 DEF ReSealConnection, StillExpected, Serve, ReSealInv, TypeOK
  <2>3. connection' = connection \/ \E r \in Requests : WriteConfiguration(r) \/ ReSealConnection(r)
    BY DEF Next, Proceed, StoreUpload, ReSealCertificate, AnswerRotation, FindConnection,
           SealUpload, ListForRotation, SealConfiguration, ReadConnectionForRotation,
           Revoke, DeployKey, RetireKey, RestartWithNewKey, Crash, Start, vars, rowVars
  <2>. QED
    BY <2>1, <2>2, <2>3
<1>. QED
  BY <1>1, VaultTypeCorrect, ReSealInvariant, PTL DEF Spec, ConfigurationSurvives
================================================================================
