--------------------------------- MODULE Vault ---------------------------------
(***************************************************************************)
(* Secrets at rest: A1 certificates and the SERPRO connection of one       *)
(* office, sealed under versioned keys, and what moves them to a new key:  *)
(* a deployment with the former key still readable, batches of re-sealing, *)
(* and the removal of the former key.                                      *)
(*                                                                         *)
(* Every process has the keys it was started with, so during a deployment  *)
(* processes seal under different keys.  Sealing happens in memory, before *)
(* the transaction that stores the result; re-sealing reads rows in one    *)
(* statement and replaces each in a later one, if its key version is still *)
(* the one it read.                                                        *)
(***************************************************************************)
EXTENDS Integers, FiniteSets

CONSTANTS
  Processes,     \* processes of the application
  Requests,      \* requests the processes serve at the same time
  Certificates,  \* A1 certificates, named by their fingerprint
  Secrets,       \* consumer keys and secrets of the SERPRO connection
  BatchSize,     \* certificates re-sealed per request
  LastVersion,   \* bound of the model on key versions
  MaxCrashes,    \* bound of the model on restarts out of turn
  NoSecret,      \* the secret of a connection that is not configured
  NoProcess      \* the process of a request not being served

ASSUME VaultAssumption ==
  /\ IsFiniteSet(Certificates)
  /\ BatchSize \in 1 .. 100
  /\ LastVersion \in Nat \ {0}
  /\ MaxCrashes \in Nat
  /\ NoSecret \notin Secrets
  /\ NoProcess \notin Processes

VARIABLES
  \* what the operator has configured
  deployed,     \* CREDENTIAL_VAULT_KEY_VERSION
  retired,      \* versions no longer in CREDENTIAL_VAULT_PREVIOUS_KEYS
  \* AesGcmCredentialCipher of each process
  active,       \* activeKeyVersion
  keys,         \* versions it can open
  \* rows
  certificate,  \* digital_certificates: status and keyVersion
  connection,   \* serpro_connections: what is sealed, and its keyVersion
  \* requests
  request,
  \* history
  configured,   \* the secret of the last configuration
  drained,      \* versions reported to have no certificate left behind
  crashes       \* restarts out of turn

rowVars == <<certificate, connection>>
processVars == <<active, keys>>
operatorVars == <<deployed, retired>>
historyVars == <<configured, drained, crashes>>
vars == <<operatorVars, processVars, rowVars, request, historyVars>>

Versions == 1 .. LastVersion
Kinds == {"idle", "upload", "rotate", "configure", "create", "update", "reseal"}
Idle == [kind |-> "idle", process |-> NoProcess]

(***************************************************************************)
(* What a request carries: the key version it sealed under or is moving    *)
(* rows to, the rows it has read, and whether all processes agreed on the  *)
(* active key when it read them (history).                                 *)
(***************************************************************************)
RequestsOfKind ==
  {Idle} \union
  [kind : {"upload"}, process : Processes, certificate : Certificates, key : Versions] \union
  [kind : {"rotate"}, process : Processes, key : Versions, more : BOOLEAN, agreed : BOOLEAN,
   todo : SUBSET [certificate : Certificates, key : Versions]] \union
  [kind : {"configure", "create", "update"}, process : Processes, certificate : Certificates,
   secret : Secrets, key : Versions] \union
  [kind : {"reseal"}, process : Processes, secret : Secrets, expected : Versions,
   key : Versions, agreed : BOOLEAN]

TypeOK ==
  /\ deployed \in Versions
  /\ retired \in SUBSET Versions
  /\ active \in [Processes -> Versions]
  /\ keys \in [Processes -> SUBSET Versions]
  /\ certificate \in [Certificates -> [status : {"ABSENT", "ACTIVE", "REVOKED"}, key : Versions]]
  /\ connection \in [secret : Secrets \union {NoSecret}, key : Versions]
  /\ request \in [Requests -> RequestsOfKind]
  /\ configured \in Secrets \union {NoSecret}
  /\ drained \in SUBSET Versions
  /\ crashes \in Nat

Init ==
  /\ deployed = 1
  /\ retired = {}
  /\ active = [p \in Processes |-> 1]
  /\ keys = [p \in Processes |-> {1}]
  /\ certificate = [c \in Certificates |-> [status |-> "ABSENT", key |-> 1]]
  /\ connection = [secret |-> NoSecret, key |-> 1]
  /\ request = [r \in Requests |-> Idle]
  /\ configured = NoSecret
  /\ drained = {}
  /\ crashes = 0

Stored(c) == certificate[c].status # "ABSENT"
Configured == connection.secret # NoSecret
Agreed(p) == \A q \in Processes : active[q] = active[p]

(***************************************************************************)
(* The key a process seals under.                                          *)
(***************************************************************************)
SealingKey_Former(p) == CHOOSE v \in keys[p] : \A u \in keys[p] : v <= u

SealingKey_Next(p) == active[p] + 1

SealingKey(p) == active[p]

Serve(r, what) == request' = [request EXCEPT ![r] = what]

------------------------------------------------------------------------------
(* Certificates *)

(***************************************************************************)
(* An upload is sealed, then stored unless the fingerprint is known.       *)
(***************************************************************************)
SealUpload(r, p, c) ==
  /\ request[r] = Idle
  /\ Serve(r, [kind |-> "upload", process |-> p, certificate |-> c, key |-> SealingKey(p)])
  /\ UNCHANGED <<operatorVars, processVars, rowVars, historyVars>>

StoreUpload(r) ==
  /\ request[r].kind = "upload"
  /\ LET c == request[r].certificate
     IN  certificate' = IF Stored(c) THEN certificate
                        ELSE [certificate EXCEPT ![c] = [status |-> "ACTIVE", key |-> request[r].key]]
  /\ Serve(r, Idle)
  /\ UNCHANGED <<operatorVars, processVars, connection, historyVars>>

(***************************************************************************)
(* Revocation leaves the sealed fields alone; revoked certificates are     *)
(* re-sealed like the others.                                              *)
(***************************************************************************)
Revoke(c) ==
  /\ certificate[c].status = "ACTIVE"
  /\ certificate' = [certificate EXCEPT ![c].status = "REVOKED"]
  /\ UNCHANGED <<operatorVars, processVars, connection, request, historyVars>>

(***************************************************************************)
(* The first BatchSize certificates under another key, oldest keys first;  *)
(* one more is read to tell whether there are more.                        *)
(***************************************************************************)
LeftBehind_ActiveOnly(v) == {c \in Certificates : certificate[c].status = "ACTIVE" /\ certificate[c].key # v}

LeftBehind(v) == {c \in Certificates : Stored(c) /\ certificate[c].key # v}

ListForRotation(r, p) ==
  /\ request[r] = Idle
  /\ \E batch \in SUBSET LeftBehind(active[p]) :
       /\ Cardinality(batch) <= BatchSize
       /\ LET rest == LeftBehind(active[p]) \ batch
          IN  /\ rest # {} => Cardinality(batch) = BatchSize
              /\ \A c \in batch, d \in rest : certificate[c].key <= certificate[d].key
              /\ Serve(r, [kind |-> "rotate", process |-> p, key |-> active[p],
                           more |-> rest # {}, agreed |-> Agreed(p),
                           todo |-> {[certificate |-> c, key |-> certificate[c].key] : c \in batch}])
  /\ UNCHANGED <<operatorVars, processVars, rowVars, historyVars>>

(***************************************************************************)
(* One certificate of the batch: skipped if its key changed since it was   *)
(* read; a key the process does not have ends the whole request.           *)
(***************************************************************************)
ReSealCertificate(r) ==
  /\ request[r].kind = "rotate"
  /\ \E item \in request[r].todo :
       IF item.key \in keys[request[r].process]
       THEN /\ certificate' = IF certificate[item.certificate].key = item.key
                              THEN [certificate EXCEPT ![item.certificate].key = request[r].key]
                              ELSE certificate
            /\ Serve(r, [request[r] EXCEPT !.todo = @ \ {item}])
       ELSE Serve(r, Idle) /\ UNCHANGED certificate
  /\ UNCHANGED <<operatorVars, processVars, connection, historyVars>>

AnswerRotation(r) ==
  /\ request[r].kind = "rotate"
  /\ request[r].todo = {}
  /\ drained' = IF request[r].agreed /\ ~request[r].more THEN drained \union {request[r].key} ELSE drained
  /\ Serve(r, Idle)
  /\ UNCHANGED <<operatorVars, processVars, rowVars, configured, crashes>>

------------------------------------------------------------------------------
(* The SERPRO connection *)

SealConfiguration(r, p, c, s) ==
  /\ request[r] = Idle
  /\ Serve(r, [kind |-> "configure", process |-> p, certificate |-> c, secret |-> s, key |-> SealingKey(p)])
  /\ UNCHANGED <<operatorVars, processVars, rowVars, historyVars>>

(***************************************************************************)
(* configureWithAudit refuses a certificate that is not in force, looks    *)
(* for the row, and creates or updates it accordingly; creating it twice   *)
(* fails on its unique index.                                              *)
(***************************************************************************)
FindConnection(r) ==
  /\ request[r].kind = "configure"
  /\ Serve(r, IF certificate[request[r].certificate].status # "ACTIVE" THEN Idle
              ELSE [request[r] EXCEPT !.kind = IF Configured THEN "update" ELSE "create"])
  /\ UNCHANGED <<operatorVars, processVars, rowVars, historyVars>>

WriteConfiguration(r) ==
  /\ request[r].kind \in {"create", "update"}
  /\ IF request[r].kind = "create" /\ Configured
     THEN UNCHANGED <<connection, configured>>
     ELSE /\ connection' = [secret |-> request[r].secret, key |-> request[r].key]
          /\ configured' = request[r].secret
  /\ Serve(r, Idle)
  /\ UNCHANGED <<operatorVars, processVars, certificate, drained, crashes>>

ReadConnectionForRotation(r, p) ==
  /\ request[r] = Idle
  /\ Configured
  /\ connection.key # active[p]
  /\ Serve(r, [kind |-> "reseal", process |-> p, secret |-> connection.secret,
               expected |-> connection.key, key |-> active[p], agreed |-> Agreed(p)])
  /\ UNCHANGED <<operatorVars, processVars, rowVars, historyVars>>

StillExpected_Unchecked(r) == TRUE

StillExpected(r) == connection.key = request[r].expected

ReSealConnection(r) ==
  /\ request[r].kind = "reseal"
  /\ connection' = IF request[r].expected \in keys[request[r].process] /\ StillExpected(r)
                   THEN [secret |-> request[r].secret, key |-> request[r].key]
                   ELSE connection
  /\ Serve(r, Idle)
  /\ UNCHANGED <<operatorVars, processVars, certificate, historyVars>>

------------------------------------------------------------------------------
(* Deployment *)

(***************************************************************************)
(* The operator configures a new key, keeping the former ones readable.    *)
(***************************************************************************)
DeployKey ==
  /\ deployed < LastVersion
  /\ deployed' = deployed + 1
  /\ UNCHANGED <<retired, processVars, rowVars, request, historyVars>>

(***************************************************************************)
(* The operator removes a former key once every process was restarted and  *)
(* no row is under it.                                                     *)
(***************************************************************************)
RetireKey(v) ==
  /\ v < deployed
  /\ v \notin retired
  /\ \A p \in Processes : active[p] = deployed
  /\ \A c \in Certificates : Stored(c) => certificate[c].key # v
  /\ Configured => connection.key # v
  /\ retired' = retired \union {v}
  /\ UNCHANGED <<deployed, processVars, rowVars, request, historyVars>>

(***************************************************************************)
(* A process starts with the configured keys; its requests are gone.       *)
(***************************************************************************)
Start(p) ==
  /\ active' = [active EXCEPT ![p] = deployed]
  /\ keys' = [keys EXCEPT ![p] = (1 .. deployed) \ retired]
  /\ request' = [r \in Requests |-> IF request[r].process = p THEN Idle ELSE request[r]]
  /\ UNCHANGED <<operatorVars, rowVars, configured, drained>>

RestartWithNewKey(p) ==
  /\ active[p] # deployed
  /\ Start(p)
  /\ UNCHANGED crashes

Crash(p) ==
  /\ crashes < MaxCrashes
  /\ crashes' = crashes + 1
  /\ Start(p)

------------------------------------------------------------------------------
Proceed(r) ==
  \/ StoreUpload(r)
  \/ ReSealCertificate(r)
  \/ AnswerRotation(r)
  \/ FindConnection(r)
  \/ WriteConfiguration(r)
  \/ ReSealConnection(r)

Next ==
  \/ \E r \in Requests :
       \/ Proceed(r)
       \/ \E p \in Processes :
            \/ \E c \in Certificates : SealUpload(r, p, c)
            \/ ListForRotation(r, p)
            \/ \E c \in Certificates, s \in Secrets : SealConfiguration(r, p, c, s)
            \/ ReadConnectionForRotation(r, p)
  \/ \E c \in Certificates : Revoke(c)
  \/ DeployKey
  \/ \E v \in Versions : RetireKey(v)
  \/ \E p \in Processes : RestartWithNewKey(p) \/ Crash(p)

Spec == Init /\ [][Next]_vars

------------------------------------------------------------------------------
(* Properties *)

(***************************************************************************)
(* A process started with the configured keys can open everything stored,  *)
(* whatever other processes, with other keys, were storing meanwhile.      *)
(***************************************************************************)
EverySecretOpens ==
  \A p \in Processes : active[p] = deployed =>
    /\ \A c \in Certificates : Stored(c) => certificate[c].key \in keys[p]
    /\ Configured => connection.key \in keys[p]

(***************************************************************************)
(* A rotation that found all processes on its key and reported no more     *)
(* has left no certificate under an older key, and none comes back:        *)
(* concurrent rotations, uploads and skipped rows included.                *)
(***************************************************************************)
DrainedForGood ==
  \A v \in drained, c \in Certificates : Stored(c) => certificate[c].key >= v

(***************************************************************************)
(* "protegida contra atualizacao concorrente": the stored secret changes   *)
(* only by a configuration.  A re-sealing compares key versions, not       *)
(* secrets, so it keeps this only if every process sealed under its key    *)
(* when it read the row: a configuration sealed by a process with the      *)
(* former key is otherwise overwritten with the secret it replaced.        *)
(***************************************************************************)
ConfigurationSurvives ==
  [][connection'.secret # connection.secret =>
       \/ configured' = connection'.secret
       \/ \E r \in Requests : /\ request[r].kind = "reseal"
                              /\ ~request[r].agreed
                              /\ request'[r] = Idle]_vars

------------------------------------------------------------------------------
(* What the proofs need besides *)

(***************************************************************************)
(* A process opens every version up to its own that is not retired, and    *)
(* its requests seal under its key: a restart drops them.                  *)
(***************************************************************************)
KeyInv ==
  /\ \A v \in retired : v < deployed
  /\ \A p \in Processes :
       /\ active[p] <= deployed
       /\ active[p] \notin retired
       /\ (1 .. active[p]) \ retired \subseteq keys[p]
  /\ \A r \in Requests : request[r] # Idle => request[r].key = active[request[r].process]

(***************************************************************************)
(* What is stored is under a version that is not retired; the connection   *)
(* never under a version no process has reached.                           *)
(***************************************************************************)
RowInv ==
  /\ \A c \in Certificates : Stored(c) => certificate[c].key <= deployed /\ certificate[c].key \notin retired
  /\ Configured => /\ connection.key <= deployed /\ connection.key \notin retired
                   /\ \E p \in Processes : connection.key <= active[p]

(***************************************************************************)
(* A rotation that found all processes on its key, with nothing beyond its *)
(* batch: what is under an older key is still to do, as it was listed.     *)
(***************************************************************************)
Reached(v) == \A p \in Processes : active[p] >= v

DrainInv ==
  /\ \A v \in drained : Reached(v)
  /\ \A r \in Requests : request[r].kind = "rotate" /\ request[r].agreed =>
       /\ Reached(request[r].key)
       /\ ~request[r].more => \A c \in Certificates : Stored(c) =>
            \/ certificate[c].key >= request[r].key
            \/ [certificate |-> c, key |-> certificate[c].key] \in request[r].todo

(***************************************************************************)
(* A re-sealing that found all processes on its key: while the row is      *)
(* under the older key it read, the secret is the one it read.             *)
(***************************************************************************)
ReSealInv ==
  \A r \in Requests : request[r].kind = "reseal" /\ request[r].agreed =>
    /\ Reached(request[r].key)
    /\ request[r].expected < request[r].key
    /\ connection.key = request[r].expected => connection.secret = request[r].secret
================================================================================
