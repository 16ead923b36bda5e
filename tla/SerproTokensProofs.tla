-------------------------- MODULE SerproTokensProofs --------------------------
(***************************************************************************)
(* Proofs about SerproTokens, for any number of calls and secrets.         *)
(***************************************************************************)
EXTENDS SerproTokens, FiniteSetTheorems, TLAPS

(***************************************************************************)
(* What getTokens does, whoever calls it: the call presents a cached token *)
(* that is good, or waits for an authentication of its key, which is in    *)
(* flight or started for it.                                               *)
(***************************************************************************)
Presents(c, n) ==
  /\ Fresh(n)
  /\ token' = [token EXCEPT ![c] = n]
  /\ pc' = [pc EXCEPT ![c] = "sending"]
  /\ UNCHANGED <<inFlight, authentication, issued>>

WaitsFor(c, n) ==
  /\ n # 0
  /\ n = inFlight[CacheKey(c)]
  /\ token' = [token EXCEPT ![c] = n]
  /\ pc' = [pc EXCEPT ![c] = "waiting"]
  /\ UNCHANGED <<inFlight, authentication, issued>>

Authenticates(c, n) ==
  /\ inFlight[CacheKey(c)] = 0
  /\ n = issued + 1
  /\ n \in Tokens
  /\ issued' = n
  /\ token' = [token EXCEPT ![c] = n]
  /\ pc' = [pc EXCEPT ![c] = "waiting"]
  /\ inFlight' = [inFlight EXCEPT ![CacheKey(c)] = n]
  /\ authentication' = [authentication EXCEPT ![n] =
       [state |-> "running", key |-> CacheKey(c), secret |-> material[c].secret]]

LEMMA TokensObtained ==
  ASSUME NEW c \in Calls, NEW force \in BOOLEAN, NEW cached, TypeOK, GetTokens(c, force, cached)
  PROVE  \/ ~force /\ Presents(c, cached)
         \/ (force \/ ~Fresh(cached)) /\ WaitsFor(c, inFlight[CacheKey(c)])
         \/ (force \/ ~Fresh(cached)) /\ Authenticates(c, issued + 1)
  BY DEF GetTokens, Pending, CacheKey, Presents, WaitsFor, Authenticates

LEMMA KeyTyping ==
  ASSUME TypeOK, NEW c \in Calls
  PROVE  CacheKey(c) \in Stamps /\ material[c].secret \in Secrets
  BY DEF TypeOK, Connections, CacheKey

(***************************************************************************)
(* A step of getTokens keeps the types, whatever was cached.               *)
(***************************************************************************)
LEMMA ObtainedTyping ==
  ASSUME NEW c \in Calls, NEW force \in BOOLEAN, NEW cached \in Tokens \union {0},
         TypeOK, GetTokens(c, force, cached)
  PROVE  /\ inFlight' \in [Stamps -> Tokens \union {0}]
         /\ authentication' \in [Tokens ->
              [state : {"none", "running", "valid", "expired", "failed"}, key : Stamps, secret : Secrets]]
         /\ issued' \in Tokens \union {0}
         /\ pc' \in [Calls -> {"idle", "ready", "waiting", "sending", "recording"} \union Outcomes]
         /\ token' \in [Calls -> Tokens \union {0}]
<1>1. CASE Presents(c, cached)
  BY <1>1 DEF Presents, TypeOK
<1>2. CASE WaitsFor(c, inFlight[CacheKey(c)])
  BY <1>2, KeyTyping DEF WaitsFor, TypeOK
<1>3. CASE Authenticates(c, issued + 1)
  BY <1>3, KeyTyping DEF Authenticates, TypeOK
<1>. QED
  BY <1>1, <1>2, <1>3, TokensObtained

(***************************************************************************)
(* The variables have their types in every reachable state.                *)
(***************************************************************************)
THEOREM TokensTypeCorrect == Spec => []TypeOK
<1>. USE TokensAssumption
<1>1. Init => TypeOK
  BY DEF Init, TypeOK, Connections, Stamps, Tokens
<1>2. TypeOK /\ [Next]_vars => TypeOK'
  <2>. SUFFICES ASSUME TypeOK, [Next]_vars
                PROVE  TypeOK'
    OBVIOUS
  <2>. USE DEF gatewayVars, callVars
  <2>1. ASSUME NEW c \in Calls, GetMaterialForUse(c)
        PROVE  TypeOK'
    BY <2>1 DEF GetMaterialForUse, TypeOK, Outcomes
  <2>2. ASSUME NEW c \in Calls, FirstTokens(c)
        PROVE  TypeOK'
    <3>1. tokenCache[CacheKey(c)] \in Tokens \union {0}
      BY KeyTyping DEF TypeOK
    <3>2. GetTokens(c, FALSE, tokenCache[CacheKey(c)])
      BY <2>2 DEF FirstTokens
    <3>3. UNCHANGED <<connection, tokenCache, material, refusedToken, refusals>>
      BY <2>2 DEF FirstTokens
    <3>. HIDE DEF Outcomes
    <3>. QED
      BY <3>1, <3>2, <3>3, ObtainedTyping DEF TypeOK
  <2>3. ASSUME NEW c \in Calls, Refused(c)
        PROVE  TypeOK'
    <3>1. GetTokens(c, TRUE, 0)
      BY <2>3 DEF Refused, Renew
    <3>2. tokenCache' \in [Stamps -> Tokens \union {0}]
      BY <2>3, KeyTyping DEF Refused, Renew, TypeOK
    <3>3. refusedToken' \in [Calls -> Tokens \union {0}]
      BY <2>3 DEF Refused, TypeOK
    <3>4. refusals' \in [Stamps -> Nat]
      BY <2>3, KeyTyping DEF Refused, TypeOK
    <3>5. UNCHANGED <<connection, material>>
      BY <2>3 DEF Refused
    <3>. QED
      BY <3>1, <3>2, <3>3, <3>4, <3>5, ObtainedTyping DEF TypeOK
  <2>4. ASSUME NEW c \in Calls, NEW outcome \in {"recording", "completed", "retriable", "final"}, End(c, outcome)
        PROVE  TypeOK'
    BY <2>4 DEF End, TypeOK, Outcomes
  <2>5. ASSUME NEW n \in Tokens, NEW state \in {"valid", "failed"},
               NEW outcome \in {"sending", "retriable", "final"},
               AuthenticationEnds(n, state, outcome)
        PROVE  /\ authentication' \in [Tokens ->
                    [state : {"none", "running", "valid", "expired", "failed"}, key : Stamps, secret : Secrets]]
               /\ inFlight' \in [Stamps -> Tokens \union {0}]
               /\ pc' \in [Calls -> {"idle", "ready", "waiting", "sending", "recording"} \union Outcomes]
               /\ UNCHANGED <<connection, issued, material, refusals>>
    BY <2>5 DEF AuthenticationEnds, NotInFlight, TypeOK, Outcomes
  <2>6. ASSUME NEW n \in Tokens, AuthenticationSucceeds(n)
        PROVE  TypeOK'
    <3>1. authentication[n].key \in Stamps
      BY DEF TypeOK
    <3>2. tokenCache' \in [Stamps -> Tokens \union {0}]
      BY <2>6, <3>1 DEF AuthenticationSucceeds, TypeOK
    <3>3. AuthenticationEnds(n, "valid", "sending") /\ UNCHANGED <<token, refusedToken>>
      BY <2>6 DEF AuthenticationSucceeds
    <3>. QED
      BY <2>5, <3>2, <3>3 DEF TypeOK
  <2>7. ASSUME NEW n \in Tokens, AuthenticationFails(n)
        PROVE  TypeOK'
    <3>1. PICK outcome \in {"retriable", "final"} : AuthenticationEnds(n, "failed", outcome)
      BY <2>7 DEF AuthenticationFails
    <3>2. token' \in [Calls -> Tokens \union {0}] /\ refusedToken' \in [Calls -> Tokens \union {0}]
      BY <2>7 DEF AuthenticationFails, TypeOK
    <3>3. UNCHANGED tokenCache
      BY <2>7 DEF AuthenticationFails
    <3>. QED
      BY <2>5, <3>1, <3>2, <3>3 DEF TypeOK
  <2>8. ASSUME NEW n \in Tokens, TokenExpires(n)
        PROVE  TypeOK'
    BY <2>8 DEF TokenExpires, TypeOK
  <2>9. ASSUME (\E s \in Secrets : Configure(s)) \/ ReSeal \/ RevokeCertificate
        PROVE  TypeOK'
    <3>1. connection' \in Connections
      <4>1. \A n \in Stamps : n <= MaxChanges => n + 1 \in Stamps
        BY DEF Stamps
      <4>2. connection.updatedAt \in Stamps
        BY DEF TypeOK, Connections
      <4>3. connection.updatedAt <= MaxChanges => connection.updatedAt + 1 \in Stamps
        BY <4>1, <4>2
      <4>4. CASE \E s \in Secrets : Configure(s)
        BY <4>3, <4>4 DEF Configure, Connections
      <4>5. CASE ReSeal
        BY <4>3, <4>5 DEF ReSeal, TypeOK, Connections
      <4>6. CASE RevokeCertificate
        BY <4>6 DEF RevokeCertificate, TypeOK, Connections
      <4>. QED
        BY <2>9, <4>4, <4>5, <4>6
    <3>. QED
      BY <2>9, <3>1 DEF Configure, ReSeal, RevokeCertificate, TypeOK
  <2>10. CASE UNCHANGED vars
    BY <2>10 DEF vars, TypeOK
  <2>. QED
    BY <2>1, <2>2, <2>3, <2>4, <2>6, <2>7, <2>8, <2>9, <2>10
       DEF Next, Proceed, Answers, Answered, Unavailable, Rejected, RefusedAgain, RecordUse
<1>. QED
  BY <1>1, <1>2, PTL DEF Spec

(***************************************************************************)
(* Two reads, or two authentications, of one version of the row are of the *)
(* same secret: a step keeps what is known, or stamps one new version.     *)
(***************************************************************************)
LEMMA StampsNameSecrets == Spec => []StampInv
<1>. USE TokensAssumption
<1>1. Init => StampInv
  BY DEF Init, StampInv, Known, Read, Used
<1>2. TypeOK /\ StampInv /\ [Next]_vars => StampInv'
  <2>. SUFFICES ASSUME TypeOK, StampInv, [Next]_vars
                PROVE  StampInv'
    OBVIOUS
  <2>. USE DEF gatewayVars, callVars
  <2>1. \A a \in Known : a.stamp \in Int
    BY DEF TypeOK, Connections, Known, Read, Used, Stamps
  <2>2. ASSUME UNCHANGED connection, Known' \subseteq Known
        PROVE  StampInv'
    BY <2>2 DEF StampInv
  <2>3. ASSUME NEW s, Known' \subseteq Known \union {[stamp |-> connection.updatedAt + 1, secret |-> s]},
               connection'.updatedAt = connection.updatedAt + 1
        PROVE  StampInv'
    <3>1. connection.updatedAt \in Int
      BY DEF TypeOK, Connections, Stamps
    <3>. QED
      BY <2>1, <2>3, <3>1 DEF StampInv
  <2>4. ASSUME UNCHANGED <<connection, material>>,
               \A n \in Tokens : UNCHANGED <<authentication[n].key, authentication[n].secret>>
        PROVE  StampInv'
    <3>1. Used' = Used
      BY <2>4 DEF Used
    <3>. QED
      BY <2>2, <2>4, <3>1 DEF Known, Read
  <2>5. ASSUME NEW c \in Calls, GetMaterialForUse(c)
        PROVE  StampInv'
    <3>1. \A d \in Calls : material'[d] = material[d] \/ material'[d] = connection
      BY <2>5 DEF GetMaterialForUse, TypeOK
    <3>2. Used' = Used /\ connection' = connection
      BY <2>5 DEF GetMaterialForUse, Used
    <3>3. Read' \subseteq Known
      BY <3>1 DEF Read, Known
    <3>. QED
      BY <2>2, <3>2, <3>3 DEF Known
  <2>6. ASSUME NEW c \in Calls, NEW force \in BOOLEAN, NEW cached,
               GetTokens(c, force, cached), UNCHANGED <<connection, material>>
        PROVE  StampInv'
    <3>1. \A n \in Tokens : \/ authentication'[n] = authentication[n]
                            \/ /\ authentication'[n].key = material[c].updatedAt
                               /\ authentication'[n].secret = material[c].secret
      <4>1. UNCHANGED authentication \/ Authenticates(c, issued + 1)
        BY <2>6, TokensObtained DEF Presents, WaitsFor
      <4>. QED
        BY <4>1 DEF Authenticates, CacheKey, TypeOK
    <3>2. Used' \subseteq Known
      BY <3>1 DEF Used, Known, Read
    <3>3. Read' = Read
      BY <2>6 DEF Read
    <3>. QED
      BY <2>2, <2>6, <3>2, <3>3 DEF Known
  <2>7. ASSUME NEW c \in Calls, FirstTokens(c) \/ Refused(c)
        PROVE  StampInv'
    BY <2>6, <2>7 DEF FirstTokens, Refused, Renew
  <2>8. ASSUME NEW c \in Calls, NEW outcome, End(c, outcome)
        PROVE  StampInv'
    BY <2>4, <2>8 DEF End
  <2>9. ASSUME NEW n \in Tokens, AuthenticationSucceeds(n) \/ AuthenticationFails(n) \/ TokenExpires(n)
        PROVE  StampInv'
    <3>1. UNCHANGED <<connection, material>>
      BY <2>9 DEF AuthenticationSucceeds, AuthenticationFails, AuthenticationEnds, TokenExpires
    <3>2. \E state : authentication' = [authentication EXCEPT ![n].state = state]
      BY <2>9 DEF AuthenticationSucceeds, AuthenticationFails, AuthenticationEnds, TokenExpires
    <3>3. \A m \in Tokens : UNCHANGED <<authentication[m].key, authentication[m].secret>>
      BY <3>2 DEF TypeOK
    <3>. QED
      BY <2>4, <3>1, <3>3
  <2>10. ASSUME NEW s \in Secrets, Configure(s)
         PROVE  StampInv'
    <3>1. Known' \subseteq Known \union {[stamp |-> connection.updatedAt + 1, secret |-> s]}
      BY <2>10 DEF Configure, Known, Read, Used
    <3>. QED
      BY <2>3, <2>10, <3>1 DEF Configure
  <2>11. ASSUME ReSeal
         PROVE  StampInv'
    <3>1. connection' = [connection EXCEPT !.updatedAt = @ + 1]
      BY <2>11 DEF ReSeal
    <3>2. connection'.updatedAt = connection.updatedAt + 1 /\ connection'.secret = connection.secret
      BY <3>1 DEF TypeOK, Connections
    <3>3. Read' = Read /\ Used' = Used
      BY <2>11 DEF ReSeal, Read, Used
    <3>. QED
      BY <2>3, <3>2, <3>3 DEF Known
  <2>12. CASE RevokeCertificate
    <3>1. connection'.updatedAt = connection.updatedAt /\ connection'.secret = connection.secret
      BY <2>12 DEF RevokeCertificate, TypeOK, Connections
    <3>2. Read' = Read /\ Used' = Used
      BY <2>12 DEF RevokeCertificate, Read, Used
    <3>. QED
      BY <3>1, <3>2 DEF StampInv, Known
  <2>13. CASE UNCHANGED vars
    BY <2>4, <2>13 DEF vars
  <2>. QED
    BY <2>5, <2>7, <2>8, <2>9, <2>10, <2>11, <2>12, <2>13
       DEF Next, Proceed, Answers, Answered, Unavailable, Rejected, RefusedAgain, RecordUse
<1>. QED
  BY <1>1, <1>2, TokensTypeCorrect, PTL DEF Spec

(***************************************************************************)
(* Where tokens are.  The four need each other: a renewal is newer because *)
(* the token in flight is its key's latest, and not the refused one, since *)
(* the one runs and the other has been issued.                             *)
(***************************************************************************)
TokenInv == CacheInv /\ InFlightIsRunning /\ HoldInv /\ RenewalIsNewer

(***************************************************************************)
(* getTokens keeps it, on the first use of a token and after a 401.        *)
(***************************************************************************)
LEMMA ObtainedTokens ==
  ASSUME NEW c \in Calls, NEW force \in BOOLEAN, NEW cached, NEW refused,
         TypeOK, TokenInv, GetTokens(c, force, cached),
         UNCHANGED material,
         pc[c] \in {"ready", "sending"},
         cached \in {0, tokenCache[CacheKey(c)]},
         \/ tokenCache' = tokenCache
         \/ tokenCache' = [tokenCache EXCEPT ![CacheKey(c)] = 0],
         refusedToken' = [refusedToken EXCEPT ![c] = refused],
         refused = 0 \/ (force /\ refused = token[c] /\ pc[c] = "sending")
  PROVE  TokenInv'
<1>. DEFINE k == CacheKey(c)
<1>. USE TokensAssumption DEF Tokens
<1>0. k \in Stamps /\ \A d \in Calls : UNCHANGED CacheKey(d)
  BY KeyTyping DEF CacheKey
<1>1. \A d \in Calls : d # c => UNCHANGED <<pc[d], token[d], refusedToken[d]>>
  <2>1. \E n, step : token' = [token EXCEPT ![c] = n] /\ pc' = [pc EXCEPT ![c] = step]
    <3>1. CASE Presents(c, cached)
      BY <3>1 DEF Presents
    <3>2. CASE WaitsFor(c, inFlight[k])
      BY <3>2 DEF WaitsFor
    <3>3. CASE Authenticates(c, issued + 1)
      BY <3>3 DEF Authenticates
    <3>. QED
      BY <3>1, <3>2, <3>3, TokensObtained
  <2>. QED
    BY <2>1 DEF TypeOK
<1>2. refusedToken'[c] = refused
  BY DEF TypeOK
<1>3. \A j \in Stamps : tokenCache'[j] \in {0, tokenCache[j]}
  BY <1>0 DEF TypeOK
<1>4. CASE ~force /\ Presents(c, cached)
  <2>1. cached # 0 /\ cached \in Tokens /\ authentication[cached].key = k /\ authentication[cached].state = "valid"
    BY <1>0, <1>4 DEF Presents, Fresh, TokenInv, CacheInv, TypeOK
  <2>2. pc'[c] = "sending" /\ token'[c] = cached
    BY <1>4 DEF Presents, TypeOK
  <2>3. CacheInv'
    BY <1>3, <1>4 DEF Presents, TokenInv, CacheInv
  <2>4. InFlightIsRunning'
    BY <1>1, <1>4, <2>2 DEF Presents, TokenInv, InFlightIsRunning
  <2>5. HoldInv'
    BY <1>0, <1>1, <1>4, <2>1, <2>2 DEF Presents, TokenInv, HoldInv
  <2>6. RenewalIsNewer'
    BY <1>1, <1>2, <1>4 DEF TokenInv, RenewalIsNewer
  <2>. QED
    BY <2>3, <2>4, <2>5, <2>6 DEF TokenInv
<1>5. CASE WaitsFor(c, inFlight[k])
  <2>1. inFlight[k] # 0 /\ inFlight[k] \in Tokens /\ authentication[inFlight[k]].key = k
        /\ authentication[inFlight[k]].state = "running"
    BY <1>0, <1>5 DEF WaitsFor, TokenInv, CacheInv, InFlightIsRunning, TypeOK
  <2>2. pc'[c] = "waiting" /\ token'[c] = inFlight[k]
    BY <1>5 DEF WaitsFor, TypeOK
  <2>3. CacheInv'
    BY <1>3, <1>5 DEF WaitsFor, TokenInv, CacheInv
  <2>4. InFlightIsRunning'
    BY <1>1, <1>5, <2>1, <2>2 DEF WaitsFor, TokenInv, InFlightIsRunning
  <2>5. HoldInv'
    BY <1>0, <1>1, <1>5, <2>1, <2>2 DEF WaitsFor, TokenInv, HoldInv
  <2>6. refused # 0 => inFlight[k] > refused
    <3>. SUFFICES ASSUME refused # 0
                  PROVE  inFlight[k] > refused
      OBVIOUS
    <3>1. refused \in Tokens /\ authentication[refused].key = k /\ authentication[refused].state \in {"valid", "expired"}
      BY DEF TokenInv, HoldInv, TypeOK
    <3>2. refused \in 1 .. issued
      BY <3>1 DEF TokenInv, CacheInv, TypeOK
    <3>3. refused <= inFlight[k] /\ refused # inFlight[k]
      BY <1>0, <2>1, <3>1, <3>2 DEF TokenInv, CacheInv
    <3>. QED
      BY <2>1, <3>1, <3>3
  <2>7. RenewalIsNewer'
    BY <1>1, <1>2, <2>2, <2>6 DEF TokenInv, RenewalIsNewer
  <2>. QED
    BY <2>3, <2>4, <2>5, <2>7 DEF TokenInv
<1>6. CASE Authenticates(c, issued + 1)
  <2>. DEFINE n == issued + 1
  <2>1. n \in Tokens /\ n # 0 /\ authentication[n].state = "none" /\ inFlight[k] = 0
    BY <1>6 DEF Authenticates, TokenInv, CacheInv, TypeOK
  <2>2. pc'[c] = "waiting" /\ token'[c] = n /\ issued' = n
    BY <1>6 DEF Authenticates, TypeOK
  <2>3. /\ inFlight'[k] = n
        /\ \A j \in Stamps : j # k => inFlight'[j] = inFlight[j]
    BY <1>0, <1>6 DEF Authenticates, TypeOK
  <2>4. /\ authentication'[n].state = "running" /\ authentication'[n].key = k
        /\ \A m \in Tokens : m # n => authentication'[m] = authentication[m]
    BY <1>6, <2>1 DEF Authenticates, TypeOK
  <2>5. CacheInv'
    <3>1. \A m \in Tokens : authentication'[m].state = "none" <=> m > issued'
      <4>1. issued \in Nat /\ issued' = issued + 1
        BY <2>2 DEF TypeOK
      <4>2. \A m \in Tokens : m # n => (authentication'[m].state = "none" <=> m > issued)
        BY <2>4 DEF TokenInv, CacheInv
      <4>3. \A m \in Tokens : m # n => (m > issued <=> m > issued')
        BY <4>1
      <4>4. authentication'[n].state # "none" /\ ~(n > issued')
        BY <2>4, <4>1
      <4>. QED
        BY <4>2, <4>3, <4>4
    <3>2. \A j \in Stamps : tokenCache'[j] # 0 =>
            /\ authentication'[tokenCache'[j]].key = j
            /\ authentication'[tokenCache'[j]].state \in {"valid", "expired"}
      <4>1. \A j \in Stamps : tokenCache[j] # 0 => tokenCache[j] \in Tokens /\ tokenCache[j] # n
        BY <2>1 DEF TokenInv, CacheInv, TypeOK
      <4>. QED
        BY <1>3, <2>4, <4>1 DEF TokenInv, CacheInv
    <3>3. \A j \in Stamps : inFlight'[j] # 0 =>
            /\ authentication'[inFlight'[j]].key = j
            /\ \A m \in 1 .. issued' : authentication'[m].key = j => m <= inFlight'[j]
      <4>. SUFFICES ASSUME NEW j \in Stamps, inFlight'[j] # 0
                    PROVE  /\ authentication'[inFlight'[j]].key = j
                           /\ \A m \in 1 .. issued' : authentication'[m].key = j => m <= inFlight'[j]
        OBVIOUS
      <4>1. CASE j = k
        BY <2>2, <2>3, <2>4, <4>1 DEF TypeOK
      <4>2. CASE j # k
        <5>1. inFlight'[j] = inFlight[j] /\ inFlight[j] \in Tokens /\ authentication[inFlight[j]].key = j
              /\ authentication[inFlight[j]].state = "running"
          BY <2>3, <4>2 DEF TokenInv, CacheInv, InFlightIsRunning, TypeOK
        <5>2. inFlight[j] # n
          BY <2>1, <5>1
        <5>3. \A m \in 1 .. issued' : authentication'[m].key = j =>
                m \in 1 .. issued /\ m \in Tokens /\ authentication'[m] = authentication[m]
          BY <2>1, <2>2, <2>4, <4>2 DEF TypeOK
        <5>. QED
          BY <2>4, <5>1, <5>2, <5>3 DEF TokenInv, CacheInv
      <4>. QED
        BY <4>1, <4>2
    <3>. QED
      BY <3>1, <3>2, <3>3 DEF CacheInv
  <2>6. InFlightIsRunning'
    <3>1. \A m \in Tokens : authentication'[m].state = "running" => inFlight'[authentication'[m].key] = m
      BY <1>0, <2>1, <2>3, <2>4 DEF TokenInv, InFlightIsRunning, TypeOK
    <3>2. \A j \in Stamps : inFlight'[j] # 0 => authentication'[inFlight'[j]].state = "running"
      <4>1. \A j \in Stamps : j # k /\ inFlight[j] # 0 =>
              inFlight[j] \in Tokens /\ inFlight[j] # n /\ authentication[inFlight[j]].state = "running"
        BY <2>1 DEF TokenInv, InFlightIsRunning, TypeOK
      <4>. QED
        BY <2>3, <2>4, <4>1
    <3>3. \A d \in Calls : pc'[d] = "waiting" => authentication'[token'[d]].state = "running"
      <4>. SUFFICES ASSUME NEW d \in Calls, pc'[d] = "waiting"
                    PROVE  authentication'[token'[d]].state = "running"
        OBVIOUS
      <4>1. CASE d = c
        BY <2>2, <2>4, <4>1
      <4>2. CASE d # c
        <5>1. token'[d] \in Tokens /\ authentication[token'[d]].state = "running"
          BY <1>1, <4>2 DEF TokenInv, InFlightIsRunning, HoldInv, TypeOK
        <5>. QED
          BY <2>1, <2>4, <5>1
      <4>. QED
        BY <4>1, <4>2
    <3>. QED
      BY <3>1, <3>2, <3>3 DEF InFlightIsRunning
  <2>7. HoldInv'
    <3>. SUFFICES ASSUME NEW d \in Calls, d # c
                  PROVE  /\ pc'[d] \in {"waiting", "sending"} =>
                              token'[d] # 0 /\ authentication'[token'[d]].key = CacheKey(d)'
                         /\ pc'[d] = "sending" => authentication'[token'[d]].state \in {"valid", "expired"}
                         /\ pc'[d] \in {"idle", "ready"} => refusedToken'[d] = 0
      BY <1>0, <2>1, <2>2, <2>4 DEF HoldInv
    <3>1. pc[d] \in {"waiting", "sending"} => token[d] \in Tokens /\ token[d] # n
      BY <2>1 DEF TokenInv, HoldInv, InFlightIsRunning, TypeOK
    <3>. QED
      BY <1>0, <1>1, <2>4, <3>1 DEF TokenInv, HoldInv
  <2>8. refused # 0 => n > refused
    <3>1. refused # 0 => refused \in Tokens /\ authentication[refused].state # "none"
      BY DEF TokenInv, HoldInv, TypeOK
    <3>. QED
      BY <3>1 DEF TokenInv, CacheInv, TypeOK
  <2>9. RenewalIsNewer'
    BY <1>1, <1>2, <2>2, <2>8 DEF TokenInv, RenewalIsNewer
  <2>. QED
    BY <2>5, <2>6, <2>7, <2>9 DEF TokenInv
<1>. QED
  BY <1>4, <1>5, <1>6, TokensObtained

(***************************************************************************)
(* The end of an authentication, for those who waited for it.              *)
(***************************************************************************)
LEMMA EndedTokens ==
  ASSUME NEW n \in Tokens, NEW state \in {"valid", "failed"},
         NEW outcome \in {"sending", "retriable", "final"},
         TypeOK, TokenInv, AuthenticationEnds(n, state, outcome),
         \/ /\ state = "valid" /\ outcome = "sending"
            /\ tokenCache' = [tokenCache EXCEPT ![authentication[n].key] = n]
            /\ UNCHANGED <<token, refusedToken>>
         \/ /\ state = "failed" /\ outcome # "sending"
            /\ UNCHANGED tokenCache
            /\ token' = [c \in Calls |-> IF c \in Waiting(n) THEN 0 ELSE token[c]]
            /\ refusedToken' = [c \in Calls |-> IF c \in Waiting(n) THEN 0 ELSE refusedToken[c]]
  PROVE  TokenInv'
<1>. DEFINE k == authentication[n].key
<1>. USE TokensAssumption DEF Tokens
<1>1. k \in Stamps /\ authentication[n].state = "running" /\ inFlight[k] = n
  BY DEF AuthenticationEnds, TokenInv, InFlightIsRunning, TypeOK
<1>2. /\ authentication'[n].state = state /\ authentication'[n].key = k
      /\ \A m \in Tokens : m # n => authentication'[m] = authentication[m]
  BY DEF AuthenticationEnds, TypeOK
<1>3. inFlight'[k] = 0 /\ \A j \in Stamps : j # k => inFlight'[j] = inFlight[j]
  BY <1>1 DEF AuthenticationEnds, NotInFlight, TypeOK
<1>4. UNCHANGED <<issued, material>> /\ \A c \in Calls : UNCHANGED CacheKey(c)
  BY DEF AuthenticationEnds, CacheKey
<1>5. \A c \in Calls : c \in Waiting(n) => pc[c] = "waiting" /\ token[c] = n /\ pc'[c] = outcome
  BY DEF AuthenticationEnds, Waiting
<1>6. \A c \in Calls : c \notin Waiting(n) =>
        UNCHANGED <<pc[c], token[c], refusedToken[c]>> /\ (pc[c] = "waiting" => token[c] # n)
  BY DEF AuthenticationEnds, Waiting
<1>7. \A c \in Calls : c \in Waiting(n) =>
        \/ state = "valid" /\ pc'[c] = "sending" /\ token'[c] = n /\ refusedToken'[c] = refusedToken[c]
        \/ state = "failed" /\ pc'[c] \in {"retriable", "final"}
  BY <1>5
<1>8. CacheInv'
  <2>1. \A m \in Tokens : authentication'[m].state = "none" <=> m > issued'
    BY <1>1, <1>2, <1>4 DEF TokenInv, CacheInv
  <2>2. \A j \in Stamps : tokenCache'[j] # 0 =>
          /\ authentication'[tokenCache'[j]].key = j
          /\ authentication'[tokenCache'[j]].state \in {"valid", "expired"}
    <3>1. \A j \in Stamps : tokenCache'[j] = tokenCache[j] \/ (tokenCache'[j] = n /\ j = k /\ state = "valid")
      <4>1. CASE tokenCache' = [tokenCache EXCEPT ![k] = n] /\ state = "valid"
        BY <1>1, <4>1 DEF TypeOK
      <4>2. CASE UNCHANGED tokenCache
        BY <4>2
      <4>. QED
        BY <4>1, <4>2
    <3>2. \A j \in Stamps : tokenCache[j] # 0 => tokenCache[j] \in Tokens /\ tokenCache[j] # n
      <4>1. \A j \in Stamps : tokenCache[j] # 0 => authentication[tokenCache[j]].state # "running"
        BY DEF TokenInv, CacheInv
      <4>2. \A j \in Stamps : tokenCache[j] \in Tokens \union {0}
        BY DEF TypeOK
      <4>. QED
        BY <1>1, <4>1, <4>2
    <3>. QED
      BY <1>2, <3>1, <3>2 DEF TokenInv, CacheInv
  <2>3. \A j \in Stamps : inFlight'[j] # 0 =>
          /\ authentication'[inFlight'[j]].key = j
          /\ \A m \in 1 .. issued' : authentication'[m].key = j => m <= inFlight'[j]
    <3>. SUFFICES ASSUME NEW j \in Stamps, inFlight'[j] # 0
                  PROVE  /\ authentication'[inFlight'[j]].key = j
                         /\ \A m \in 1 .. issued' : authentication'[m].key = j => m <= inFlight'[j]
      OBVIOUS
    <3>1. j # k /\ inFlight'[j] = inFlight[j] /\ inFlight[j] \in Tokens
      BY <1>3 DEF TypeOK
    <3>2. \A m \in 1 .. issued' : m \in 1 .. issued /\ m \in Tokens /\ authentication'[m].key = authentication[m].key
      <4>1. issued' = issued /\ issued \in Tokens \union {0}
        BY <1>4 DEF TypeOK
      <4>2. \A m \in 1 .. issued' : m \in 1 .. issued /\ m \in Tokens
        BY <4>1
      <4>. QED
        BY <1>2, <4>2
    <3>. QED
      BY <1>2, <3>1, <3>2 DEF TokenInv, CacheInv
  <2>. QED
    BY <2>1, <2>2, <2>3 DEF CacheInv
<1>9. InFlightIsRunning'
  <2>1. \A m \in Tokens : authentication'[m].state = "running" => inFlight'[authentication'[m].key] = m
    <3>1. \A m \in Tokens : authentication'[m].state = "running" =>
            m # n /\ authentication'[m] = authentication[m] /\ authentication[m].key \in Stamps
            /\ inFlight[authentication[m].key] = m
      BY <1>2 DEF TokenInv, InFlightIsRunning, TypeOK
    <3>2. \A m \in Tokens : authentication'[m].state = "running" => authentication[m].key # k
      BY <1>1, <3>1
    <3>. QED
      BY <1>3, <3>1, <3>2
  <2>2. \A j \in Stamps : inFlight'[j] # 0 => authentication'[inFlight'[j]].state = "running"
    <3>1. \A j \in Stamps : j # k /\ inFlight[j] # 0 =>
            inFlight[j] \in Tokens /\ inFlight[j] # n /\ authentication[inFlight[j]].state = "running"
      BY DEF TokenInv, CacheInv, InFlightIsRunning, TypeOK
    <3>. QED
      BY <1>2, <1>3, <3>1
  <2>3. \A c \in Calls : pc'[c] = "waiting" => authentication'[token'[c]].state = "running"
    <3>1. \A c \in Calls : pc'[c] = "waiting" =>
            pc[c] = "waiting" /\ token'[c] = token[c] /\ token[c] # n /\ token[c] \in Tokens
      BY <1>6, <1>7 DEF TokenInv, HoldInv, TypeOK
    <3>. QED
      BY <1>2, <3>1 DEF TokenInv, InFlightIsRunning
  <2>. QED
    BY <2>1, <2>2, <2>3 DEF InFlightIsRunning
<1>10. HoldInv'
  <2>. SUFFICES ASSUME NEW c \in Calls
                PROVE  /\ pc'[c] \in {"waiting", "sending"} =>
                            token'[c] # 0 /\ authentication'[token'[c]].key = CacheKey(c)'
                       /\ pc'[c] = "sending" => authentication'[token'[c]].state \in {"valid", "expired"}
                       /\ pc'[c] \in {"idle", "ready"} => refusedToken'[c] = 0
    BY DEF HoldInv
  <2>1. CASE c \in Waiting(n)
    <3>1. pc[c] = "waiting" /\ token[c] = n
      BY <1>5, <2>1
    <3>2. CacheKey(c)' = k /\ n # 0
      BY <1>4, <3>1 DEF TokenInv, HoldInv
    <3>. QED
      BY <1>2, <1>7, <2>1, <3>2
  <2>2. CASE c \notin Waiting(n)
    <3>1. pc[c] \in {"waiting", "sending"} => token[c] \in Tokens /\ token[c] # n
      BY <1>1, <1>6, <2>2 DEF TokenInv, HoldInv, TypeOK
    <3>. QED
      BY <1>2, <1>4, <1>6, <2>2, <3>1 DEF TokenInv, HoldInv
  <2>. QED
    BY <2>1, <2>2
<1>11. RenewalIsNewer'
  BY <1>5, <1>6, <1>7 DEF TokenInv, RenewalIsNewer
<1>. QED
  BY <1>8, <1>9, <1>10, <1>11 DEF TokenInv

LEMMA TokenInvariant == Spec => []TokenInv
<1>. USE TokensAssumption
<1>1. Init => TokenInv
  BY DEF Init, TokenInv, CacheInv, InFlightIsRunning, HoldInv, RenewalIsNewer, Tokens
<1>2. TypeOK /\ TokenInv /\ [Next]_vars => TokenInv'
  <2>. SUFFICES ASSUME TypeOK, TokenInv, [Next]_vars
                PROVE  TokenInv'
    OBVIOUS
  <2>. USE DEF gatewayVars, callVars, TokenInv
  <2>1. ASSUME NEW c \in Calls, GetMaterialForUse(c)
        PROVE  TokenInv'
    <3>1. \A d \in Calls : d # c => UNCHANGED <<pc[d], CacheKey(d)>>
      BY <2>1 DEF GetMaterialForUse, CacheKey, TypeOK
    <3>2. pc[c] = "idle" /\ pc'[c] \in {"ready", "final"}
      BY <2>1 DEF GetMaterialForUse, TypeOK
    <3>3. UNCHANGED <<gatewayVars, token, refusedToken, refusals>>
      BY <2>1 DEF GetMaterialForUse
    <3>. QED
      BY <3>1, <3>2, <3>3 DEF CacheInv, InFlightIsRunning, HoldInv, RenewalIsNewer
  <2>2. ASSUME NEW c \in Calls, FirstTokens(c)
        PROVE  TokenInv'
    <3>1. pc[c] = "ready" /\ refusedToken[c] = 0
      BY <2>2 DEF FirstTokens, HoldInv
    <3>2. refusedToken' = [refusedToken EXCEPT ![c] = 0]
      BY <2>2, <3>1 DEF FirstTokens, TypeOK
    <3>3. GetTokens(c, FALSE, tokenCache[CacheKey(c)]) /\ UNCHANGED <<tokenCache, material>>
      BY <2>2 DEF FirstTokens
    <3>. HIDE DEF TokenInv
    <3>. QED
      BY <3>1, <3>2, <3>3, ObtainedTokens
  <2>3. ASSUME NEW c \in Calls, Refused(c)
        PROVE  TokenInv'
    <3>1. /\ pc[c] = "sending"
          /\ refusedToken' = [refusedToken EXCEPT ![c] = token[c]]
          /\ tokenCache' = [tokenCache EXCEPT ![CacheKey(c)] = 0]
          /\ GetTokens(c, TRUE, 0)
          /\ UNCHANGED material
      BY <2>3 DEF Refused, Renew
    <3>. QED
      BY <3>1, ObtainedTokens
  <2>4. ASSUME NEW c \in Calls, NEW outcome \in {"recording", "completed", "retriable", "final"}, End(c, outcome)
        PROVE  TokenInv'
    <3>1. \A d \in Calls : d # c => UNCHANGED <<pc[d], token[d], refusedToken[d]>>
      BY <2>4 DEF End, TypeOK
    <3>2. pc'[c] = outcome /\ UNCHANGED <<gatewayVars, material>> /\ \A d \in Calls : UNCHANGED CacheKey(d)
      BY <2>4 DEF End, TypeOK, CacheKey
    <3>. QED
      BY <3>1, <3>2 DEF CacheInv, InFlightIsRunning, HoldInv, RenewalIsNewer
  <2>5. ASSUME NEW n \in Tokens, AuthenticationSucceeds(n)
        PROVE  TokenInv'
    BY <2>5, EndedTokens DEF AuthenticationSucceeds
  <2>6. ASSUME NEW n \in Tokens, AuthenticationFails(n)
        PROVE  TokenInv'
    <3>1. PICK outcome \in {"retriable", "final"} : AuthenticationEnds(n, "failed", outcome)
      BY <2>6 DEF AuthenticationFails
    <3>. QED
      BY <2>6, <3>1, EndedTokens DEF AuthenticationFails
  <2>7. ASSUME NEW n \in Tokens, TokenExpires(n)
        PROVE  TokenInv'
    <3>1. /\ authentication[n].state = "valid" /\ authentication'[n].state = "expired"
          /\ authentication'[n].key = authentication[n].key
          /\ \A m \in Tokens : m # n => authentication'[m] = authentication[m]
      BY <2>7 DEF TokenExpires, TypeOK
    <3>2. UNCHANGED <<tokenCache, inFlight, issued, callVars>> /\ \A d \in Calls : UNCHANGED CacheKey(d)
      BY <2>7 DEF TokenExpires, CacheKey
    <3>3. \A m \in 1 .. issued : m \in Tokens
      BY DEF TypeOK, Tokens
    <3>4. \A m \in Tokens : /\ authentication'[m].key = authentication[m].key
                            /\ authentication'[m].state = "none" <=> authentication[m].state = "none"
                            /\ authentication'[m].state = "running" <=> authentication[m].state = "running"
                            /\ authentication[m].state \in {"valid", "expired"} =>
                                 authentication'[m].state \in {"valid", "expired"}
      BY <3>1
    <3>5. CacheInv'
      BY <3>2, <3>3, <3>4 DEF CacheInv, TypeOK
    <3>6. InFlightIsRunning'
      BY <3>2, <3>4 DEF InFlightIsRunning, HoldInv, TypeOK
    <3>7. HoldInv'
      BY <3>2, <3>4 DEF HoldInv, TypeOK
    <3>8. RenewalIsNewer'
      BY <3>2 DEF RenewalIsNewer
    <3>. QED
      BY <3>5, <3>6, <3>7, <3>8
  <2>8. CASE (\E s \in Secrets : Configure(s)) \/ ReSeal \/ RevokeCertificate \/ UNCHANGED vars
    <3>1. UNCHANGED <<gatewayVars, callVars>> /\ \A d \in Calls : UNCHANGED CacheKey(d)
      BY <2>8 DEF Configure, ReSeal, RevokeCertificate, vars, CacheKey
    <3>. QED
      BY <3>1 DEF CacheInv, InFlightIsRunning, HoldInv, RenewalIsNewer
  <2>. QED
    BY <2>1, <2>2, <2>3, <2>4, <2>5, <2>6, <2>7, <2>8
       DEF Next, Proceed, Answers, Answered, Unavailable, Rejected, RefusedAgain, RecordUse
<1>. QED
  BY <1>1, <1>2, TokensTypeCorrect, PTL DEF Spec

(***************************************************************************)
(* The gateway's map of authentications in flight is exact, in every       *)
(* reachable state.                                                        *)
(***************************************************************************)
THEOREM InFlightExact == Spec => []InFlightIsRunning
<1>1. TokenInv => InFlightIsRunning
  BY DEF TokenInv
<1>. QED
  BY <1>1, TokenInvariant, PTL

(***************************************************************************)
(* A renewed call presents a token newer than the one it was refused.      *)
(***************************************************************************)
THEOREM RenewalsAreNewer == Spec => []RenewalIsNewer
<1>1. TokenInv => RenewalIsNewer
  BY DEF TokenInv
<1>. QED
  BY <1>1, TokenInvariant, PTL

(***************************************************************************)
(* A call presents only tokens of the credentials it has read: the token   *)
(* is of the call's key, and the key names the secret.                     *)
(***************************************************************************)
THEOREM TokensAreOfMaterial == Spec => []TokensMatchMaterial
<1>1. TypeOK /\ TokenInv /\ StampInv => TokensMatchMaterial
  <2>. SUFFICES ASSUME TypeOK, TokenInv, StampInv, NEW c \in Calls, pc[c] = "sending"
                PROVE  authentication[token[c]].secret = material[c].secret
    BY DEF TokensMatchMaterial
  <2>1. token[c] \in Tokens /\ authentication[token[c]].key = material[c].updatedAt
    BY DEF TokenInv, HoldInv, CacheKey, TypeOK
  <2>2. [stamp |-> authentication[token[c]].key, secret |-> authentication[token[c]].secret] \in Known
    BY <2>1 DEF Known, Used
  <2>3. [stamp |-> material[c].updatedAt, secret |-> material[c].secret] \in Known
    BY DEF Known, Read
  <2>. QED
    BY <2>1, <2>2, <2>3 DEF StampInv
<1>. QED
  BY <1>1, TokensTypeCorrect, TokenInvariant, StampsNameSecrets, PTL

------------------------------------------------------------------------------
(* Authentications are not wasted *)

LEMMA LiveFinite ==
  ASSUME TypeOK, NEW k \in Stamps
  PROVE  /\ Live(k) \subseteq Tokens
         /\ IsFiniteSet(Live(k))
         /\ Cardinality(Live(k)) \in Nat
         /\ InUse(k) \in {0, 1}
         /\ refusals[k] \in Nat
<1>1. issued \in Nat /\ Live(k) \subseteq 1 .. issued /\ 1 .. issued \subseteq Tokens
  BY TokensAssumption DEF TypeOK, Live, Tokens
<1>2. IsFiniteSet(1 .. issued)
  BY <1>1, FS_Interval
<1>3. IsFiniteSet(Live(k))
  BY <1>1, <1>2, FS_Subset
<1>. QED
  BY <1>1, <1>3, FS_CardinalityType DEF InUse, TypeOK

Room(k) == refusals[k] + InUse(k)

(***************************************************************************)
(* One key at a time: a step that keeps its live authentications keeps the *)
(* bound if it uses none of them up, a new one is owed to a refusal or     *)
(* takes a free place, and one that ends leaves at most its own.           *)
(***************************************************************************)
LEMMA LiveStep ==
  ASSUME TypeOK, TypeOK', LiveInv, NEW k \in Stamps,
         \/ Live(k)' = Live(k) /\ Room(k)' >= Room(k)
         \/ \E n \in Tokens : Live(k)' = Live(k) \union {n} /\ Room(k)' >= Room(k) + 1
         \/ \E n \in Live(k) : Live(k)' = Live(k) \ {n} /\ Room(k)' >= Room(k) - 1
  PROVE  Cardinality(Live(k)') <= Room(k)'
<1>1. /\ IsFiniteSet(Live(k)) /\ Cardinality(Live(k)) \in Nat
      /\ Room(k) \in Int /\ Cardinality(Live(k)) <= Room(k)
  BY LiveFinite DEF LiveInv, Room
<1>2. InUse(k)' \in {0, 1} /\ refusals'[k] \in Nat
  BY DEF InUse, TypeOK
<1>3. Room(k)' \in Int
  BY <1>2 DEF Room
<1>4. CASE Live(k)' = Live(k) /\ Room(k)' >= Room(k)
  BY <1>1, <1>3, <1>4
<1>5. ASSUME NEW n \in Tokens, Live(k)' = Live(k) \union {n}, Room(k)' >= Room(k) + 1
      PROVE  Cardinality(Live(k)') <= Room(k)'
  <2>1. Cardinality(Live(k) \union {n}) \in {Cardinality(Live(k)), Cardinality(Live(k)) + 1}
    BY <1>1, FS_AddElement
  <2>. QED
    BY <1>1, <1>3, <1>5, <2>1
<1>6. ASSUME NEW n \in Live(k), Live(k)' = Live(k) \ {n}, Room(k)' >= Room(k) - 1
      PROVE  Cardinality(Live(k)') <= Room(k)'
  <2>1. Cardinality(Live(k) \ {n}) = Cardinality(Live(k)) - 1
    BY <1>1, FS_RemoveElement
  <2>. QED
    BY <1>1, <1>3, <1>6, <2>1
<1>. QED
  BY <1>4, <1>5, <1>6

LEMMA LiveInvariant == Spec => []LiveInv
<1>. USE TokensAssumption
<1>1. Init => LiveInv
  <2>. SUFFICES ASSUME Init, NEW k \in Stamps
                PROVE  Cardinality(Live(k)) <= refusals[k] + InUse(k)
    BY DEF LiveInv
  <2>1. Live(k) = {}
    BY DEF Init, Live
  <2>2. Cardinality(Live(k)) = 0
    BY <2>1, FS_EmptySet
  <2>. QED
    BY <2>2 DEF Init, InUse
<1>2. TypeOK /\ TypeOK' /\ TokenInv /\ LiveInv /\ [Next]_vars => LiveInv'
  <2>. SUFFICES ASSUME TypeOK, TypeOK', TokenInv, LiveInv, [Next]_vars
                PROVE  LiveInv'
    OBVIOUS
  <2>. USE DEF gatewayVars, callVars
  <2>1. \A k \in Stamps : /\ InUse(k) \in {0, 1} /\ refusals[k] \in Nat
                          /\ InUse(k)' \in {0, 1} /\ refusals'[k] \in Nat
    BY DEF InUse, TypeOK
  <2>2. ASSUME UNCHANGED <<authentication, issued>>,
               \A k \in Stamps : refusals'[k] + InUse(k)' >= refusals[k] + InUse(k)
        PROVE  LiveInv'
    <3>1. \A k \in Stamps : Live(k)' = Live(k)
      BY <2>2 DEF Live
    <3>. QED
      BY <2>2, <3>1, LiveStep DEF LiveInv, Room
  <2>3. ASSUME UNCHANGED <<gatewayVars, refusals>>
        PROVE  LiveInv'
    BY <2>3 DEF LiveInv, Live, InUse, Fresh
  <2>4. ASSUME NEW c \in Calls, Authenticates(c, issued + 1),
               \A j \in Stamps : j # CacheKey(c) => UNCHANGED <<tokenCache[j], refusals[j]>>,
               \/ refusals'[CacheKey(c)] >= refusals[CacheKey(c)] + 1
               \/ refusals'[CacheKey(c)] = refusals[CacheKey(c)] /\ InUse(CacheKey(c)) = 0
        PROVE  LiveInv'
    <3>0. PICK k \in Stamps, n \in Tokens : k = CacheKey(c) /\ n = issued + 1
      BY <2>4, KeyTyping DEF Authenticates
    <3>1. issued \in Nat /\ issued' = n /\ n # 0
      BY <2>4, <3>0 DEF Authenticates, TypeOK, Tokens
    <3>2. /\ authentication'[n].state = "running" /\ authentication'[n].key = k
          /\ \A m \in Tokens : m # n => authentication'[m] = authentication[m]
          /\ inFlight'[k] = n /\ \A j \in Stamps : j # k => inFlight'[j] = inFlight[j]
      BY <2>4, <3>0 DEF Authenticates, TypeOK
    <3>3. \A m : m \in 1 .. issued' <=> (m \in 1 .. issued \/ m = n)
      BY <3>0, <3>1
    <3>4. \A m \in 1 .. issued : m \in Tokens /\ m # n
      BY <3>0, <3>1 DEF Tokens
    <3>5. Live(k)' = Live(k) \union {n}
      BY <3>2, <3>3, <3>4 DEF Live
    <3>6. InUse(k)' = 1
      BY <3>1, <3>2 DEF InUse
    <3>7. Cardinality(Live(k)') <= refusals'[k] + InUse(k)'
      <4>1. refusals'[k] + InUse(k)' >= refusals[k] + InUse(k) + 1
        BY <2>1, <2>4, <3>0, <3>6
      <4>. QED
        BY <3>5, <4>1, LiveStep DEF Room
    <3>8. ASSUME NEW j \in Stamps, j # k
          PROVE  Cardinality(Live(j)') <= refusals'[j] + InUse(j)'
      <4>1. Live(j)' = Live(j)
        BY <3>2, <3>3, <3>4, <3>8 DEF Live
      <4>2. tokenCache'[j] = tokenCache[j] /\ refusals'[j] = refusals[j]
        BY <2>4, <3>0, <3>8
      <4>3. tokenCache[j] # 0 => tokenCache[j] \in Tokens /\ tokenCache[j] # n
        <5>1. authentication[n].state = "none"
          BY <3>0, <3>1 DEF TokenInv, CacheInv
        <5>. QED
          BY <5>1 DEF TokenInv, CacheInv, TypeOK
      <4>4. InUse(j)' = InUse(j)
        BY <3>2, <3>8, <4>2, <4>3 DEF InUse, Fresh
      <4>. QED
        BY <2>1, <4>1, <4>2, <4>4, LiveStep DEF Room
    <3>. QED
      BY <3>7, <3>8 DEF LiveInv
  <2>5. ASSUME NEW c \in Calls, FirstTokens(c)
        PROVE  LiveInv'
    <3>1. GetTokens(c, FALSE, tokenCache[CacheKey(c)]) /\ UNCHANGED <<tokenCache, refusals>>
      BY <2>5 DEF FirstTokens
    <3>2. CASE UNCHANGED <<inFlight, authentication, issued>>
      BY <2>3, <3>1, <3>2
    <3>3. CASE ~Fresh(tokenCache[CacheKey(c)]) /\ Authenticates(c, issued + 1)
      <4>1. InUse(CacheKey(c)) = 0
        BY <3>3 DEF InUse, Authenticates
      <4>. QED
        BY <2>4, <3>1, <3>3, <4>1
    <3>. QED
      BY <3>1, <3>2, <3>3, TokensObtained DEF Presents, WaitsFor
  <2>6. ASSUME NEW c \in Calls, Refused(c)
        PROVE  LiveInv'
    <3>1. GetTokens(c, TRUE, 0) /\ CacheKey(c) \in Stamps
      BY <2>6, KeyTyping DEF Refused, Renew
    <3>2. /\ refusals'[CacheKey(c)] = refusals[CacheKey(c)] + 1
          /\ \A j \in Stamps : j # CacheKey(c) => UNCHANGED <<tokenCache[j], refusals[j]>>
      BY <2>6, <3>1 DEF Refused, Renew, TypeOK
    <3>3. CASE WaitsFor(c, inFlight[CacheKey(c)])
      <4>1. \A j \in Stamps : refusals'[j] + InUse(j)' >= refusals[j] + InUse(j)
        <5>1. \A j \in Stamps : j # CacheKey(c) => refusals'[j] = refusals[j] /\ InUse(j)' = InUse(j)
          BY <3>2, <3>3 DEF WaitsFor, InUse, Fresh
        <5>. QED
          BY <2>1, <3>2, <5>1
      <4>. QED
        BY <2>2, <3>3, <4>1 DEF WaitsFor
    <3>4. CASE Authenticates(c, issued + 1)
      <4>1. refusals'[CacheKey(c)] >= refusals[CacheKey(c)] + 1
        BY <2>1, <3>1, <3>2
      <4>. QED
        BY <2>4, <3>2, <3>4, <4>1
    <3>. QED
      BY <3>1, <3>3, <3>4, TokensObtained
  <2>7. ASSUME NEW n \in Tokens, NEW state \in {"valid", "failed", "expired"},
               authentication[n].state \in {"running", "valid"},
               authentication' = [authentication EXCEPT ![n].state = state],
               \A j \in Stamps : j # authentication[n].key => UNCHANGED <<inFlight[j], tokenCache[j]>>,
               state = "valid" => tokenCache'[authentication[n].key] = n,
               UNCHANGED <<issued, refusals>>
        PROVE  LiveInv'
    <3>0. PICK k \in Stamps : k = authentication[n].key
      BY DEF TypeOK
    <3>1. /\ authentication'[n].state = state /\ authentication'[n].key = k
          /\ \A m \in Tokens : m # n => authentication'[m] = authentication[m]
      BY <2>7, <3>0 DEF TypeOK
    <3>2. n \in 1 .. issued /\ n # 0 /\ \A m \in 1 .. issued : m \in Tokens
      BY <2>7 DEF TokenInv, CacheInv, TypeOK, Tokens
    <3>3. n \in Live(k)
      BY <2>7, <3>0, <3>2 DEF Live
    <3>4. \A j \in Stamps : j # k => Live(j)' = Live(j)
      BY <2>7, <3>0, <3>1, <3>2 DEF Live
    <3>5. \A j \in Stamps : j # k => InUse(j)' = InUse(j)
      <4>1. \A j \in Stamps : j # k /\ tokenCache[j] # 0 => tokenCache[j] \in Tokens /\ tokenCache[j] # n
        BY <3>0 DEF TokenInv, CacheInv, TypeOK
      <4>. QED
        BY <2>7, <3>0, <3>1, <4>1 DEF InUse, Fresh
    <3>6. \A j \in Stamps : j # k => Cardinality(Live(j)') <= refusals'[j] + InUse(j)'
      BY <2>1, <2>7, <3>4, <3>5, LiveStep DEF Room
    <3>7. CASE state = "valid"
      <4>1. Live(k)' = Live(k)
        BY <2>7, <3>0, <3>1, <3>2, <3>7 DEF Live
      <4>2. InUse(k)' = 1
        BY <2>7, <3>0, <3>1, <3>2, <3>7 DEF InUse, Fresh
      <4>3. refusals'[k] + InUse(k)' >= refusals[k] + InUse(k)
        BY <2>1, <2>7, <4>2
      <4>. QED
        BY <3>3, <3>6, <4>1, <4>3, LiveStep DEF LiveInv, Room
    <3>8. CASE state # "valid"
      <4>1. Live(k)' = Live(k) \ {n}
        BY <2>7, <3>0, <3>1, <3>2, <3>8 DEF Live
      <4>2. refusals'[k] + InUse(k)' >= refusals[k] + InUse(k) - 1
        BY <2>1, <2>7
      <4>. QED
        <5>1. Room(k)' >= Room(k) - 1
          BY <2>1, <4>2 DEF Room
        <5>2. Cardinality(Live(k)') <= Room(k)'
          BY <3>3, <4>1, <5>1, LiveStep
        <5>. QED
          BY <3>6, <5>2 DEF LiveInv, Room
    <3>. QED
      BY <3>7, <3>8
  <2>8. ASSUME NEW n \in Tokens, AuthenticationSucceeds(n)
        PROVE  LiveInv'
    BY <2>7, <2>8 DEF AuthenticationSucceeds, AuthenticationEnds, NotInFlight, TypeOK
  <2>9. ASSUME NEW n \in Tokens, AuthenticationFails(n)
        PROVE  LiveInv'
    BY <2>7, <2>9 DEF AuthenticationFails, AuthenticationEnds, NotInFlight, TypeOK
  <2>10. ASSUME NEW n \in Tokens, TokenExpires(n)
         PROVE  LiveInv'
    BY <2>7, <2>10 DEF TokenExpires
  <2>11. ASSUME NEW c \in Calls, NEW outcome, GetMaterialForUse(c) \/ End(c, outcome)
         PROVE  LiveInv'
    BY <2>3, <2>11 DEF GetMaterialForUse, End
  <2>12. CASE (\E s \in Secrets : Configure(s)) \/ ReSeal \/ RevokeCertificate \/ UNCHANGED vars
    BY <2>3, <2>12 DEF Configure, ReSeal, RevokeCertificate, vars
  <2>. QED
    BY <2>5, <2>6, <2>8, <2>9, <2>10, <2>11, <2>12
       DEF Next, Proceed, Answers, Answered, Unavailable, Rejected, RefusedAgain, RecordUse
<1>. QED
  BY <1>1, <1>2, TokensTypeCorrect, TokenInvariant, PTL DEF Spec

(***************************************************************************)
(* Per key there is one authentication to begin with, and each further one *)
(* is owed to a refusal, an expiry or a failure.                           *)
(***************************************************************************)
THEOREM AuthenticationsOwed == Spec => []AuthenticationsAccounted
<1>1. TypeOK /\ TokenInv /\ LiveInv => AuthenticationsAccounted
  <2>. SUFFICES ASSUME TypeOK, TokenInv, LiveInv, NEW k \in Stamps
                PROVE  LET ofKey == {n \in 1 .. issued : authentication[n].key = k}
                           spent == {n \in ofKey : authentication[n].state \in {"expired", "failed"}}
                       IN  Cardinality(ofKey) <= 1 + refusals[k] + Cardinality(spent)
    BY DEF AuthenticationsAccounted
  <2>. DEFINE ofKey == {n \in 1 .. issued : authentication[n].key = k}
              spent == {n \in ofKey : authentication[n].state \in {"expired", "failed"}}
  <2>1. issued \in Nat /\ 1 .. issued \subseteq Tokens
    BY TokensAssumption DEF TypeOK, Tokens
  <2>2. IsFiniteSet(1 .. issued)
    BY <2>1, FS_Interval
  <2>3. IsFiniteSet(spent) /\ Cardinality(spent) \in Nat
    <3>1. spent \subseteq 1 .. issued
      OBVIOUS
    <3>. QED
      BY <2>2, <3>1, FS_Subset, FS_CardinalityType
  <2>4. \A n \in 1 .. issued : authentication[n].state \in {"running", "valid", "expired", "failed"}
    BY <2>1 DEF TokenInv, CacheInv, TypeOK
  <2>5. ofKey = Live(k) \union spent
    BY <2>4 DEF Live
  <2>6. Cardinality(ofKey) <= Cardinality(Live(k)) + Cardinality(spent)
    <3>1. IsFiniteSet(Live(k)) /\ Cardinality(Live(k)) \in Nat
      BY LiveFinite
    <3>2. Live(k) \intersect spent = {}
      BY DEF Live
    <3>3. Cardinality(Live(k) \union spent) =
            Cardinality(Live(k)) + Cardinality(spent) - Cardinality(Live(k) \intersect spent)
      <4>. HIDE DEF spent
      <4>. QED
        BY <2>3, <3>1, FS_Union
    <3>4. Cardinality(Live(k) \intersect spent) = 0
      BY <3>2, FS_EmptySet
    <3>. HIDE DEF ofKey, spent
    <3>. QED
      BY <2>3, <2>5, <3>1, <3>3, <3>4
  <2>7. Cardinality(Live(k)) <= refusals[k] + 1
    BY LiveFinite DEF LiveInv
  <2>8. Cardinality(Live(k)) \in Nat /\ refusals[k] \in Nat
    BY LiveFinite
  <2>9. Cardinality(ofKey) \in Nat
    <3>1. ofKey \subseteq 1 .. issued
      OBVIOUS
    <3>. QED
      BY <2>2, <3>1, FS_Subset, FS_CardinalityType
  <2>. HIDE DEF ofKey, spent
  <2>10. Cardinality(ofKey) <= 1 + refusals[k] + Cardinality(spent)
    BY <2>3, <2>6, <2>7, <2>8, <2>9
  <2>. QED
    BY <2>10 DEF ofKey, spent
<1>. QED
  BY <1>1, TokensTypeCorrect, TokenInvariant, LiveInvariant, PTL
================================================================================
