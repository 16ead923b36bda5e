----------------------------- MODULE SerproTokens -----------------------------
(***************************************************************************)
(* Calls to SERPRO through the gateway of one process: the connection's    *)
(* material is read once per call; the tokens come from a cache, from an   *)
(* authentication in flight, or from a new one; a call answered with 401   *)
(* renews them once.                                                       *)
(*                                                                         *)
(* The process runs one piece of code at a time, so everything between two *)
(* awaits is one step.  Between them, other calls run, and users and other *)
(* processes change the connection.  Authentication n issues token n.      *)
(***************************************************************************)
EXTENDS Integers, FiniteSets

CONSTANTS
  Calls,       \* queries of the process
  Secrets,     \* credentials a connection may be configured with
  MaxChanges,  \* bound of the model on changes of the connection
  MaxTokens    \* bound of the model on authentications; as a call asks
               \* for at most two, 2 * Cardinality(Calls) bounds nothing

ASSUME TokensAssumption ==
  /\ IsFiniteSet(Calls)
  /\ MaxChanges \in Nat
  /\ MaxTokens \in Nat

VARIABLES
  \* the row of serpro_connections with its certificate
  connection,      \* secret, updatedAt, and whether it may be used
  \* the gateway
  tokenCache,      \* tokenCache[k]: the token cached under k, 0 if none
  inFlight,        \* authenticationInFlight[k], 0 if none
  authentication,  \* every authentication so far
  issued,          \* how many there are
  \* calls
  pc,
  material,        \* what getMaterialForUse returned
  token,           \* the token in use, or the authentication waited for
  refusedToken,    \* the token answered with 401, 0 if none
  \* history
  refusals         \* refusals[k]: answers 401 to calls with key k

gatewayVars == <<tokenCache, inFlight, authentication, issued>>
callVars == <<pc, material, token, refusedToken>>
vars == <<connection, gatewayVars, callVars, refusals>>

Stamps == 1 .. MaxChanges + 1
Tokens == 1 .. MaxTokens
Connections == [secret : Secrets, updatedAt : Stamps, usable : BOOLEAN]
Outcomes == {"completed", "retriable", "final"}

TypeOK ==
  /\ connection \in Connections
  /\ tokenCache \in [Stamps -> Tokens \union {0}]
  /\ inFlight \in [Stamps -> Tokens \union {0}]
  /\ authentication \in [Tokens ->
       [state : {"none", "running", "valid", "expired", "failed"}, key : Stamps, secret : Secrets]]
  /\ issued \in Tokens \union {0}
  /\ pc \in [Calls -> {"idle", "ready", "waiting", "sending", "recording"} \union Outcomes]
  /\ material \in [Calls -> Connections]
  /\ token \in [Calls -> Tokens \union {0}]
  /\ refusedToken \in [Calls -> Tokens \union {0}]
  /\ refusals \in [Stamps -> Nat]

Init ==
  /\ \E s \in Secrets :
       /\ connection = [secret |-> s, updatedAt |-> 1, usable |-> TRUE]
       /\ material = [c \in Calls |-> connection]
       /\ authentication = [n \in Tokens |-> [state |-> "none", key |-> 1, secret |-> s]]
  /\ tokenCache = [k \in Stamps |-> 0]
  /\ inFlight = [k \in Stamps |-> 0]
  /\ issued = 0
  /\ pc = [c \in Calls |-> "idle"]
  /\ token = [c \in Calls |-> 0]
  /\ refusedToken = [c \in Calls |-> 0]
  /\ refusals = [k \in Stamps |-> 0]

------------------------------------------------------------------------------
(* The connection *)

(***************************************************************************)
(* A configuration, a re-sealing or a revocation of the certificate, by    *)
(* any process.  Prisma stamps every update of the row with a new          *)
(* updatedAt; a revocation updates the certificate's row instead.          *)
(***************************************************************************)
Configure(s) ==
  /\ connection.updatedAt <= MaxChanges
  /\ connection' = [secret |-> s, updatedAt |-> connection.updatedAt + 1, usable |-> TRUE]
  /\ UNCHANGED <<gatewayVars, callVars, refusals>>

ReSeal ==
  /\ connection.updatedAt <= MaxChanges
  /\ connection' = [connection EXCEPT !.updatedAt = @ + 1]
  /\ UNCHANGED <<gatewayVars, callVars, refusals>>

RevokeCertificate ==
  /\ connection.usable
  /\ connection' = [connection EXCEPT !.usable = FALSE]
  /\ UNCHANGED <<gatewayVars, callVars, refusals>>

------------------------------------------------------------------------------
(* Calls *)

GetMaterialForUse(c) ==
  /\ pc[c] = "idle"
  /\ IF connection.usable
     THEN /\ material' = [material EXCEPT ![c] = connection]
          /\ pc' = [pc EXCEPT ![c] = "ready"]
     ELSE /\ pc' = [pc EXCEPT ![c] = "final"]
          /\ UNCHANGED material
  /\ UNCHANGED <<connection, gatewayVars, token, refusedToken, refusals>>

CacheKey_ConnectionOnly(c) == 1

CacheKey(c) == material[c].updatedAt

(***************************************************************************)
(* getTokens: the cached token unless it is about to expire or must be     *)
(* renewed; else the authentication in flight; else a new one.             *)
(***************************************************************************)
Fresh(n) == n # 0 /\ authentication[n].state = "valid"

Pending_None(k) == 0

Pending(k) == inFlight[k]

GetTokens(c, forceRefresh, cached) ==
  LET k == CacheKey(c)
      new == issued + 1
  IN  \/ /\ ~forceRefresh /\ Fresh(cached)
         /\ token' = [token EXCEPT ![c] = cached]
         /\ pc' = [pc EXCEPT ![c] = "sending"]
         /\ UNCHANGED <<inFlight, authentication, issued>>
      \/ /\ forceRefresh \/ ~Fresh(cached)
         /\ pc' = [pc EXCEPT ![c] = "waiting"]
         /\ \/ /\ Pending(k) # 0
               /\ token' = [token EXCEPT ![c] = Pending(k)]
               /\ UNCHANGED <<inFlight, authentication, issued>>
            \/ /\ Pending(k) = 0
               /\ new \in Tokens
               /\ issued' = new
               /\ token' = [token EXCEPT ![c] = new]
               /\ inFlight' = [inFlight EXCEPT ![k] = new]
               /\ authentication' = [authentication EXCEPT ![new] =
                    [state |-> "running", key |-> k, secret |-> material[c].secret]]

FirstTokens(c) ==
  /\ pc[c] = "ready"
  /\ GetTokens(c, FALSE, tokenCache[CacheKey(c)])
  /\ UNCHANGED <<connection, tokenCache, material, refusedToken, refusals>>

(***************************************************************************)
(* authenticate ended: its token is cached if there is one, it is no       *)
(* longer in flight, and the calls that waited for it go on.               *)
(***************************************************************************)
NotInFlight_OnSuccess(n) ==
  IF authentication'[n].state = "valid" THEN [inFlight EXCEPT ![authentication[n].key] = 0] ELSE inFlight

NotInFlight(n) == [inFlight EXCEPT ![authentication[n].key] = 0]

Waiting(n) == {c \in Calls : pc[c] = "waiting" /\ token[c] = n}

AuthenticationEnds(n, state, outcome) ==
  /\ authentication[n].state = "running"
  /\ authentication' = [authentication EXCEPT ![n].state = state]
  /\ inFlight' = NotInFlight(n)
  /\ pc' = [c \in Calls |-> IF c \in Waiting(n) THEN outcome ELSE pc[c]]
  /\ UNCHANGED <<connection, issued, material, refusals>>

AuthenticationSucceeds(n) ==
  /\ AuthenticationEnds(n, "valid", "sending")
  /\ tokenCache' = [tokenCache EXCEPT ![authentication[n].key] = n]
  /\ UNCHANGED <<token, refusedToken>>

AuthenticationFails(n) ==
  /\ \E outcome \in {"retriable", "final"} : AuthenticationEnds(n, "failed", outcome)
  /\ token' = [c \in Calls |-> IF c \in Waiting(n) THEN 0 ELSE token[c]]
  /\ refusedToken' = [c \in Calls |-> IF c \in Waiting(n) THEN 0 ELSE refusedToken[c]]
  /\ UNCHANGED tokenCache

(***************************************************************************)
(* The clock comes within 30 seconds of a cached token's expiresAt.        *)
(***************************************************************************)
TokenExpires(n) ==
  /\ authentication[n].state = "valid"
  /\ tokenCache[authentication[n].key] = n
  /\ authentication' = [authentication EXCEPT ![n].state = "expired"]
  /\ UNCHANGED <<connection, tokenCache, inFlight, issued, callVars, refusals>>

(***************************************************************************)
(* SERPRO answers.  providerError and an answer that cannot be read decide *)
(* whether a failed call may be retried.                                   *)
(***************************************************************************)
End(c, outcome) ==
  /\ pc' = [pc EXCEPT ![c] = outcome]
  /\ token' = [token EXCEPT ![c] = 0]
  /\ refusedToken' = [refusedToken EXCEPT ![c] = 0]
  /\ UNCHANGED <<connection, gatewayVars, material, refusals>>

Answered_Untracked(c) == pc[c] = "sending" /\ End(c, "answered")

Answered(c) == pc[c] = "sending" /\ End(c, "recording")

Unavailable(c) == pc[c] = "sending" /\ End(c, "retriable")

Rejected(c) == pc[c] = "sending" /\ End(c, "final")

RefusedAgain(c) == pc[c] = "sending" /\ refusedToken[c] # 0 /\ End(c, "final")

(***************************************************************************)
(* The first 401: whatever is cached under the key is dropped, even a      *)
(* token another call has just renewed, and a new one is asked for.        *)
(***************************************************************************)
Renew_AskAgain(c) ==
  /\ GetTokens(c, FALSE, tokenCache[CacheKey(c)])
  /\ UNCHANGED tokenCache

Renew(c) ==
  /\ tokenCache' = [tokenCache EXCEPT ![CacheKey(c)] = 0]
  /\ GetTokens(c, TRUE, 0)

Refused(c) ==
  /\ pc[c] = "sending"
  /\ refusedToken[c] = 0
  /\ refusedToken' = [refusedToken EXCEPT ![c] = token[c]]
  /\ refusals' = [refusals EXCEPT ![CacheKey(c)] = @ + 1]
  /\ Renew(c)
  /\ UNCHANGED <<connection, material>>

(***************************************************************************)
(* The use of the connection is recorded; if that fails, so does the call. *)
(***************************************************************************)
RecordUse(c) == pc[c] = "recording" /\ (End(c, "completed") \/ End(c, "retriable"))

------------------------------------------------------------------------------
Answers(c) ==
  \/ Answered(c)
  \/ Unavailable(c)
  \/ Rejected(c)
  \/ RefusedAgain(c)
  \/ Refused(c)

Proceed(c) ==
  \/ GetMaterialForUse(c)
  \/ FirstTokens(c)
  \/ Answers(c)
  \/ RecordUse(c)

Next ==
  \/ \E c \in Calls : Proceed(c)
  \/ \E n \in Tokens : AuthenticationSucceeds(n) \/ AuthenticationFails(n) \/ TokenExpires(n)
  \/ \E s \in Secrets : Configure(s)
  \/ ReSeal
  \/ RevokeCertificate

Spec == Init /\ [][Next]_vars

(***************************************************************************)
(* Every request has a time-out and every statement returns or throws.     *)
(***************************************************************************)
Fairness ==
  /\ \A c \in Calls : WF_vars(Proceed(c))
  /\ \A n \in Tokens : WF_vars(AuthenticationSucceeds(n) \/ AuthenticationFails(n))

FairSpec == Spec /\ Fairness

------------------------------------------------------------------------------
(* Properties *)

(***************************************************************************)
(* A call presents only tokens obtained with the credentials it has read,  *)
(* although it may take them from the cache or from another call's         *)
(* authentication, and the connection may have changed in between.         *)
(***************************************************************************)
TokensMatchMaterial ==
  \A c \in Calls : pc[c] = "sending" => authentication[token[c]].secret = material[c].secret

(***************************************************************************)
(* The gateway's map of authentications in flight is exact: at most one    *)
(* runs per key, and an ended one, failed or not, is never waited for.     *)
(***************************************************************************)
InFlightIsRunning ==
  /\ \A n \in Tokens : authentication[n].state = "running" => inFlight[authentication[n].key] = n
  /\ \A k \in Stamps : inFlight[k] # 0 => authentication[inFlight[k]].state = "running"
  /\ \A c \in Calls : pc[c] = "waiting" => authentication[token[c]].state = "running"

(***************************************************************************)
(* A renewed call never presents the token it was refused, nor an older    *)
(* one, whatever other calls cached or renewed while its answer came in.   *)
(***************************************************************************)
RenewalIsNewer ==
  \A c \in Calls :
    refusedToken[c] # 0 /\ pc[c] \in {"waiting", "sending"} => token[c] > refusedToken[c]

(***************************************************************************)
(* Authentications are not wasted: per key there is one to begin with, and *)
(* each further one is owed to a refusal, an expiry or a failure.  Late    *)
(* 401 answers to an old token, which drop a newer one, are in the count.  *)
(***************************************************************************)
AuthenticationsAccounted ==
  \A k \in Stamps :
    LET ofKey == {n \in 1 .. issued : authentication[n].key = k}
        spent == {n \in ofKey : authentication[n].state \in {"expired", "failed"}}
    IN  Cardinality(ofKey) <= 1 + refusals[k] + Cardinality(spent)

(***************************************************************************)
(* Every call ends, also those waiting for an authentication they did not  *)
(* start and that fails.                                                   *)
(***************************************************************************)
EveryCallEnds == \A c \in Calls : (pc[c] # "idle") ~> (pc[c] \in Outcomes)

------------------------------------------------------------------------------
(* What the proofs need besides *)

(***************************************************************************)
(* updatedAt names the credentials: whatever was read, or authenticated    *)
(* with, at one updatedAt is the same secret, and none is from the future. *)
(***************************************************************************)
Read == {[stamp |-> material[c].updatedAt, secret |-> material[c].secret] : c \in Calls}

Used == {[stamp |-> authentication[n].key, secret |-> authentication[n].secret] : n \in Tokens}

Known == {[stamp |-> connection.updatedAt, secret |-> connection.secret]} \union Read \union Used

StampInv ==
  \A a, b \in Known :
    /\ a.stamp <= connection.updatedAt
    /\ a.stamp = b.stamp => a.secret = b.secret

(***************************************************************************)
(* Where tokens are: authentications are numbered in order, a token is     *)
(* cached or in flight under the key it was asked for, the one in flight   *)
(* is the key's latest, and a call holds a token of its own key.           *)
(***************************************************************************)
CacheInv ==
  /\ \A n \in Tokens : authentication[n].state = "none" <=> n > issued
  /\ \A k \in Stamps : tokenCache[k] # 0 =>
       /\ authentication[tokenCache[k]].key = k
       /\ authentication[tokenCache[k]].state \in {"valid", "expired"}
  /\ \A k \in Stamps : inFlight[k] # 0 =>
       /\ authentication[inFlight[k]].key = k
       /\ \A n \in 1 .. issued : authentication[n].key = k => n <= inFlight[k]

HoldInv ==
  \A c \in Calls :
    /\ pc[c] \in {"waiting", "sending"} => token[c] # 0 /\ authentication[token[c]].key = CacheKey(c)
    /\ pc[c] = "sending" => authentication[token[c]].state \in {"valid", "expired"}
    /\ pc[c] \in {"idle", "ready"} => refusedToken[c] = 0

(***************************************************************************)
(* A key's authentications that run or whose token is still good are owed  *)
(* to a refusal each, but for one that may yet be used.                    *)
(***************************************************************************)
Live(k) == {n \in 1 .. issued : authentication[n].key = k /\ authentication[n].state \in {"running", "valid"}}

InUse(k) == IF inFlight[k] # 0 \/ Fresh(tokenCache[k]) THEN 1 ELSE 0

LiveInv == \A k \in Stamps : Cardinality(Live(k)) <= refusals[k] + InUse(k)
================================================================================
