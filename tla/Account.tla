-------------------------------- MODULE Account --------------------------------
(***************************************************************************)
(* The account of one member whose role requires a second factor: refresh  *)
(* sessions, MFA challenges, recovery codes and password reset tokens,     *)
(* under requests served at the same time.                                 *)
(*                                                                         *)
(* Every operation reads a row and then runs a transaction: a plan of      *)
(* UPDATE and DELETE statements at READ COMMITTED.  A statement lists the  *)
(* committed rows that match it when it starts, locks them one by one,     *)
(* waiting for rows others hold, and looks again at each row once locked.  *)
(* Locks are kept, and writes unseen by others, until the commit; that of  *)
(* a row found not to match any more is given up here and kept by the      *)
(* database, which only makes others wait.                                 *)
(*                                                                         *)
(* Expiry of tokens and sessions only refuses requests and is left out;    *)
(* the user and the membership are ACTIVE, and no operation suspends them. *)
(***************************************************************************)
EXTENDS Integers, FiniteSets, Sequences, Relation

CONSTANTS
  Requests,       \* requests the service serves at the same time
  Sessions,       \* rows of refresh_sessions
  Challenges,     \* rows of mfa_challenges
  Resets,         \* rows of password_reset_tokens
  MaxAttempts,    \* MFA_MAX_ATTEMPTS
  MaxOperations,  \* bound of the model on requests
  None

ASSUME AccountAssumption ==
  /\ None \notin Sessions \union Challenges \union Resets \union {"SETUP", "LOGIN"}
  /\ Challenges \intersect (Sessions \union Resets) = {}
  /\ IsFiniteSet(Requests) /\ IsFiniteSet(Challenges) /\ IsFiniteSet(Resets)
  /\ MaxAttempts \in Nat \ {0}
  /\ MaxOperations \in Nat

VARIABLES
  session,     \* refresh_sessions: family, usedAt, revokedAt
  challenge,   \* mfa_challenges: type, consumedAt, failedAttempts
  reset,       \* password_reset_tokens: usedAt
  enrolled,    \* users.mfaSecretEncrypted: the setup it comes from
  codes,       \* mfa_recovery_codes: one of the eight that each setup creates
  version,     \* users.securityVersion
  tx,          \* the transaction of each request
  \* history
  since,       \* security version a session or challenge was authenticated under
  ended,       \* families that a committed reuse or logout has ended
  late,        \* sessions inserted behind a revocation, under way or done, of their origin
  applied,     \* completions of each setup and reset
  operations   \* requests served

rows == <<session, challenge, reset, enrolled, codes, version>>
history == <<since, ended, late, applied>>
vars == <<rows, tx, history, operations>>

Kinds == {"idle", "rotate", "revoke", "login", "fail", "code", "setup", "verify", "enter",
          "forgot", "reset"}

Rows ==
  {<<"user">>} \union ({"session"} \X Sessions) \union
  ({"challenge", "code"} \X Challenges) \union ({"reset"} \X Resets)

Items == Sessions \union Challenges \union Resets \union {None}

NoSession == [family |-> None, used |-> FALSE, revoked |-> FALSE]
NoChallenge == [type |-> None, consumed |-> FALSE, failed |-> 0]
Idle == [kind |-> "idle", item |-> None, other |-> None, at |-> 0, todo |-> {}, held |-> {}]

TypeOK ==
  /\ session \in [Sessions -> [family : Sessions \union {None}, used : BOOLEAN, revoked : BOOLEAN]]
  /\ challenge \in [Challenges -> [type : {"SETUP", "LOGIN", None}, consumed : BOOLEAN,
                                   failed : Nat]]
  /\ reset \in [Resets -> {"ABSENT", "OPEN", "USED"}]
  /\ enrolled \in Challenges \union {None}
  /\ codes \in [Challenges -> {"ABSENT", "FRESH", "USED"}]
  /\ version \in Nat \ {0}
  /\ tx \in [Requests -> [kind : Kinds, item : Items, other : Items \union {"SETUP", "LOGIN"},
                          at : 0 .. 4, todo : SUBSET Rows, held : SUBSET Rows]]
  /\ since \in [Sessions \union Challenges -> Nat]
  /\ ended \subseteq Sessions
  /\ late \subseteq Sessions
  /\ applied \in [Challenges \union Resets -> Nat]
  /\ operations \in 0 .. MaxOperations

Init ==
  /\ session = [s \in Sessions |-> NoSession]
  /\ challenge = [c \in Challenges |-> NoChallenge]
  /\ reset = [t \in Resets |-> "ABSENT"]
  /\ enrolled = None
  /\ codes = [c \in Challenges |-> "ABSENT"]
  /\ version = 1
  /\ tx = [r \in Requests |-> Idle]
  /\ since = [x \in Sessions \union Challenges |-> 0]
  /\ ended = {} /\ late = {}
  /\ applied = [x \in Challenges \union Resets |-> 0]
  /\ operations = 0

Live(s) == session[s].family # None /\ ~session[s].revoked
Open(c) == challenge[c].type # None /\ ~challenge[c].consumed

Exchangeable_Used(s) == Live(s)
Exchangeable_Revoked(s) == session[s].family # None /\ ~session[s].used

Exchangeable(s) == Live(s) /\ ~session[s].used

Family_Itself(s) == {s}

Family(s) == {u \in Sessions : session[u].family = session[s].family}

-------------------------------------------------------------------------------
(***************************************************************************)
(* The statements of each transaction, in order.                           *)
(***************************************************************************)
SetupPlan_CodesFirst == <<"consume", "deleteCodes", "user", "revokeAll">>

SetupPlan == <<"consume", "user", "deleteCodes", "revokeAll">>

ResetPlan_SessionsFirst == <<"spendReset", "revokeAll", "user", "closeChallenges">>

ResetPlan == <<"spendReset", "user", "revokeAll", "closeChallenges">>

Plan(kind) ==
  CASE kind = "rotate" -> <<"exchange">>
    [] kind = "revoke" -> <<"revokeFamily">>
    [] kind = "login"  -> <<"closeChallenges">>
    [] kind = "fail"   -> <<"countFailure">>
    [] kind = "code"   -> <<"spendCode">>
    [] kind = "setup"  -> SetupPlan
    [] kind = "verify" -> <<"consume", "user">>
    [] kind = "forgot" -> <<"closeResets">>
    [] kind = "reset"  -> ResetPlan
    [] OTHER -> <<>>

\* The rows the WHERE of a statement names by key.
Named(statement, item, other) ==
  CASE statement = "exchange" -> {<<"session", item>>}
    [] statement = "revokeFamily" -> {"session"} \X Family(item)
    [] statement = "revokeAll" -> {"session"} \X Sessions
    [] statement \in {"consume", "countFailure"} -> {<<"challenge", item>>}
    [] statement = "closeChallenges" -> {"challenge"} \X Challenges
    [] statement = "spendCode" -> {<<"code", other>>}
    [] statement = "deleteCodes" -> {"code"} \X Challenges
    [] statement = "spendReset" -> {<<"reset", item>>}
    [] statement = "closeResets" -> {"reset"} \X Resets
    [] statement = "user" -> {<<"user">>}

\* Its conditions on the other columns.
Matches(statement, row) ==
  CASE statement = "exchange" -> Exchangeable(row[2])
    [] statement \in {"revokeFamily", "revokeAll"} -> Live(row[2])
    [] statement \in {"consume", "closeChallenges"} -> Open(row[2])
    [] statement = "spendCode" -> codes[row[2]] = "FRESH"
    [] statement = "deleteCodes" -> codes[row[2]] # "ABSENT"
    [] statement \in {"spendReset", "closeResets"} -> reset[row[2]] = "OPEN"
    [] statement \in {"user", "countFailure"} -> TRUE

Statement(r) == Plan(tx[r].kind)[tx[r].at]

\* The row whose conditional update decides whether the transaction goes on.
Claim(r) ==
  CASE tx[r].kind = "rotate" -> {<<"session", tx[r].item>>}
    [] tx[r].kind \in {"setup", "verify"} -> {<<"challenge", tx[r].item>>}
    [] tx[r].kind = "code" -> {<<"code", tx[r].other>>}
    [] tx[r].kind = "reset" -> {<<"reset", tx[r].item>>}
    [] OTHER -> {}

Goes(r, kind, item, other) ==
  tx' = [tx EXCEPT ![r] = [Idle EXCEPT !.kind = kind, !.item = item, !.other = other]]

Ends(r) == tx' = [tx EXCEPT ![r] = Idle]

StartStatement(r) ==
  /\ tx[r].todo = {}
  /\ tx[r].at < Len(Plan(tx[r].kind))
  /\ tx[r].at > 0 => Claim(r) \subseteq tx[r].held
  /\ LET statement == Plan(tx[r].kind)[tx[r].at + 1]
     IN  tx' = [tx EXCEPT ![r].at = @ + 1,
                          ![r].todo = {row \in Named(statement, tx[r].item, tx[r].other) :
                                         Matches(statement, row)}]
  /\ UNCHANGED <<rows, history, operations>>

Holders(row) == {q \in Requests : row \in tx[q].held}

LockRow(r, row) ==
  /\ row \in tx[r].todo
  /\ Holders(row) \subseteq {r}
  /\ tx' = [tx EXCEPT ![r].todo = @ \ {row},
                      ![r].held = IF Matches(Statement(r), row) THEN @ \union {row} ELSE @]
  /\ UNCHANGED <<rows, history, operations>>

(***************************************************************************)
(* The database ends one of the transactions that wait for each other.     *)
(***************************************************************************)
WaitsFor(r) ==
  IF tx[r].todo # {} /\ \A row \in tx[r].todo : Holders(row) \ {r} # {}
    THEN UNION {Holders(row) \ {r} : row \in tx[r].todo} ELSE {}

Deadlocked(r) ==
  /\ WaitsFor(r) # {}
  /\ TransitiveClosure([p \in Requests \X Requests |-> p[2] \in WaitsFor(p[1])], Requests)[r, r]

DeadlockVictim(r) ==
  /\ Deadlocked(r)
  /\ Ends(r)
  /\ UNCHANGED <<rows, history, operations>>

Done(r, kind) ==
  /\ tx[r].kind = kind
  /\ tx[r].at = Len(Plan(kind)) /\ tx[r].todo = {}
  /\ Claim(r) \subseteq tx[r].held

Missed(r, kind) ==
  /\ tx[r].kind = kind
  /\ tx[r].at = 1 /\ tx[r].todo = {}
  /\ ~ Claim(r) \subseteq tx[r].held

\* The ids a statement of the transaction has locked in a table.
Held(r, table) == {row[2] : row \in {x \in tx[r].held : x[1] = table}}

Revoked(r) == [s \in Sessions |-> IF s \in Held(r, "session")
                                    THEN [session[s] EXCEPT !.revoked = TRUE] ELSE session[s]]
Closed(r) == [c \in Challenges |-> IF c \in Held(r, "challenge")
                                     THEN [challenge[c] EXCEPT !.consumed = TRUE] ELSE challenge[c]]

Arrives(r) ==
  /\ tx[r] = Idle
  /\ operations < MaxOperations
  /\ operations' = operations + 1
  /\ UNCHANGED <<rows, history>>

-------------------------------------------------------------------------------
(***************************************************************************)
(* Refresh sessions.  A session is exchanged for a new one of its family;  *)
(* one presented again, before or during the exchange, ends the family.    *)
(* Logging out ends the family too.                                        *)
(***************************************************************************)
Rotate(r, s) ==
  /\ Arrives(r)
  /\ session[s].family # None
  /\ session[s].used \/ Live(s)
  /\ Goes(r, IF session[s].used THEN "revoke" ELSE "rotate", s, None)

Logout(r, s) == Arrives(r) /\ Live(s) /\ Goes(r, "revoke", s, None)

(***************************************************************************)
(* The sessions there are that a statement under way or done is to revoke. *)
(***************************************************************************)
RevokesAll(r) ==
  \/ tx[r].kind = "setup" /\ tx[r].at = 4
  \/ tx[r].kind = "reset" /\ tx[r].at >= 3

RevokesFamily(r) == tx[r].kind = "revoke" /\ tx[r].at > 0

Covered(r) ==
  {s \in Sessions : /\ session[s].family # None
                    /\ RevokesAll(r) \/ (RevokesFamily(r) /\ s \in Family(tx[r].item))}

FreeSessions == {s \in Sessions : session[s].family = None}

CommitRotation(r) ==
  LET s == tx[r].item IN
  /\ Done(r, "rotate")
  /\ \E new \in FreeSessions :
       /\ session' = [session EXCEPT ![s].used = TRUE,
                                     ![new] = [NoSession EXCEPT !.family = session[s].family]]
       /\ since' = [since EXCEPT ![new] = since[s]]
       /\ late' = IF s \in late \/ (\E q \in Requests : s \in Covered(q))
                    THEN late \union {new} ELSE late
  /\ Ends(r)
  /\ UNCHANGED <<challenge, reset, enrolled, codes, version, ended, applied, operations>>

\* usedAt or revokedAt were written meanwhile: answered as a reuse.
RotationMissed(r) ==
  /\ Missed(r, "rotate")
  /\ Goes(r, "revoke", tx[r].item, None)
  /\ UNCHANGED <<rows, history, operations>>

CommitRevocation(r) ==
  /\ Done(r, "revoke")
  /\ session' = Revoked(r)
  /\ ended' = ended \union {session[tx[r].item].family}
  /\ Ends(r)
  /\ UNCHANGED <<challenge, reset, enrolled, codes, version, since, late, applied, operations>>

-------------------------------------------------------------------------------
(***************************************************************************)
(* Login with the right password: the record is read, the open challenges  *)
(* are closed and a new one is inserted, of the type the record called     *)
(* for when it was read.                                                   *)
(***************************************************************************)
Login(r) ==
  /\ Arrives(r)
  /\ Goes(r, "login", None, IF enrolled = None THEN "SETUP" ELSE "LOGIN")

CommitLogin(r) ==
  /\ Done(r, "login")
  /\ \E c \in {d \in Challenges : challenge[d].type = None} :
       challenge' = [Closed(r) EXCEPT ![c] = [NoChallenge EXCEPT !.type = tx[r].other]]
  /\ Ends(r)
  /\ UNCHANGED <<session, reset, enrolled, codes, version, history, operations>>

(***************************************************************************)
(* Verifying a challenge: the challenge is read, the code is judged, and   *)
(* then the failure is counted or the challenge completed, each in a       *)
(* transaction of its own.  A recovery code is spent in one more.          *)
(***************************************************************************)
Exhausted_Beyond(failed) == failed > MaxAttempts

Exhausted(failed) == failed >= MaxAttempts

Completion_Type(c) == challenge[c].type

Completion(c) == IF challenge[c].type = "SETUP" THEN "setup" ELSE "verify"

Verify(r, c) ==
  /\ Arrives(r)
  /\ Open(c)
  /\ ~Exhausted(challenge[c].failed)
  /\ \/ Goes(r, "fail", c, None)
     \/ Goes(r, Completion(c), c, None)
     \/ /\ challenge[c].type = "LOGIN"
        /\ \E setup \in Challenges : codes[setup] # "ABSENT" /\ Goes(r, "code", c, setup)

CommitFailure(r) ==
  LET c == tx[r].item
      failed == challenge[c].failed + 1
  IN
  /\ Done(r, "fail")
  /\ challenge' = [challenge EXCEPT ![c].failed = failed,
                                    ![c].consumed = @ \/ Exhausted(failed)]
  /\ Ends(r)
  /\ UNCHANGED <<session, reset, enrolled, codes, version, history, operations>>

CommitCode(r) ==
  /\ Done(r, "code")
  /\ codes' = [codes EXCEPT ![tx[r].other] = "USED"]
  /\ Goes(r, "verify", tx[r].item, None)
  /\ UNCHANGED <<session, challenge, reset, enrolled, version, history, operations>>

CodeMissed(r) ==
  /\ Missed(r, "code")
  /\ Goes(r, "fail", tx[r].item, None)
  /\ UNCHANGED <<rows, history, operations>>

\* completeMfaChallenge of a SETUP: the secret is enrolled, the recovery codes are replaced.
CommitSetup(r) ==
  LET c == tx[r].item IN
  /\ Done(r, "setup")
  /\ challenge' = Closed(r)
  /\ enrolled' = c
  /\ codes' = [d \in Challenges |-> IF d = c THEN "FRESH"
                                    ELSE IF d \in Held(r, "code") THEN "ABSENT" ELSE codes[d]]
  /\ version' = version + 1
  /\ session' = Revoked(r)
  /\ since' = [since EXCEPT ![c] = version + 1]
  /\ applied' = [applied EXCEPT ![c] = @ + 1]
  /\ Goes(r, "enter", c, None)
  /\ UNCHANGED <<reset, ended, late, operations>>

CommitVerification(r) ==
  /\ Done(r, "verify")
  /\ challenge' = Closed(r)
  /\ since' = [since EXCEPT ![tx[r].item] = version]
  /\ applied' = [applied EXCEPT ![tx[r].item] = @ + 1]
  /\ Goes(r, "enter", tx[r].item, None)
  /\ UNCHANGED <<session, reset, enrolled, codes, version, ended, late, operations>>

CompletionMissed(r) ==
  /\ Missed(r, "setup") \/ Missed(r, "verify")
  /\ Ends(r)
  /\ UNCHANGED <<rows, history, operations>>

\* The handler creates the session once the challenge is completed, whatever happened since.
Enter(r) ==
  LET c == tx[r].item IN
  /\ tx[r].kind = "enter"
  /\ \E new \in FreeSessions :
       /\ session' = [session EXCEPT ![new].family = new]
       /\ since' = [since EXCEPT ![new] = since[c]]
       /\ late' = IF since[c] # version \/ (\E q \in Requests : RevokesAll(q))
                    THEN late \union {new} ELSE late
  /\ Ends(r)
  /\ UNCHANGED <<challenge, reset, enrolled, codes, version, ended, applied, operations>>

-------------------------------------------------------------------------------
(***************************************************************************)
(* Password reset: a new token closes those before it, and using a token   *)
(* sets the password and ends every session and open challenge.            *)
(***************************************************************************)
Forgot(r) == Arrives(r) /\ Goes(r, "forgot", None, None)

CommitForgot(r) ==
  /\ Done(r, "forgot")
  /\ \E t \in {u \in Resets : reset[u] = "ABSENT"} :
       reset' = [u \in Resets |-> IF u = t THEN "OPEN"
                                  ELSE IF u \in Held(r, "reset") THEN "USED" ELSE reset[u]]
  /\ Ends(r)
  /\ UNCHANGED <<session, challenge, enrolled, codes, version, history, operations>>

ResetPassword(r, t) == Arrives(r) /\ reset[t] = "OPEN" /\ Goes(r, "reset", t, None)

CommitReset(r) ==
  LET t == tx[r].item IN
  /\ Done(r, "reset")
  /\ reset' = [reset EXCEPT ![t] = "USED"]
  /\ version' = version + 1
  /\ session' = Revoked(r)
  /\ challenge' = Closed(r)
  /\ applied' = [applied EXCEPT ![t] = @ + 1]
  /\ Ends(r)
  /\ UNCHANGED <<enrolled, codes, since, ended, late, operations>>

ResetMissed(r) ==
  /\ Missed(r, "reset")
  /\ Ends(r)
  /\ UNCHANGED <<rows, history, operations>>

-------------------------------------------------------------------------------
SessionStep(r) ==
  \/ \E s \in Sessions : Rotate(r, s) \/ Logout(r, s)
  \/ CommitRotation(r) \/ RotationMissed(r) \/ CommitRevocation(r)

ChallengeStep(r) ==
  \/ Login(r) \/ CommitLogin(r)
  \/ \E c \in Challenges : Verify(r, c)
  \/ CommitFailure(r) \/ CommitCode(r) \/ CodeMissed(r)
  \/ CommitSetup(r) \/ CommitVerification(r) \/ CompletionMissed(r) \/ Enter(r)

ResetStep(r) ==
  \/ Forgot(r) \/ CommitForgot(r)
  \/ \E t \in Resets : ResetPassword(r, t)
  \/ CommitReset(r) \/ ResetMissed(r)

StatementStep(r) ==
  StartStatement(r) \/ (\E row \in Rows : LockRow(r, row)) \/ DeadlockVictim(r)

Next == \E r \in Requests :
          SessionStep(r) \/ ChallengeStep(r) \/ ResetStep(r) \/ StatementStep(r)

Spec == Init /\ [][Next]_vars

-------------------------------------------------------------------------------
(***************************************************************************)
(* What is for one use is used once, by however many requests present it:  *)
(* a family has at most one session still to be exchanged, and a challenge *)
(* or a reset token takes effect once, so that the security version counts *)
(* the setups and resets there have been.                                  *)
(***************************************************************************)
SingleUse ==
  /\ \A s, u \in Sessions :
       /\ session[s].family # None /\ session[s].family = session[u].family
       /\ ~session[s].used /\ ~session[u].used
       => s = u
  /\ \A x \in Challenges \union Resets : applied[x] <= 1
  /\ version = 1 + Cardinality({t \in Resets : applied[t] = 1})
                 + Cardinality({c \in Challenges : applied[c] = 1 /\ challenge[c].type = "SETUP"})

(***************************************************************************)
(* A session that was revoked is not exchanged afterwards, even by a       *)
(* request that had found it live.                                         *)
(***************************************************************************)
RevokedNeverExchanged ==
  [][\A s \in Sessions : session[s].revoked => session'[s].used = session[s].used]_vars

(***************************************************************************)
(* Revoking is immediate: a session that can still be exchanged is of no   *)
(* family that a logout or a detected reuse has ended, and no setup or     *)
(* reset was committed after the authentication it comes from.  The code   *)
(* breaks this promise of the documents, in two ways: a rotation committed *)
(* behind the snapshot of the statement that revokes, and a session        *)
(* inserted after a reset for a challenge that was verified before it.     *)
(***************************************************************************)
Outlived(s) == session[s].family \in ended \/ since[s] # version

RevocationIsImmediate == \A s \in Sessions : Exchangeable(s) => ~Outlived(s)

(***************************************************************************)
(* What is left of the promise: a session outlives a logout, a reuse, a    *)
(* setup or a reset only in these two ways, or as what such a session was  *)
(* exchanged for.                                                          *)
(***************************************************************************)
SurvivorsOverlap == \A s \in Sessions : Live(s) /\ Outlived(s) => s \in late

(***************************************************************************)
(* The recovery codes there are belong to the enrolled secret, although    *)
(* two setups may be completed at once: the second waits for the user row  *)
(* before it lists the codes it replaces.                                  *)
(***************************************************************************)
CodesBelongToEnrolment == \A c \in Challenges : codes[c] # "ABSENT" => c = enrolled

(***************************************************************************)
(* A challenge takes the limit of wrong codes and, of the requests that    *)
(* read it before it was closed, one more each.                            *)
(***************************************************************************)
TriesBounded ==
  \A c \in Challenges : challenge[c].failed <= MaxAttempts + Cardinality(Requests) - 1

(***************************************************************************)
(* Two transactions wait for each other only where a reset, with the user  *)
(* row, closes a challenge that is being completed, or where two           *)
(* statements that revoke or close several rows of one table meet.         *)
(* Everything else waits in order.                                         *)
(***************************************************************************)
OfSeveralRows == {"revokeFamily", "revokeAll", "closeChallenges", "closeResets"}

DeadlocksAreKnown ==
  \A r, q \in Requests :
    r \in WaitsFor(q) /\ q \in WaitsFor(r) =>
      \/ {Statement(r), Statement(q)} = {"user", "closeChallenges"}
      \/ {Statement(r), Statement(q)} \subseteq OfSeveralRows

-------------------------------------------------------------------------------
(* What the proofs need besides *)

(***************************************************************************)
(* What a request has found stays: no row is deleted or changes its type.  *)
(***************************************************************************)
Found(r) ==
  /\ tx[r].kind \in {"rotate", "revoke"} =>
       tx[r].item \in Sessions /\ session[tx[r].item].family # None
  /\ tx[r].kind \in {"fail", "code", "setup", "verify", "enter"} =>
       tx[r].item \in Challenges /\ challenge[tx[r].item].type # None
  /\ tx[r].kind = "setup" => challenge[tx[r].item].type = "SETUP"
  /\ tx[r].kind \in {"code", "verify"} => challenge[tx[r].item].type = "LOGIN"
  /\ tx[r].kind = "login" => tx[r].other \in {"SETUP", "LOGIN"}
  /\ tx[r].kind = "code" => tx[r].other \in Challenges
  /\ tx[r].kind = "reset" => tx[r].item \in Resets
  /\ tx[r].at <= Len(Plan(tx[r].kind))
  /\ tx[r].at = 0 => tx[r].todo = {} /\ tx[r].held = {}

RequestInv == \A r \in Requests : Found(r)

(***************************************************************************)
(* Which rows a transaction wants or holds, how far into its plan.         *)
(***************************************************************************)
Locking(r, table, id) == <<table, id>> \in tx[r].todo \union tx[r].held

Placed(r) ==
  /\ \A s \in Sessions : Locking(r, "session", s) =>
       \/ tx[r].kind = "rotate" /\ s = tx[r].item
       \/ tx[r].kind = "revoke" /\ s \in Family(tx[r].item)
       \/ tx[r].kind = "setup" /\ tx[r].at = 4
       \/ tx[r].kind = "reset" /\ tx[r].at >= 3
  /\ \A c \in Challenges : Locking(r, "challenge", c) =>
       \/ tx[r].kind \in {"fail", "setup", "verify"} /\ c = tx[r].item
       \/ tx[r].kind = "login"
       \/ tx[r].kind = "reset" /\ tx[r].at = 4
  /\ \A c \in Challenges : Locking(r, "code", c) =>
       \/ tx[r].kind = "code" /\ c = tx[r].other
       \/ tx[r].kind = "setup" /\ tx[r].at >= 3
  /\ \A t \in Resets : Locking(r, "reset", t) =>
       tx[r].kind = "forgot" \/ (tx[r].kind = "reset" /\ t = tx[r].item)
  /\ <<"user">> \in tx[r].todo \union tx[r].held =>
       tx[r].kind \in {"setup", "verify", "reset"} /\ tx[r].at >= 2

PlaceInv == \A r \in Requests : Placed(r)

(***************************************************************************)
(* A row has one holder, and while it is held it is as it was when locked. *)
(***************************************************************************)
Exclusive == \A r, q \in Requests : r # q => tx[r].held \intersect tx[q].held = {}

AsLocked(r) ==
  /\ \A s \in Sessions : <<"session", s>> \in tx[r].held =>
       Live(s) /\ (tx[r].kind = "rotate" => ~session[s].used)
  /\ \A c \in Challenges : <<"challenge", c>> \in tx[r].held => Open(c) \/ tx[r].kind = "fail"
  /\ \A c \in Challenges : <<"code", c>> \in tx[r].held => codes[c] # "ABSENT"
  /\ \A t \in Resets : <<"reset", t>> \in tx[r].held => reset[t] = "OPEN"

HeldInv == \A r \in Requests : AsLocked(r)

(***************************************************************************)
(* A row is blank until it is inserted, a family is named after its first  *)
(* session, and what has taken effect is spent.                            *)
(***************************************************************************)
RowInv ==
  /\ \A s \in Sessions : session[s].family = None => session[s] = NoSession
  /\ \A s \in Sessions : session[s].family # None =>
       session[session[s].family].family = session[s].family
  /\ \A c \in Challenges : applied[c] # 0 => challenge[c].type # None /\ challenge[c].consumed
  /\ \A c \in Challenges : codes[c] # "ABSENT" => applied[c] # 0
  /\ \A t \in Resets : applied[t] # 0 => reset[t] = "USED"

(***************************************************************************)
(* The row a failure is counted in and the user row are locked by name,    *)
(* whatever is in them.                                                    *)
(***************************************************************************)
LocksByName(r) ==
  /\ tx[r].kind = "fail" /\ tx[r].at = 1 => Locking(r, "challenge", tx[r].item)
  /\ tx[r].kind \in {"setup", "reset"} /\ tx[r].at >= 2 =>
       <<"user">> \in tx[r].todo \union tx[r].held
  /\ tx[r].kind \in {"setup", "reset"} /\ tx[r].at >= 3 => <<"user">> \in tx[r].held

UserInv == \A r \in Requests : LocksByName(r)

(***************************************************************************)
(* What was inserted behind the snapshot of a statement: of the recovery   *)
(* codes none, since the user row is held; of the sessions it is to revoke *)
(* only those called late.                                                 *)
(***************************************************************************)
CodesInv ==
  \A r \in Requests : tx[r].kind = "setup" /\ tx[r].at >= 3 =>
    \A c \in Challenges : codes[c] # "ABSENT" => Locking(r, "code", c)

Behind(r) ==
  \A s \in Covered(r) : session[s].revoked \/ Locking(r, "session", s) \/ s \in late

SnapshotInv == \A r \in Requests : Behind(r)

EndedInv == \A f \in ended : session[f].family # None

(***************************************************************************)
(* What would repair it: a rotation has its row, and a completion is still *)
(* to insert its session, only while nobody revokes them.  Both would hold *)
(* if rotating, completing and revoking took the user row first and if the *)
(* completion inserted the session itself.                                 *)
(***************************************************************************)
RevocationsAlone ==
  \A r, q \in Requests :
    /\ tx[r].kind = "rotate" /\ tx[r].at > 0 => tx[r].item \notin Covered(q)
    /\ tx[r].kind = "enter" => ~RevokesAll(q)

EnterInv == \A r \in Requests : tx[r].kind = "enter" => since[tx[r].item] = version

(***************************************************************************)
(* A wrong code counted or still to be counted was sent before the         *)
(* challenge was exhausted, by a request of its own.                       *)
(***************************************************************************)
Trying(c) == {r \in Requests : tx[r].kind \in {"fail", "code"} /\ tx[r].item = c}

TryInv ==
  \A c \in Challenges :
    challenge[c].failed + Cardinality(Trying(c)) <= MaxAttempts + Cardinality(Requests) - 1

(***************************************************************************)
(* A transaction waits in one table at a time.                             *)
(***************************************************************************)
Table(statement) ==
  CASE statement \in {"exchange", "revokeFamily", "revokeAll"} -> "session"
    [] statement \in {"consume", "countFailure", "closeChallenges"} -> "challenge"
    [] statement \in {"spendCode", "deleteCodes"} -> "code"
    [] statement \in {"spendReset", "closeResets"} -> "reset"
    [] statement = "user" -> "user"

TableInv == \A r \in Requests : \A row \in tx[r].todo : row[1] = Table(Statement(r))

=============================================================================
