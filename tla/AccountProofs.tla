----------------------------- MODULE AccountProofs -----------------------------
(***************************************************************************)
(* Theorems about Account: what holds of sessions, challenges, recovery    *)
(* codes and resets for any number of each and of concurrent requests.     *)
(*                                                                         *)
(* Apart from StartStatement and LockRow, a step leaves its request with   *)
(* no locks (Released), and whatever it writes was locked or blank         *)
(* (WritesAreLocked).  The invariants follow from these two.               *)
(***************************************************************************)
EXTENDS Account, FiniteSetTheorems, TLAPS

(***************************************************************************)
(* The plans, statement by statement.                                      *)
(***************************************************************************)
LEMMA Plans ==
  /\ Plan("rotate") = <<"exchange">>
  /\ Plan("revoke") = <<"revokeFamily">>
  /\ Plan("login") = <<"closeChallenges">>
  /\ Plan("fail") = <<"countFailure">>
  /\ Plan("code") = <<"spendCode">>
  /\ Plan("setup") = <<"consume", "user", "deleteCodes", "revokeAll">>
  /\ Plan("verify") = <<"consume", "user">>
  /\ Plan("forgot") = <<"closeResets">>
  /\ Plan("reset") = <<"spendReset", "user", "revokeAll", "closeChallenges">>
  /\ Plan("enter") = <<>>
  /\ Plan("idle") = <<>>
BY DEF Plan, SetupPlan, ResetPlan

LEMMA PlanLength ==
  ASSUME NEW kind \in Kinds
  PROVE  Len(Plan(kind)) = IF kind \in {"idle", "enter"} THEN 0
                           ELSE IF kind \in {"setup", "reset"} THEN 4
                           ELSE IF kind = "verify" THEN 2 ELSE 1
BY Plans DEF Kinds

LEMMA DoneAt ==
  ASSUME NEW r \in Requests, NEW kind \in Kinds, Done(r, kind)
  PROVE  /\ tx[r].kind = kind
         /\ kind \in {"setup", "reset"} => tx[r].at = 4
         /\ kind \in {"rotate", "revoke"} => tx[r].at = 1
BY PlanLength DEF Done

LEMMA RowCases ==
  ASSUME NEW row \in Rows
  PROVE  \/ row = <<"user">>
         \/ \E s \in Sessions : row = <<"session", s>>
         \/ \E c \in Challenges : row = <<"challenge", c>> \/ row = <<"code", c>>
         \/ \E t \in Resets : row = <<"reset", t>>
BY DEF Rows

LEMMA HeldIds ==
  ASSUME TypeOK, NEW r \in Requests
  PROVE  /\ \A s \in Sessions : s \in Held(r, "session") <=> <<"session", s>> \in tx[r].held
         /\ \A c \in Challenges : c \in Held(r, "challenge") <=> <<"challenge", c>> \in tx[r].held
         /\ \A c \in Challenges : c \in Held(r, "code") <=> <<"code", c>> \in tx[r].held
         /\ \A t \in Resets : t \in Held(r, "reset") <=> <<"reset", t>> \in tx[r].held
<1>1. tx[r].held \subseteq Rows
  BY DEF TypeOK
<1>2. ASSUME NEW table \in {"session", "challenge", "code", "reset"}, NEW x \in tx[r].held, x[1] = table
      PROVE  x = <<table, x[2]>>
  BY <1>1, <1>2, RowCases
<1>3. ASSUME NEW table \in {"session", "challenge", "code", "reset"}, NEW id
      PROVE  id \in Held(r, table) <=> <<table, id>> \in tx[r].held
  BY <1>2 DEF Held
<1>. QED
  BY <1>3

LEMMA RowTables ==
  ASSUME NEW row \in Rows
  PROVE  /\ row[1] \in {"user", "session", "challenge", "code", "reset"}
         /\ row[1] = "session" => row[2] \in Sessions
BY RowCases

LEMMA NamedRows ==
  ASSUME NEW statement, NEW item, NEW other, NEW row \in Named(statement, item, other),
         statement \in {"exchange", "revokeFamily", "revokeAll", "consume", "countFailure", "closeChallenges",
           "spendCode", "deleteCodes", "spendReset", "closeResets", "user"},
         statement = "exchange" => item \in Sessions,
         statement \in {"consume", "countFailure"} => item \in Challenges,
         statement = "spendCode" => other \in Challenges,
         statement = "spendReset" => item \in Resets
  PROVE  row \in Rows /\ row[1] = Table(statement)
<1>1. row \in Rows
  BY DEF Named, Rows, Family
<1>2. row[1] = Table(statement)
  BY DEF Named, Table, Family
<1>. QED
  BY <1>1, <1>2

-------------------------------------------------------------------------------
(***************************************************************************)
(* What a step does to the transactions.                                   *)
(***************************************************************************)
TxStates == [kind : Kinds, item : Items, other : Items \union {"SETUP", "LOGIN"},
             at : 0 .. 4, todo : SUBSET Rows, held : SUBSET Rows]

Alone(r) == \A q \in Requests : q # r => tx'[q] = tx[q]

Released(r) == Alone(r) /\ tx'[r].at = 0 /\ tx'[r].todo = {} /\ tx'[r].held = {}

Step(r) == SessionStep(r) \/ ChallengeStep(r) \/ ResetStep(r) \/ StatementStep(r)

LEMMA GoesTo ==
  ASSUME TypeOK, NEW r \in Requests, NEW kind \in Kinds, NEW item \in Items,
         NEW other \in Items \union {"SETUP", "LOGIN"}, Goes(r, kind, item, other)
  PROVE  /\ tx' \in [Requests -> TxStates]
         /\ tx'[r].kind = kind /\ tx'[r].item = item /\ tx'[r].other = other
         /\ Released(r)
<1>. DEFINE new == [Idle EXCEPT !.kind = kind, !.item = item, !.other = other]
<1>1. Idle \in TxStates /\ Idle.at = 0 /\ Idle.todo = {} /\ Idle.held = {}
  BY DEF Idle, TxStates, Kinds, Items
<1>2. /\ new \in TxStates
      /\ new.kind = kind /\ new.item = item /\ new.other = other
      /\ new.at = 0 /\ new.todo = {} /\ new.held = {}
  BY <1>1 DEF TxStates
<1>3. tx \in [Requests -> TxStates]
  BY DEF TypeOK, TxStates
<1>4. tx' = [tx EXCEPT ![r] = new]
  BY DEF Goes
<1>. HIDE DEF new
<1>. QED
  BY <1>2, <1>3, <1>4 DEF Released, Alone

LEMMA EndsTo ==
  ASSUME TypeOK, NEW r \in Requests, Ends(r)
  PROVE  tx' \in [Requests -> TxStates] /\ tx'[r] = Idle /\ Released(r)
<1>1. Idle \in TxStates
  BY DEF Idle, TxStates, Kinds, Items
<1>2. tx \in [Requests -> TxStates]
  BY DEF TypeOK, TxStates
<1>. QED
  BY <1>1, <1>2 DEF Ends, Released, Alone, Idle

LEMMA LockStep ==
  ASSUME TypeOK, NEW r \in Requests, NEW row \in Rows, LockRow(r, row)
  PROVE  /\ tx' \in [Requests -> TxStates]
         /\ Alone(r)
         /\ tx'[r].kind = tx[r].kind /\ tx'[r].item = tx[r].item
         /\ tx'[r].other = tx[r].other /\ tx'[r].at = tx[r].at
         /\ tx'[r].todo = tx[r].todo \ {row}
         /\ tx'[r].held = IF Matches(Statement(r), row) THEN tx[r].held \union {row} ELSE tx[r].held
         /\ row \in tx[r].todo
         /\ \A q \in Requests : q # r => row \notin tx[q].held
<1>1. tx \in [Requests -> TxStates]
  BY DEF TypeOK, TxStates
<1>2. tx' = [tx EXCEPT ![r].todo = tx[r].todo \ {row},
                       ![r].held = IF Matches(Statement(r), row) THEN tx[r].held \union {row} ELSE tx[r].held]
  BY DEF LockRow
<1>. DEFINE held == IF Matches(Statement(r), row) THEN tx[r].held \union {row} ELSE tx[r].held
<1>3. held \in SUBSET Rows
  BY <1>1 DEF TxStates
<1>. HIDE DEF held
<1>4. tx' = [tx EXCEPT ![r] = [tx[r] EXCEPT !.todo = tx[r].todo \ {row}, !.held = held]]
  BY <1>1, <1>2 DEF held, TxStates
<1>5. [tx[r] EXCEPT !.todo = tx[r].todo \ {row}, !.held = held] \in TxStates
  BY <1>1, <1>3 DEF TxStates
<1>6. /\ row \in tx[r].todo
      /\ \A q \in Requests : q # r => row \notin tx[q].held
  BY DEF LockRow, Holders
<1>. QED
  BY <1>1, <1>4, <1>5, <1>6 DEF Alone, held, TxStates

(***************************************************************************)
(* Where each statement stands in a plan.                                  *)
(***************************************************************************)
Statements == {"exchange", "revokeFamily", "revokeAll", "consume", "countFailure", "closeChallenges",
               "spendCode", "deleteCodes", "spendReset", "closeResets", "user"}

LEMMA PlanStatements ==
  ASSUME NEW kind \in Kinds, NEW i \in 1 .. Len(Plan(kind)), NEW statement, statement = Plan(kind)[i]
  PROVE  /\ statement \in Statements /\ i \in 1 .. 4
         /\ statement = "exchange" <=> kind = "rotate"
         /\ statement = "revokeFamily" <=> kind = "revoke"
         /\ statement = "revokeAll" <=> (kind = "setup" /\ i = 4) \/ (kind = "reset" /\ i = 3)
         /\ statement = "consume" <=> kind \in {"setup", "verify"} /\ i = 1
         /\ statement = "countFailure" <=> kind = "fail"
         /\ statement = "closeChallenges" <=> kind = "login" \/ (kind = "reset" /\ i = 4)
         /\ statement = "spendCode" <=> kind = "code"
         /\ statement = "deleteCodes" <=> kind = "setup" /\ i = 3
         /\ statement = "spendReset" <=> kind = "reset" /\ i = 1
         /\ statement = "closeResets" <=> kind = "forgot"
         /\ statement = "user" <=> kind \in {"setup", "verify", "reset"} /\ i = 2
<1>1. Len(Plan(kind)) \in 0 .. 4 /\ i \in 1 .. 4
  BY PlanLength
<1>2. CASE kind \in {"idle", "enter"}
  BY <1>2, PlanLength
<1>3. CASE kind \in {"rotate", "revoke", "login", "fail", "code", "forgot"}
  BY <1>3, PlanLength, Plans DEF Statements
<1>4. CASE kind \in {"setup", "reset"}
  BY <1>1, <1>4, Plans DEF Statements
<1>5. CASE kind = "verify"
  BY <1>5, PlanLength, Plans DEF Statements
<1>. QED
  BY <1>1, <1>2, <1>3, <1>4, <1>5 DEF Kinds

LEMMA StartStep ==
  ASSUME TypeOK, RequestInv, NEW r \in Requests, StartStatement(r),
         NEW statement, statement = Plan(tx[r].kind)[tx[r].at + 1]
  PROVE  /\ tx' \in [Requests -> TxStates]
         /\ Alone(r)
         /\ tx'[r].kind = tx[r].kind /\ tx'[r].item = tx[r].item
         /\ tx'[r].other = tx[r].other /\ tx'[r].held = tx[r].held
         /\ tx'[r].at = tx[r].at + 1 /\ tx'[r].at \in 1 .. Len(Plan(tx[r].kind))
         /\ tx'[r].todo = {row \in Named(statement, tx[r].item, tx[r].other) : Matches(statement, row)}
         /\ tx[r].todo = {}
         /\ \A row \in tx'[r].todo : row \in Rows /\ row[1] = Table(statement)
<1>. DEFINE todo == {row \in Named(statement, tx[r].item, tx[r].other) : Matches(statement, row)}
<1>1. tx \in [Requests -> TxStates]
  BY DEF TypeOK, TxStates
<1>2. tx[r].kind \in Kinds /\ tx[r].at \in 0 .. 4
  BY <1>1 DEF TxStates
<1>3. tx[r].at + 1 \in 1 .. Len(Plan(tx[r].kind)) /\ Len(Plan(tx[r].kind)) \in 0 .. 4
  BY <1>2, PlanLength DEF StartStatement
<1>4. /\ statement \in Statements
      /\ statement = "exchange" => tx[r].kind = "rotate"
      /\ statement \in {"consume", "countFailure"} => tx[r].kind \in {"setup", "verify", "fail"}
      /\ statement = "spendCode" => tx[r].kind = "code"
      /\ statement = "spendReset" => tx[r].kind = "reset"
  BY <1>2, <1>3, PlanStatements
<1>5. /\ statement = "exchange" => tx[r].item \in Sessions
      /\ statement \in {"consume", "countFailure"} => tx[r].item \in Challenges
      /\ statement = "spendCode" => tx[r].other \in Challenges
      /\ statement = "spendReset" => tx[r].item \in Resets
  BY <1>4 DEF RequestInv, Found
<1>6. \A row \in Named(statement, tx[r].item, tx[r].other) : row \in Rows /\ row[1] = Table(statement)
  BY <1>4, <1>5, NamedRows DEF Statements
<1>7. todo \in SUBSET Rows
  BY <1>6
<1>8. tx' = [tx EXCEPT ![r].at = tx[r].at + 1, ![r].todo = todo]
  BY DEF StartStatement
<1>. HIDE DEF todo
<1>9. tx' = [tx EXCEPT ![r] = [tx[r] EXCEPT !.at = tx[r].at + 1, !.todo = todo]]
  BY <1>1, <1>8 DEF TxStates
<1>10. [tx[r] EXCEPT !.at = tx[r].at + 1, !.todo = todo] \in TxStates
  <2>1. tx[r].at + 1 \in 0 .. 4
    BY <1>2, <1>3
  <2>. QED
    BY <1>1, <1>7, <2>1 DEF TxStates
<1>11. tx[r].todo = {}
  BY DEF StartStatement
<1>. QED
  BY <1>1, <1>3, <1>6, <1>9, <1>10, <1>11 DEF Alone, todo, TxStates

(***************************************************************************)
(* Which actions write what, and what a step makes of its transaction.     *)
(***************************************************************************)
LEMMA Writers ==
  ASSUME NEW r \in Requests, Step(r)
  PROVE  /\ \/ session' = session
            \/ CommitRotation(r) \/ CommitRevocation(r) \/ CommitSetup(r) \/ CommitReset(r) \/ Enter(r)
         /\ \/ challenge' = challenge
            \/ CommitLogin(r) \/ CommitFailure(r) \/ CommitSetup(r) \/ CommitVerification(r)
            \/ CommitReset(r)
         /\ codes' = codes \/ CommitCode(r) \/ CommitSetup(r)
         /\ reset' = reset \/ CommitForgot(r) \/ CommitReset(r)
         /\ enrolled' = enrolled \/ CommitSetup(r)
         /\ version' = version \/ CommitSetup(r) \/ CommitReset(r)
         /\ ended' = ended \/ CommitRevocation(r)
         /\ late' = late \/ CommitRotation(r) \/ Enter(r)
         /\ since' = since \/ CommitRotation(r) \/ Enter(r) \/ CommitSetup(r) \/ CommitVerification(r)
         /\ applied' = applied \/ CommitSetup(r) \/ CommitVerification(r) \/ CommitReset(r)
<1>1. CASE SessionStep(r)
  BY <1>1 DEF SessionStep, Rotate, Logout, Arrives, CommitRotation, RotationMissed, CommitRevocation,
              rows, history
<1>2. CASE ChallengeStep(r)
  BY <1>2 DEF ChallengeStep, Login, Arrives, CommitLogin, Verify, CommitFailure, CommitCode, CodeMissed,
              CommitSetup, CommitVerification, CompletionMissed, Enter, rows, history
<1>3. CASE ResetStep(r)
  BY <1>3 DEF ResetStep, Forgot, Arrives, CommitForgot, ResetPassword, CommitReset, ResetMissed, rows, history
<1>4. CASE StatementStep(r)
  BY <1>4 DEF StatementStep, StartStatement, LockRow, DeadlockVictim, rows, history
<1>. QED
  BY <1>1, <1>2, <1>3, <1>4 DEF Step

LEMMA Moves ==
  ASSUME TypeOK, RequestInv, NEW r \in Requests, Step(r)
  PROVE  /\ tx' \in [Requests -> TxStates]
         /\ Released(r) \/ StartStatement(r) \/ (\E row \in Rows : LockRow(r, row))
<1>. DEFINE Free == tx' \in [Requests -> TxStates] /\ Released(r)
<1>1. Ends(r) => Free
  BY EndsTo
<1>2. ASSUME NEW kind \in Kinds, NEW item \in Items, NEW other \in Items \union {"SETUP", "LOGIN"},
             Goes(r, kind, item, other)
      PROVE  Free
  BY <1>2, GoesTo
<1>3. tx[r].item \in Items /\ None \in Items
  BY DEF TypeOK, Items
<1>. HIDE DEF Free
<1>4. CASE SessionStep(r)
  <2>1. ASSUME NEW s \in Sessions, Rotate(r, s) \/ Logout(r, s)
        PROVE  Free
    BY <1>2, <1>3, <2>1 DEF Rotate, Logout, Kinds, Items
  <2>2. CommitRotation(r) \/ CommitRevocation(r) => Free
    BY <1>1 DEF CommitRotation, CommitRevocation
  <2>3. RotationMissed(r) => Free
    BY <1>2, <1>3 DEF RotationMissed, Kinds
  <2>. QED
    BY <1>4, <2>1, <2>2, <2>3 DEF SessionStep, Free
<1>5. CASE ChallengeStep(r)
  <2>1. Login(r) => Free
    BY <1>2, <1>3 DEF Login, Kinds
  <2>2. ASSUME NEW c \in Challenges, Verify(r, c)
        PROVE  Free
    <3>1. c \in Items /\ Challenges \subseteq Items
      BY DEF Items
    <3>2. Goes(r, "fail", c, None) => Free
      BY <1>2, <1>3, <3>1 DEF Kinds
    <3>3. Goes(r, Completion(c), c, None) => Free
      BY <1>2, <1>3, <3>1 DEF Kinds, Completion
    <3>4. (\E setup \in Challenges : Goes(r, "code", c, setup)) => Free
      BY <1>2, <3>1 DEF Kinds
    <3>. QED
      BY <2>2, <3>2, <3>3, <3>4 DEF Verify
  <2>3. CommitLogin(r) \/ CommitFailure(r) \/ CompletionMissed(r) \/ Enter(r) => Free
    BY <1>1 DEF CommitLogin, CommitFailure, CompletionMissed, Enter
  <2>4. CommitCode(r) \/ CodeMissed(r) \/ CommitSetup(r) \/ CommitVerification(r) => Free
    BY <1>2, <1>3 DEF CommitCode, CodeMissed, CommitSetup, CommitVerification, Kinds
  <2>. QED
    BY <1>5, <2>1, <2>2, <2>3, <2>4 DEF ChallengeStep, Free
<1>6. CASE ResetStep(r)
  <2>1. Forgot(r) => Free
    BY <1>2, <1>3 DEF Forgot, Kinds
  <2>2. ASSUME NEW t \in Resets, ResetPassword(r, t)
        PROVE  Free
    BY <1>2, <1>3, <2>2 DEF ResetPassword, Kinds, Items
  <2>3. CommitForgot(r) \/ CommitReset(r) \/ ResetMissed(r) => Free
    BY <1>1 DEF CommitForgot, CommitReset, ResetMissed
  <2>. QED
    BY <1>6, <2>1, <2>2, <2>3 DEF ResetStep, Free
<1>7. CASE StatementStep(r)
  <2>1. DeadlockVictim(r) => Free
    BY <1>1 DEF DeadlockVictim
  <2>2. StartStatement(r) => tx' \in [Requests -> TxStates]
    BY StartStep
  <2>3. ASSUME NEW row \in Rows, LockRow(r, row)
        PROVE  tx' \in [Requests -> TxStates]
    BY <2>3, LockStep
  <2>. QED
    BY <1>7, <2>1, <2>2, <2>3 DEF StatementStep, Free
<1>. QED
  BY <1>4, <1>5, <1>6, <1>7 DEF Step

-------------------------------------------------------------------------------
(***************************************************************************)
(* What a step writes.                                                     *)
(***************************************************************************)
Core == TypeOK /\ RequestInv /\ PlaceInv /\ TableInv /\ Exclusive /\ HeldInv /\ RowInv /\ UserInv

SessionRows == [family : Sessions \union {None}, used : BOOLEAN, revoked : BOOLEAN]
ChallengeRows == [type : {"SETUP", "LOGIN", None}, consumed : BOOLEAN, failed : Nat]

LEMMA RevokedRows ==
  ASSUME TypeOK, NEW r \in Requests
  PROVE  /\ Revoked(r) \in [Sessions -> SessionRows]
         /\ \A s \in Sessions :
              /\ Revoked(r)[s].family = session[s].family
              /\ Revoked(r)[s].used = session[s].used
              /\ <<"session", s>> \in tx[r].held => Revoked(r)[s].revoked
              /\ <<"session", s>> \notin tx[r].held => Revoked(r)[s] = session[s]
<1>1. session \in [Sessions -> SessionRows]
  BY DEF TypeOK, SessionRows
<1>2. ASSUME NEW s \in Sessions
      PROVE  /\ Revoked(r)[s] = IF <<"session", s>> \in tx[r].held
                                  THEN [session[s] EXCEPT !.revoked = TRUE] ELSE session[s]
             /\ [session[s] EXCEPT !.revoked = TRUE] \in SessionRows
  BY <1>1, HeldIds DEF Revoked, SessionRows
<1>3. Revoked(r) \in [Sessions -> SessionRows]
  <2>1. Revoked(r) = [s \in Sessions |-> Revoked(r)[s]]
    BY DEF Revoked
  <2>2. \A s \in Sessions : Revoked(r)[s] \in SessionRows
    BY <1>1, <1>2
  <2>. QED
    BY <2>1, <2>2
<1>. QED
  BY <1>1, <1>2, <1>3 DEF SessionRows

LEMMA ClosedRows ==
  ASSUME TypeOK, NEW r \in Requests
  PROVE  /\ Closed(r) \in [Challenges -> ChallengeRows]
         /\ \A c \in Challenges :
              /\ Closed(r)[c].type = challenge[c].type
              /\ Closed(r)[c].failed = challenge[c].failed
              /\ <<"challenge", c>> \in tx[r].held => Closed(r)[c].consumed
              /\ <<"challenge", c>> \notin tx[r].held => Closed(r)[c] = challenge[c]
<1>1. challenge \in [Challenges -> ChallengeRows]
  BY DEF TypeOK, ChallengeRows
<1>2. ASSUME NEW c \in Challenges
      PROVE  /\ Closed(r)[c] = IF <<"challenge", c>> \in tx[r].held
                                 THEN [challenge[c] EXCEPT !.consumed = TRUE] ELSE challenge[c]
             /\ [challenge[c] EXCEPT !.consumed = TRUE] \in ChallengeRows
  BY <1>1, HeldIds DEF Closed, ChallengeRows
<1>3. Closed(r) \in [Challenges -> ChallengeRows]
  <2>1. Closed(r) = [c \in Challenges |-> Closed(r)[c]]
    BY DEF Closed
  <2>2. \A c \in Challenges : Closed(r)[c] \in ChallengeRows
    BY <1>1, <1>2
  <2>. QED
    BY <2>1, <2>2
<1>. QED
  BY <1>1, <1>2, <1>3 DEF ChallengeRows

(***************************************************************************)
(* The row that decides whether a transaction goes on is held at its end.  *)
(***************************************************************************)
LEMMA ClaimHeld ==
  ASSUME TypeOK, RequestInv, NEW r \in Requests
  PROVE  /\ Done(r, "rotate") => <<"session", tx[r].item>> \in tx[r].held /\ tx[r].item \in Sessions
         /\ Done(r, "setup") \/ Done(r, "verify") =>
              <<"challenge", tx[r].item>> \in tx[r].held /\ tx[r].item \in Challenges
         /\ Done(r, "code") => <<"code", tx[r].other>> \in tx[r].held /\ tx[r].other \in Challenges
         /\ Done(r, "reset") => <<"reset", tx[r].item>> \in tx[r].held /\ tx[r].item \in Resets
BY DEF Done, Claim, RequestInv, Found

SessionWritten(r) ==
  /\ session' \in [Sessions -> SessionRows]
  /\ \A s \in Sessions :
       /\ session'[s] = session[s] \/ <<"session", s>> \in tx[r].held \/ session[s].family = None
       /\ session[s].family # None =>
            /\ session'[s].family = session[s].family
            /\ session[s].revoked => session'[s].revoked
            /\ session[s].used => session'[s].used
       /\ session'[s].used # session[s].used => session[s].family # None /\ ~session[s].revoked
       /\ session[s].family = None =>
            \/ session'[s] = session[s]
            \/ /\ session'[s].family \in Sessions
               /\ \/ session'[s].family = s
                  \/ \E u \in Sessions : session[u].family = session'[s].family

LEMMA RotationWrites ==
  ASSUME Core, NEW r \in Requests, CommitRotation(r)
  PROVE  \E new \in FreeSessions :
           /\ new # tx[r].item /\ tx[r].item \in Sessions /\ tx[r].kind = "rotate"
           /\ <<"session", tx[r].item>> \in tx[r].held
           /\ session[tx[r].item].family \in Sessions
           /\ ~session[tx[r].item].used /\ ~session[tx[r].item].revoked
           /\ session'[tx[r].item] = [session[tx[r].item] EXCEPT !.used = TRUE]
           /\ session'[new] = [NoSession EXCEPT !.family = session[tx[r].item].family]
           /\ \A s \in Sessions \ {tx[r].item, new} : session'[s] = session[s]
           /\ since' = [since EXCEPT ![new] = since[tx[r].item]]
           /\ late' = IF tx[r].item \in late \/ (\E q \in Requests : tx[r].item \in Covered(q))
                        THEN late \union {new} ELSE late
           /\ session' \in [Sessions -> SessionRows]
<1>. DEFINE s == tx[r].item
<1>1. s \in Sessions /\ <<"session", s>> \in tx[r].held /\ tx[r].kind = "rotate"
  BY ClaimHeld DEF CommitRotation, Core, Done
<1>2. Live(s) /\ ~session[s].used
  BY <1>1 DEF Core, HeldInv, AsLocked
<1>3. session \in [Sessions -> SessionRows]
  BY DEF Core, TypeOK, SessionRows
<1>4. PICK new \in FreeSessions :
        /\ session' = [session EXCEPT ![s].used = TRUE, ![new] = [NoSession EXCEPT !.family = session[s].family]]
        /\ since' = [since EXCEPT ![new] = since[s]]
        /\ late' = IF s \in late \/ (\E q \in Requests : s \in Covered(q))
                     THEN late \union {new} ELSE late
  BY DEF CommitRotation
<1>5. new \in Sessions /\ new # s
  BY <1>2, <1>4 DEF FreeSessions, Live
<1>6. [session[s] EXCEPT !.used = TRUE] \in SessionRows /\ session[s].family \in Sessions
  BY <1>1, <1>2, <1>3 DEF SessionRows, Live
<1>7. [NoSession EXCEPT !.family = session[s].family] \in SessionRows
  BY <1>6 DEF SessionRows, NoSession
<1>8. session' = [session EXCEPT ![s] = [session[s] EXCEPT !.used = TRUE],
                                 ![new] = [NoSession EXCEPT !.family = session[s].family]]
  BY <1>1, <1>3, <1>4
<1>9. /\ session'[s] = [session[s] EXCEPT !.used = TRUE]
      /\ session'[new] = [NoSession EXCEPT !.family = session[s].family]
      /\ \A u \in Sessions \ {s, new} : session'[u] = session[u]
      /\ session' \in [Sessions -> SessionRows]
  BY <1>1, <1>3, <1>5, <1>6, <1>7, <1>8
<1>. QED
  BY <1>1, <1>2, <1>4, <1>5, <1>6, <1>9 DEF Live

LEMMA EnterWrites ==
  ASSUME Core, NEW r \in Requests, Enter(r)
  PROVE  \E new \in FreeSessions :
           /\ session'[new] = [NoSession EXCEPT !.family = new]
           /\ \A s \in Sessions \ {new} : session'[s] = session[s]
           /\ since' = [since EXCEPT ![new] = since[tx[r].item]]
           /\ late' = IF since[tx[r].item] # version \/ (\E q \in Requests : RevokesAll(q))
                        THEN late \union {new} ELSE late
           /\ session' \in [Sessions -> SessionRows]
<1>1. session \in [Sessions -> SessionRows]
  BY DEF Core, TypeOK, SessionRows
<1>2. PICK new \in FreeSessions :
        /\ session' = [session EXCEPT ![new].family = new]
        /\ since' = [since EXCEPT ![new] = since[tx[r].item]]
        /\ late' = IF since[tx[r].item] # version \/ (\E q \in Requests : RevokesAll(q))
                     THEN late \union {new} ELSE late
  BY DEF Enter
<1>3. new \in Sessions /\ session[new] = NoSession
  BY <1>2 DEF FreeSessions, Core, RowInv
<1>4. [NoSession EXCEPT !.family = new] \in SessionRows
  BY <1>3 DEF SessionRows, NoSession
<1>. QED
  BY <1>1, <1>2, <1>3, <1>4

LEMMA SessionWrites ==
  ASSUME Core, NEW r \in Requests, Step(r)
  PROVE  SessionWritten(r)
<1>1. session \in [Sessions -> SessionRows]
  BY DEF Core, TypeOK, SessionRows
<1>2. CASE session' = session
  BY <1>1, <1>2 DEF SessionWritten
<1>3. CASE CommitRotation(r)
  <2>1. PICK new \in FreeSessions :
          /\ tx[r].item \in Sessions /\ <<"session", tx[r].item>> \in tx[r].held
          /\ session[tx[r].item].family \in Sessions
          /\ ~session[tx[r].item].revoked
          /\ session'[tx[r].item] = [session[tx[r].item] EXCEPT !.used = TRUE]
          /\ session'[new] = [NoSession EXCEPT !.family = session[tx[r].item].family]
          /\ \A s \in Sessions \ {tx[r].item, new} : session'[s] = session[s]
          /\ session' \in [Sessions -> SessionRows]
    BY <1>3, RotationWrites
  <2>2. /\ new \in Sessions /\ session[new].family = None /\ session[new].used = FALSE
        /\ session'[new].used = FALSE
        /\ session'[new].family = session[tx[r].item].family
    BY <2>1 DEF FreeSessions, Core, RowInv, NoSession
  <2>3. /\ session[tx[r].item].family # None
        /\ session'[tx[r].item].family = session[tx[r].item].family
        /\ session'[tx[r].item].revoked = session[tx[r].item].revoked
        /\ session'[tx[r].item].used
    <3>1. session[tx[r].item] \in SessionRows
      BY <1>1, <2>1
    <3>. QED
      BY <2>1, <3>1, AccountAssumption DEF SessionRows
  <2>4. ASSUME NEW s \in Sessions
        PROVE  /\ session'[s] = session[s] \/ <<"session", s>> \in tx[r].held \/ session[s].family = None
               /\ session[s].family # None =>
                    /\ session'[s].family = session[s].family
                    /\ session[s].revoked => session'[s].revoked
                    /\ session[s].used => session'[s].used
               /\ session'[s].used # session[s].used => session[s].family # None /\ ~session[s].revoked
               /\ session[s].family = None =>
                    \/ session'[s] = session[s]
                    \/ /\ session'[s].family \in Sessions
                       /\ \E u \in Sessions : session[u].family = session'[s].family
    <3>1. CASE s = tx[r].item
      BY <2>1, <2>3, <3>1
    <3>2. CASE s = new
      BY <2>1, <2>2, <3>2
    <3>3. CASE s \notin {tx[r].item, new}
      BY <2>1, <3>3
    <3>. QED
      BY <3>1, <3>2, <3>3
  <2>. QED
    BY <2>1, <2>4 DEF SessionWritten
<1>4. CASE session' = Revoked(r)
  <2>1. \A s \in Sessions : session[s].family = None => <<"session", s>> \notin tx[r].held
    BY DEF Core, HeldInv, AsLocked, Live
  <2>. QED
    BY <1>4, <2>1, RevokedRows DEF SessionWritten, Core
<1>5. CASE Enter(r)
  <2>1. PICK new \in FreeSessions :
          /\ session'[new] = [NoSession EXCEPT !.family = new]
          /\ \A s \in Sessions \ {new} : session'[s] = session[s]
          /\ session' \in [Sessions -> SessionRows]
    BY <1>5, EnterWrites
  <2>2. /\ new \in Sessions /\ session[new].family = None /\ session[new].used = FALSE
        /\ session'[new].used = FALSE /\ session'[new].family = new
    BY <2>1 DEF FreeSessions, Core, RowInv, NoSession
  <2>. QED
    BY <2>1, <2>2 DEF SessionWritten
<1>6. CommitRevocation(r) \/ CommitSetup(r) \/ CommitReset(r) => session' = Revoked(r)
  BY DEF CommitRevocation, CommitSetup, CommitReset
<1>. QED
  BY <1>2, <1>3, <1>4, <1>5, <1>6, Writers

ChallengeWritten(r) ==
  /\ challenge' \in [Challenges -> ChallengeRows]
  /\ \A c \in Challenges :
       /\ challenge'[c] = challenge[c] \/ <<"challenge", c>> \in tx[r].held \/ challenge[c].type = None
       /\ challenge[c].type # None =>
            /\ challenge'[c].type = challenge[c].type
            /\ challenge[c].consumed => challenge'[c].consumed
       /\ \/ challenge'[c].failed <= challenge[c].failed
          \/ CommitFailure(r) /\ c = tx[r].item /\ challenge'[c].failed = challenge[c].failed + 1

LEMMA FailureWrites ==
  ASSUME Core, NEW r \in Requests, CommitFailure(r)
  PROVE  ChallengeWritten(r)
<1>. DEFINE c == tx[r].item
            closes == challenge[c].consumed \/ Exhausted(challenge[c].failed + 1)
<1>1. challenge \in [Challenges -> ChallengeRows]
  BY DEF Core, TypeOK, ChallengeRows
<1>2. c \in Challenges /\ <<"challenge", c>> \in tx[r].held
  BY DEF Core, RequestInv, Found, UserInv, LocksByName, CommitFailure, Done, Locking, Plan
<1>3. PICK after \in BOOLEAN : after = closes
  OBVIOUS
<1>4. challenge[c].consumed => after
  BY <1>3
<1>. DEFINE row == [challenge[c] EXCEPT !.failed = challenge[c].failed + 1, !.consumed = after]
<1>7. challenge' = [challenge EXCEPT ![c] = row]
  <2>1. challenge' = [challenge EXCEPT ![c].failed = challenge[c].failed + 1, ![c].consumed = closes]
    BY DEF CommitFailure
  <2>. HIDE DEF closes
  <2>. QED
    BY <1>1, <1>2, <1>3, <2>1
<1>. HIDE DEF closes
<1>5. row \in ChallengeRows
  <2>1. challenge[c] \in ChallengeRows /\ challenge[c].failed + 1 \in Nat /\ after \in BOOLEAN
    BY <1>1, <1>2, <1>3 DEF ChallengeRows
  <2>. QED
    BY <2>1 DEF ChallengeRows
<1>6. /\ row.type = challenge[c].type /\ row.failed = challenge[c].failed + 1
      /\ challenge[c].consumed => row.consumed
  BY <1>1, <1>2, <1>4 DEF ChallengeRows
<1>. HIDE DEF row
<1>. QED
  BY <1>1, <1>2, <1>5, <1>6, <1>7 DEF ChallengeWritten, ChallengeRows

LEMMA LoginWrites ==
  ASSUME Core, NEW r \in Requests, CommitLogin(r)
  PROVE  ChallengeWritten(r)
<1>1. PICK c \in Challenges :
        /\ challenge[c].type = None
        /\ challenge' = [Closed(r) EXCEPT ![c] = [NoChallenge EXCEPT !.type = tx[r].other]]
  BY DEF CommitLogin
<1>2. tx[r].other \in {"SETUP", "LOGIN"}
  BY DEF CommitLogin, Done, Core, RequestInv, Found
<1>3. [NoChallenge EXCEPT !.type = tx[r].other] \in ChallengeRows /\ [NoChallenge EXCEPT !.type = tx[r].other].failed = 0
  BY <1>2 DEF ChallengeRows, NoChallenge
<1>4. challenge \in [Challenges -> ChallengeRows]
  BY DEF Core, TypeOK, ChallengeRows
<1>5. /\ Closed(r) \in [Challenges -> ChallengeRows]
      /\ \A d \in Challenges :
           /\ Closed(r)[d].type = challenge[d].type
           /\ Closed(r)[d].failed = challenge[d].failed
           /\ <<"challenge", d>> \in tx[r].held => Closed(r)[d].consumed
           /\ <<"challenge", d>> \notin tx[r].held => Closed(r)[d] = challenge[d]
  BY ClosedRows DEF Core
<1>6. ASSUME NEW d \in Challenges, d # c
      PROVE  challenge'[d] = Closed(r)[d]
  BY <1>1, <1>5, <1>6
<1>7. challenge' \in [Challenges -> ChallengeRows] /\ challenge'[c].failed = 0
  BY <1>1, <1>3, <1>5
<1>8. \A d \in Challenges : challenge[d].failed \in Nat
  BY <1>4 DEF ChallengeRows
<1>. QED
  BY <1>1, <1>5, <1>6, <1>7, <1>8 DEF ChallengeWritten

LEMMA ChallengeWrites ==
  ASSUME Core, NEW r \in Requests, Step(r)
  PROVE  ChallengeWritten(r)
<1>1. challenge \in [Challenges -> ChallengeRows]
  BY DEF Core, TypeOK, ChallengeRows
<1>2. \A c \in Challenges : challenge[c].failed \in Nat
  BY <1>1 DEF ChallengeRows
<1>3. CASE challenge' = challenge
  BY <1>1, <1>2, <1>3 DEF ChallengeWritten
<1>4. CASE challenge' = Closed(r)
  BY <1>2, <1>4, ClosedRows DEF ChallengeWritten, Core
<1>5. CommitSetup(r) \/ CommitVerification(r) \/ CommitReset(r) => challenge' = Closed(r)
  BY DEF CommitSetup, CommitVerification, CommitReset
<1>. QED
  BY <1>3, <1>4, <1>5, FailureWrites, LoginWrites, Writers

LEMMA SetupClaim ==
  ASSUME Core, NEW r \in Requests, CommitSetup(r)
  PROVE  /\ tx[r].item \in Challenges /\ <<"challenge", tx[r].item>> \in tx[r].held
         /\ challenge[tx[r].item].type = "SETUP" /\ ~challenge[tx[r].item].consumed
         /\ codes[tx[r].item] = "ABSENT" /\ applied[tx[r].item] = 0
         /\ tx[r].kind = "setup" /\ tx[r].at = 4 /\ <<"user">> \in tx[r].held
<1>1. tx[r].item \in Challenges /\ <<"challenge", tx[r].item>> \in tx[r].held /\ tx[r].kind = "setup"
  BY ClaimHeld DEF CommitSetup, Core, Done
<1>2. Open(tx[r].item) /\ challenge[tx[r].item].type = "SETUP"
  BY <1>1 DEF Core, HeldInv, AsLocked, RequestInv, Found
<1>3. codes[tx[r].item] = "ABSENT" /\ applied[tx[r].item] = 0
  BY <1>1, <1>2 DEF Core, RowInv, Open
<1>4. tx[r].at = 4
  BY Plans DEF CommitSetup, Done
<1>5. <<"user">> \in tx[r].held
  BY <1>1, <1>4 DEF Core, UserInv, LocksByName
<1>. QED
  BY <1>1, <1>2, <1>3, <1>4, <1>5 DEF Open

CodesWritten(r) ==
  /\ codes' \in [Challenges -> {"ABSENT", "FRESH", "USED"}]
  /\ \A c \in Challenges :
       /\ codes'[c] = codes[c] \/ <<"code", c>> \in tx[r].held \/ codes[c] = "ABSENT"
       /\ codes'[c] # "ABSENT" => codes[c] # "ABSENT" \/ (CommitSetup(r) /\ c = tx[r].item)

LEMMA CodesWrites ==
  ASSUME Core, NEW r \in Requests, Step(r)
  PROVE  CodesWritten(r)
<1>1. codes \in [Challenges -> {"ABSENT", "FRESH", "USED"}]
  BY DEF Core, TypeOK
<1>2. CASE codes' = codes
  BY <1>1, <1>2 DEF CodesWritten
<1>3. CASE CommitCode(r)
  <2>1. tx[r].other \in Challenges /\ <<"code", tx[r].other>> \in tx[r].held
    BY <1>3, ClaimHeld DEF CommitCode, Core
  <2>2. codes[tx[r].other] # "ABSENT"
    BY <2>1 DEF Core, HeldInv, AsLocked
  <2>. QED
    BY <1>1, <1>3, <2>1, <2>2 DEF CommitCode, CodesWritten
<1>4. CASE CommitSetup(r)
  BY <1>1, <1>4, SetupClaim, HeldIds DEF CommitSetup, CodesWritten, Core
<1>. QED
  BY <1>2, <1>3, <1>4, Writers

ResetWritten(r) ==
  /\ reset' \in [Resets -> {"ABSENT", "OPEN", "USED"}]
  /\ \A t \in Resets :
       /\ reset'[t] = reset[t] \/ <<"reset", t>> \in tx[r].held \/ reset[t] = "ABSENT"
       /\ reset[t] = "USED" => reset'[t] = "USED"

LEMMA ResetWrites ==
  ASSUME Core, NEW r \in Requests, Step(r)
  PROVE  ResetWritten(r)
<1>1. reset \in [Resets -> {"ABSENT", "OPEN", "USED"}]
  BY DEF Core, TypeOK
<1>2. CASE reset' = reset
  BY <1>1, <1>2 DEF ResetWritten
<1>3. CASE CommitForgot(r)
  BY <1>1, <1>3, HeldIds DEF CommitForgot, ResetWritten, Core
<1>4. CASE CommitReset(r)
  BY <1>1, <1>4, ClaimHeld DEF CommitReset, ResetWritten, Core
<1>. QED
  BY <1>2, <1>3, <1>4, Writers

LEMMA OthersStay ==
  ASSUME TypeOK, RequestInv, NEW r \in Requests, Step(r)
  PROVE  Alone(r)
<1>1. StartStatement(r) => Alone(r)
  BY StartStep
<1>2. ASSUME NEW row \in Rows, LockRow(r, row)
      PROVE  Alone(r)
  BY <1>2, LockStep
<1>. QED
  BY <1>1, <1>2, Moves DEF Released

-------------------------------------------------------------------------------
(***************************************************************************)
(* Locks: one holder per row, rows of the plan, as they were when locked.  *)
(***************************************************************************)
LEMMA ExclusiveStep ==
  ASSUME Core, NEW r \in Requests, Step(r)
  PROVE  Exclusive'
<1>1. Exclusive
  BY DEF Core
<1>2. CASE Released(r)
  BY <1>1, <1>2 DEF Exclusive, Released, Alone
<1>3. CASE StartStatement(r)
  BY <1>1, <1>3, StartStep DEF Exclusive, Alone, Core
<1>4. ASSUME NEW row \in Rows, LockRow(r, row)
      PROVE  Exclusive'
  <2>1. /\ \A q \in Requests : q # r => tx'[q] = tx[q] /\ row \notin tx[q].held
        /\ tx'[r].held \subseteq tx[r].held \union {row}
    BY <1>4, LockStep DEF Alone, Core
  <2>. QED
    BY <1>1, <2>1 DEF Exclusive
<1>. QED
  BY <1>2, <1>3, <1>4, Moves DEF Core

LEMMA PlaceStep ==
  ASSUME Core, NEW r \in Requests, Step(r)
  PROVE  PlaceInv'
<1>. SUFFICES ASSUME NEW q \in Requests
              PROVE  Placed(q)'
  BY DEF PlaceInv
<1>1. TypeOK /\ RequestInv /\ Placed(q) /\ Found(q)
  BY DEF Core, PlaceInv, RequestInv
<1>2. CASE q # r
  <2>1. tx'[q] = tx[q]
    BY <1>2, OthersStay DEF Core, Alone
  <2>2. ASSUME NEW s \in Sessions, tx[q].kind = "revoke", s \in Family(tx[q].item)
        PROVE  s \in Family(tx[q].item)'
    BY <1>1, <2>1, <2>2, SessionWrites DEF Family, Found, SessionWritten
  <2>. QED
    BY <1>1, <2>1, <2>2 DEF Placed, Locking
<1>3. CASE q = r /\ Released(r)
  BY <1>3 DEF Placed, Locking, Released
<1>4. CASE q = r /\ StartStatement(r)
  <2>0. PICK kind, item, other : kind = tx[r].kind /\ item = tx[r].item /\ other = tx[r].other
    OBVIOUS
  <2>1. PICK at \in 1 .. Len(Plan(kind)) : at = tx'[r].at /\ at = tx[r].at + 1
    BY <1>1, <1>4, <2>0, StartStep
  <2>2. PICK statement : statement = Plan(kind)[tx[r].at + 1]
    OBVIOUS
  <2>3. /\ tx'[r].kind = kind /\ tx'[r].item = item /\ tx'[r].other = other
        /\ tx'[r].held = tx[r].held /\ tx[r].todo = {}
        /\ tx'[r].todo \subseteq Named(statement, item, other)
    BY <1>1, <1>4, <2>0, <2>2, StartStep
  <2>4. kind \in Kinds /\ tx[r].at \in 0 .. 4
    BY <1>1, <2>0 DEF TypeOK
  <2>5. /\ statement \in Statements /\ at \in 1 .. 4
        /\ statement = "exchange" <=> kind = "rotate"
        /\ statement = "revokeFamily" <=> kind = "revoke"
        /\ statement = "revokeAll" <=> (kind = "setup" /\ at = 4) \/ (kind = "reset" /\ at = 3)
        /\ statement = "consume" <=> kind \in {"setup", "verify"} /\ at = 1
        /\ statement = "countFailure" <=> kind = "fail"
        /\ statement = "closeChallenges" <=> kind = "login" \/ (kind = "reset" /\ at = 4)
        /\ statement = "spendCode" <=> kind = "code"
        /\ statement = "deleteCodes" <=> kind = "setup" /\ at = 3
        /\ statement = "spendReset" <=> kind = "reset" /\ at = 1
        /\ statement = "closeResets" <=> kind = "forgot"
        /\ statement = "user" <=> kind \in {"setup", "verify", "reset"} /\ at = 2
    BY <2>1, <2>2, <2>4, PlanStatements
  <2>6. session' = session
    BY <1>4 DEF StartStatement, rows
  <2>7. ASSUME NEW s \in Sessions, <<"session", s>> \in Named(statement, item, other)
        PROVE  \/ kind = "rotate" /\ s = item
               \/ kind = "revoke" /\ s \in Family(item)'
               \/ kind = "setup" /\ at = 4
               \/ kind = "reset" /\ at >= 3
    BY <2>5, <2>6, <2>7 DEF Named, Statements, Family
  <2>8. ASSUME NEW c \in Challenges, <<"challenge", c>> \in Named(statement, item, other)
        PROVE  \/ kind \in {"fail", "setup", "verify"} /\ c = item
               \/ kind = "login"
               \/ kind = "reset" /\ at = 4
    BY <2>5, <2>8 DEF Named, Statements
  <2>9. ASSUME NEW c \in Challenges, <<"code", c>> \in Named(statement, item, other)
        PROVE  (kind = "code" /\ c = other) \/ (kind = "setup" /\ at >= 3)
    BY <2>5, <2>9 DEF Named, Statements
  <2>10. ASSUME NEW t \in Resets, <<"reset", t>> \in Named(statement, item, other)
         PROVE  kind = "forgot" \/ (kind = "reset" /\ t = item)
    BY <2>5, <2>10 DEF Named, Statements
  <2>11. <<"user">> \in Named(statement, item, other) => kind \in {"setup", "verify", "reset"} /\ at >= 2
    BY <2>5 DEF Named, Statements
  <2>12. \A x : x \in tx'[r].todo \union tx'[r].held => x \in Named(statement, item, other) \/ x \in tx[r].held
    BY <2>3
  <2>13. \A s \in Sessions : s \in Family(tx[r].item) => s \in Family(item)'
    BY <2>0, <2>6 DEF Family
  <2>14. at \in 1 .. 4 /\ tx[r].at = at - 1
    BY <2>1, <2>4, <2>5
  <2>15. ASSUME NEW s \in Sessions, Locking(r, "session", s)'
         PROVE  \/ kind = "rotate" /\ s = item
                \/ kind = "revoke" /\ s \in Family(item)'
                \/ kind = "setup" /\ at = 4
                \/ kind = "reset" /\ at >= 3
    BY <1>1, <1>4, <2>0, <2>7, <2>12, <2>13, <2>14, <2>15 DEF Placed, Locking
  <2>16. ASSUME NEW c \in Challenges, Locking(r, "challenge", c)'
         PROVE  \/ kind \in {"fail", "setup", "verify"} /\ c = item
                \/ kind = "login"
                \/ kind = "reset" /\ at = 4
    BY <1>1, <1>4, <2>0, <2>8, <2>12, <2>14, <2>16 DEF Placed, Locking
  <2>17. ASSUME NEW c \in Challenges, Locking(r, "code", c)'
         PROVE  (kind = "code" /\ c = other) \/ (kind = "setup" /\ at >= 3)
    BY <1>1, <1>4, <2>0, <2>9, <2>12, <2>14, <2>17 DEF Placed, Locking
  <2>18. ASSUME NEW t \in Resets, Locking(r, "reset", t)'
         PROVE  kind = "forgot" \/ (kind = "reset" /\ t = item)
    BY <1>1, <1>4, <2>0, <2>10, <2>12, <2>18 DEF Placed, Locking
  <2>19. <<"user">> \in tx'[r].todo \union tx'[r].held => kind \in {"setup", "verify", "reset"} /\ at >= 2
    BY <1>1, <1>4, <2>0, <2>11, <2>12, <2>14 DEF Placed
  <2>20. Family(tx[r].item)' = Family(item)'
    BY <2>3
  <2>. QED
    BY <1>4, <2>1, <2>3, <2>15, <2>16, <2>17, <2>18, <2>19, <2>20 DEF Placed
<1>5. ASSUME q = r, NEW row \in Rows, LockRow(r, row)
      PROVE  Placed(q)'
  <2>0. /\ tx'[r].kind = tx[r].kind /\ tx'[r].item = tx[r].item
        /\ tx'[r].other = tx[r].other /\ tx'[r].at = tx[r].at
        /\ tx'[r].todo = tx[r].todo \ {row} /\ row \in tx[r].todo
        /\ tx'[r].held \subseteq tx[r].held \union {row}
    BY <1>1, <1>5, LockStep
  <2>1. session' = session
    BY <1>5 DEF LockRow, rows
  <2>2. \A x : x \in tx'[r].todo \union tx'[r].held => x \in tx[r].todo \union tx[r].held
    BY <1>1, <1>5, <2>0
  <2>3. \A s \in Sessions : s \in Family(tx[r].item) => s \in Family(tx[r].item)'
    BY <2>0, <2>1 DEF Family
  <2>. QED
    BY <1>1, <1>5, <2>0, <2>2, <2>3 DEF Placed, Locking
<1>. QED
  BY <1>1, <1>2, <1>3, <1>4, <1>5, Moves

LEMMA TableStep ==
  ASSUME Core, NEW r \in Requests, Step(r)
  PROVE  TableInv'
<1>. SUFFICES ASSUME NEW q \in Requests, NEW row \in tx'[q].todo
              PROVE  row[1] = Table(Statement(q)')
  BY DEF TableInv, Table
<1>1. TypeOK /\ RequestInv /\ \A x \in tx[q].todo : x[1] = Table(Statement(q))
  BY DEF Core, TableInv
<1>2. CASE q # r
  BY <1>1, <1>2, OthersStay DEF Alone, Statement
<1>3. CASE q = r /\ Released(r)
  BY <1>3 DEF Released
<1>4. CASE q = r /\ StartStatement(r)
  <2>1. PICK statement : statement = Plan(tx[r].kind)[tx[r].at + 1]
    OBVIOUS
  <2>2. row[1] = Table(statement) /\ tx'[r].kind = tx[r].kind /\ tx'[r].at = tx[r].at + 1
    BY <1>1, <1>4, <2>1, StartStep
  <2>3. Statement(r)' = statement
    BY <2>1, <2>2 DEF Statement
  <2>. QED
    BY <1>4, <2>2, <2>3
<1>5. ASSUME q = r, NEW locked \in Rows, LockRow(r, locked)
      PROVE  row[1] = Table(Statement(q)')
  <2>1. tx'[r].kind = tx[r].kind /\ tx'[r].at = tx[r].at /\ tx'[r].todo = tx[r].todo \ {locked}
    BY <1>1, <1>5, LockStep
  <2>. QED
    BY <1>1, <1>5, <2>1 DEF Statement
<1>. QED
  BY <1>1, <1>2, <1>3, <1>4, <1>5, Moves

LEMMA HeldStep ==
  ASSUME Core, NEW r \in Requests, Step(r)
  PROVE  HeldInv'
<1>. SUFFICES ASSUME NEW q \in Requests
              PROVE  AsLocked(q)'
  BY DEF HeldInv
<1>1. TypeOK /\ RequestInv /\ AsLocked(q) /\ Exclusive
  BY DEF Core, HeldInv
<1>2. CASE q # r
  <2>1. tx'[q] = tx[q] /\ \A row \in tx[q].held : row \notin tx[r].held
    BY <1>1, <1>2, OthersStay DEF Alone, Exclusive
  <2>2. ASSUME NEW s \in Sessions, <<"session", s>> \in tx[q].held
        PROVE  session'[s] = session[s]
    BY <1>1, <2>1, <2>2, SessionWrites DEF AsLocked, Live, SessionWritten
  <2>3. ASSUME NEW c \in Challenges, <<"challenge", c>> \in tx[q].held, tx[q].kind # "fail"
        PROVE  challenge'[c] = challenge[c]
    BY <1>1, <2>1, <2>3, ChallengeWrites DEF AsLocked, Open, ChallengeWritten
  <2>4. ASSUME NEW c \in Challenges, <<"code", c>> \in tx[q].held
        PROVE  codes'[c] = codes[c]
    BY <1>1, <2>1, <2>4, CodesWrites DEF AsLocked, CodesWritten
  <2>5. ASSUME NEW t \in Resets, <<"reset", t>> \in tx[q].held
        PROVE  reset'[t] = reset[t]
    BY <1>1, <2>1, <2>5, ResetWrites DEF AsLocked, ResetWritten
  <2>. QED
    BY <1>1, <2>1, <2>2, <2>3, <2>4, <2>5 DEF AsLocked, Live, Open
<1>3. CASE q = r /\ Released(r)
  BY <1>3 DEF AsLocked, Released
<1>4. CASE q = r /\ StartStatement(r)
  <2>1. tx'[r].kind = tx[r].kind /\ tx'[r].held = tx[r].held
    BY <1>1, <1>4, StartStep
  <2>2. UNCHANGED <<session, challenge, codes, reset>>
    BY <1>4 DEF StartStatement, rows
  <2>. QED
    BY <1>1, <1>4, <2>1, <2>2 DEF AsLocked, Live, Open
<1>5. ASSUME q = r, NEW row \in Rows, LockRow(r, row)
      PROVE  AsLocked(q)'
  <2>1. PICK kind, statement : kind = tx[r].kind /\ statement = Statement(r)
    OBVIOUS
  <2>2. /\ tx'[r].kind = kind /\ row \in tx[r].todo
        /\ tx'[r].held = IF Matches(statement, row) THEN tx[r].held \union {row} ELSE tx[r].held
    BY <1>1, <1>5, <2>1, LockStep
  <2>3. UNCHANGED <<session, challenge, codes, reset>>
    BY <1>5 DEF LockRow, rows
  <2>4. kind \in Kinds /\ tx[r].at \in 1 .. Len(Plan(kind)) /\ row[1] = Table(statement)
    <3>1. kind \in Kinds /\ tx[r].at \in 0 .. 4 /\ tx[r].at # 0 /\ tx[r].at <= Len(Plan(kind))
      BY <1>1, <2>1, <2>2 DEF TypeOK, RequestInv, Found
    <3>2. row[1] = Table(statement)
      BY <2>1, <2>2 DEF Core, TableInv
    <3>. QED
      BY <3>1, <3>2, PlanLength
  <2>5. /\ statement \in Statements
        /\ statement = "exchange" <=> kind = "rotate"
        /\ statement = "countFailure" <=> kind = "fail"
    BY <2>1, <2>4, PlanStatements DEF Statement
  <2>6. ASSUME NEW s \in Sessions, row = <<"session", s>>, Matches(statement, row)
        PROVE  Live(s) /\ (kind = "rotate" => ~session[s].used)
    <3>1. row[1] = "session" /\ row[2] = s
      BY <2>6
    <3>2. statement \in {"exchange", "revokeFamily", "revokeAll"}
      BY <2>4, <2>5, <3>1 DEF Table, Statements
    <3>. QED
      BY <2>5, <2>6, <3>1, <3>2 DEF Matches, Exchangeable
  <2>7. ASSUME NEW c \in Challenges, row = <<"challenge", c>>, Matches(statement, row)
        PROVE  Open(c) \/ kind = "fail"
    <3>1. row[1] = "challenge" /\ row[2] = c
      BY <2>7
    <3>2. statement \in {"consume", "countFailure", "closeChallenges"}
      BY <2>4, <2>5, <3>1 DEF Table, Statements
    <3>. QED
      BY <2>5, <2>7, <3>1, <3>2 DEF Matches
  <2>8. ASSUME NEW c \in Challenges, row = <<"code", c>>, Matches(statement, row)
        PROVE  codes[c] # "ABSENT"
    <3>1. row[1] = "code" /\ row[2] = c
      BY <2>8
    <3>2. statement \in {"spendCode", "deleteCodes"}
      BY <2>4, <2>5, <3>1 DEF Table, Statements
    <3>. QED
      BY <2>8, <3>1, <3>2 DEF Matches
  <2>9. ASSUME NEW t \in Resets, row = <<"reset", t>>, Matches(statement, row)
        PROVE  reset[t] = "OPEN"
    <3>1. row[1] = "reset" /\ row[2] = t
      BY <2>9
    <3>2. statement \in {"spendReset", "closeResets"}
      BY <2>4, <2>5, <3>1 DEF Table, Statements
    <3>. QED
      BY <2>9, <3>1, <3>2 DEF Matches
  <2>10. \A x : x \in tx'[r].held => x \in tx[r].held \/ (x = row /\ Matches(statement, row))
    BY <2>2
  <2>. QED
    BY <1>1, <1>5, <2>1, <2>2, <2>3, <2>6, <2>7, <2>8, <2>9, <2>10 DEF AsLocked, Live, Open
<1>. QED
  BY <1>1, <1>2, <1>3, <1>4, <1>5, Moves

LEMMA UserStep ==
  ASSUME Core, NEW r \in Requests, Step(r)
  PROVE  UserInv'
<1>. SUFFICES ASSUME NEW q \in Requests
              PROVE  LocksByName(q)'
  BY DEF UserInv
<1>1. TypeOK /\ RequestInv /\ LocksByName(q)
  BY DEF Core, UserInv
<1>2. CASE q # r
  BY <1>1, <1>2, OthersStay DEF Alone, LocksByName, Locking
<1>3. CASE q = r /\ Released(r)
  BY <1>3 DEF Released, LocksByName
<1>4. PICK kind : kind = tx[r].kind
  OBVIOUS
<1>5. kind \in Kinds /\ tx[r].at \in 0 .. 4
  BY <1>1, <1>4 DEF TypeOK
<1>6. CASE q = r /\ StartStatement(r)
  <2>1. PICK statement, at : statement = Plan(kind)[tx[r].at + 1] /\ at = tx[r].at + 1
    OBVIOUS
  <2>2. /\ tx'[r].kind = kind /\ tx'[r].item = tx[r].item /\ tx'[r].at = at
        /\ tx'[r].held = tx[r].held /\ tx[r].todo = {}
        /\ tx'[r].todo = {row \in Named(statement, tx[r].item, tx[r].other) : Matches(statement, row)}
        /\ at \in 1 .. Len(Plan(kind))
    BY <1>1, <1>4, <1>6, <2>1, StartStep
  <2>3. /\ at \in 1 .. 4
        /\ statement = "countFailure" <=> kind = "fail"
        /\ statement = "user" <=> kind \in {"setup", "verify", "reset"} /\ at = 2
    BY <1>5, <2>1, <2>2, PlanStatements
  <2>4. kind = "fail" => <<"challenge", tx[r].item>> \in tx'[r].todo
    BY <2>2, <2>3 DEF Named, Matches
  <2>5. kind \in {"setup", "reset"} /\ at = 2 => <<"user">> \in tx'[r].todo
    BY <2>2, <2>3 DEF Named, Matches
  <2>6. kind \in {"setup", "reset"} /\ at >= 3 => <<"user">> \in tx'[r].held
    BY <1>1, <1>4, <1>5, <1>6, <2>1, <2>2 DEF LocksByName
  <2>. QED
    BY <1>6, <2>2, <2>3, <2>4, <2>5, <2>6 DEF LocksByName, Locking
<1>7. ASSUME q = r, NEW row \in Rows, LockRow(r, row)
      PROVE  LocksByName(q)'
  <2>1. PICK statement : statement = Statement(r)
    OBVIOUS
  <2>2. /\ tx'[r].kind = kind /\ tx'[r].item = tx[r].item /\ tx'[r].at = tx[r].at
        /\ tx'[r].todo = tx[r].todo \ {row} /\ row \in tx[r].todo
        /\ tx'[r].held = IF Matches(statement, row) THEN tx[r].held \union {row} ELSE tx[r].held
    BY <1>1, <1>4, <1>7, <2>1, LockStep
  <2>3. tx[r].at \in 1 .. Len(Plan(kind)) /\ row[1] = Table(statement)
    <3>1. tx[r].at # 0 /\ tx[r].at <= Len(Plan(kind))
      BY <1>1, <1>4, <2>2 DEF RequestInv, Found
    <3>2. row[1] = Table(statement)
      BY <2>1, <2>2 DEF Core, TableInv
    <3>. QED
      BY <1>5, <3>1, <3>2, PlanLength
  <2>4. /\ statement \in Statements
        /\ statement = "countFailure" <=> kind = "fail"
    BY <1>4, <1>5, <2>1, <2>3, PlanStatements DEF Statement
  <2>5. row = <<"user">> => <<"user">> \in tx'[r].held
    <3>1. <<"user">>[1] = "user"
      OBVIOUS
    <3>2. row[1] = "user" => statement = "user"
      BY <2>3, <2>4 DEF Table, Statements
    <3>3. statement = "user" => Matches(statement, row)
      BY DEF Matches
    <3>. QED
      BY <2>2, <3>1, <3>2, <3>3
  <2>6. kind = "fail" => row \in tx'[r].held
    BY <2>2, <2>4 DEF Matches
  <2>. QED
    BY <1>1, <1>4, <1>7, <2>2, <2>5, <2>6 DEF LocksByName, Locking
<1>. QED
  BY <1>1, <1>2, <1>3, <1>6, <1>7, Moves

-------------------------------------------------------------------------------
(***************************************************************************)
(* What a request has found.                                               *)
(***************************************************************************)
LEMMA GoesFound ==
  ASSUME Core, NEW r \in Requests, Step(r),
         NEW kind \in Kinds, NEW item \in Items, NEW other \in Items \union {"SETUP", "LOGIN"},
         Goes(r, kind, item, other),
         kind \in {"rotate", "revoke"} => item \in Sessions /\ session[item].family # None,
         kind \in {"fail", "code", "setup", "verify", "enter"} =>
           item \in Challenges /\ challenge[item].type # None,
         kind = "setup" => challenge[item].type = "SETUP",
         kind \in {"code", "verify"} => challenge[item].type = "LOGIN",
         kind = "login" => other \in {"SETUP", "LOGIN"},
         kind = "code" => other \in Challenges,
         kind = "reset" => item \in Resets
  PROVE  Found(r)'
<1>1. /\ tx'[r].kind = kind /\ tx'[r].item = item /\ tx'[r].other = other
      /\ tx'[r].at = 0 /\ tx'[r].todo = {} /\ tx'[r].held = {}
  BY GoesTo DEF Core, Released
<1>2. item \in Sessions /\ session[item].family # None => session'[item].family # None
  BY SessionWrites DEF SessionWritten
<1>3. item \in Challenges /\ challenge[item].type # None => challenge'[item].type = challenge[item].type
  BY ChallengeWrites DEF ChallengeWritten
<1>4. 0 <= Len(Plan(kind))
  BY PlanLength
<1>. QED
  BY <1>1, <1>2, <1>3, <1>4 DEF Found

LEMMA EndsFound ==
  ASSUME TypeOK, NEW r \in Requests, Ends(r)
  PROVE  Found(r)'
BY EndsTo, PlanLength DEF Found, Idle, Kinds

LEMMA RequestStep ==
  ASSUME Core, NEW r \in Requests, Step(r)
  PROVE  RequestInv'
<1>. SUFFICES ASSUME NEW q \in Requests
              PROVE  Found(q)'
  BY DEF RequestInv
<1>1. TypeOK /\ RequestInv /\ Found(q) /\ Found(r)
  BY DEF Core, RequestInv
<1>2. CASE q # r
  <2>1. tx'[q] = tx[q]
    BY <1>1, <1>2, OthersStay DEF Alone
  <2>2. \A s \in Sessions : session[s].family # None => session'[s].family # None
    BY SessionWrites DEF SessionWritten
  <2>3. \A c \in Challenges : challenge[c].type # None => challenge'[c].type = challenge[c].type
    BY ChallengeWrites DEF ChallengeWritten
  <2>. QED
    BY <1>1, <2>1, <2>2, <2>3 DEF Found
<1>3. Ends(r) => Found(r)'
  BY <1>1, EndsFound
<1>4. None \in Items /\ Sessions \subseteq Items /\ Challenges \subseteq Items /\ Resets \subseteq Items
  BY DEF Items
<1>5. CASE q = r /\ SessionStep(r)
  <2>1. ASSUME NEW s \in Sessions, Rotate(r, s) \/ Logout(r, s)
        PROVE  Found(r)'
    <3>1. PICK kind \in {"rotate", "revoke"} : Goes(r, kind, s, None)
      BY <2>1 DEF Rotate, Logout
    <3>2. session[s].family # None
      BY <2>1 DEF Rotate, Logout, Live
    <3>. QED
      BY <1>4, <3>1, <3>2, GoesFound DEF Kinds
  <2>2. RotationMissed(r) => Found(r)'
    BY <1>1, <1>4, GoesFound DEF RotationMissed, Missed, Found, Kinds
  <2>. QED
    BY <1>3, <1>5, <2>1, <2>2 DEF SessionStep, CommitRotation, CommitRevocation
<1>6. CASE q = r /\ ChallengeStep(r)
  <2>1. Login(r) => Found(r)'
    BY <1>4, GoesFound DEF Login, Kinds
  <2>2. ASSUME NEW c \in Challenges, Verify(r, c)
        PROVE  Found(r)'
    <3>1. challenge[c].type # None
      BY <2>2 DEF Verify, Open
    <3>2. challenge[c].type \in {"SETUP", "LOGIN"}
      BY <1>1, <3>1 DEF TypeOK
    <3>3. Goes(r, "fail", c, None) => Found(r)'
      BY <1>4, <3>1, GoesFound DEF Kinds
    <3>4. Goes(r, Completion(c), c, None) => Found(r)'
      BY <1>4, <3>1, <3>2, GoesFound DEF Kinds, Completion
    <3>5. ASSUME NEW setup \in Challenges, challenge[c].type = "LOGIN", Goes(r, "code", c, setup)
          PROVE  Found(r)'
      BY <1>4, <3>1, <3>5, GoesFound DEF Kinds
    <3>. QED
      BY <2>2, <3>3, <3>4, <3>5 DEF Verify
  <2>3. CommitCode(r) => Found(r)'
    BY <1>1, <1>4, GoesFound DEF CommitCode, Done, Found, Kinds
  <2>4. CodeMissed(r) => Found(r)'
    BY <1>1, <1>4, GoesFound DEF CodeMissed, Missed, Found, Kinds
  <2>5. CommitSetup(r) \/ CommitVerification(r) => Found(r)'
    BY <1>1, <1>4, GoesFound DEF CommitSetup, CommitVerification, Done, Found, Kinds
  <2>. QED
    BY <1>3, <1>6, <2>1, <2>2, <2>3, <2>4, <2>5 DEF ChallengeStep, CommitLogin, CommitFailure, CompletionMissed, Enter
<1>7. CASE q = r /\ ResetStep(r)
  <2>1. Forgot(r) => Found(r)'
    BY <1>4, GoesFound DEF Forgot, Kinds
  <2>2. ASSUME NEW t \in Resets, ResetPassword(r, t)
        PROVE  Found(r)'
    BY <1>4, <2>2, GoesFound DEF ResetPassword, Kinds
  <2>. QED
    BY <1>3, <1>7, <2>1, <2>2 DEF ResetStep, CommitForgot, CommitReset, ResetMissed
<1>8. CASE q = r /\ StatementStep(r)
  <2>2. CASE StartStatement(r)
    <3>1. /\ tx'[r].kind = tx[r].kind /\ tx'[r].item = tx[r].item /\ tx'[r].other = tx[r].other
          /\ tx'[r].at \in 1 .. Len(Plan(tx[r].kind))
      BY <1>1, <2>2, StartStep
    <3>2. UNCHANGED <<session, challenge>>
      BY <2>2 DEF StartStatement, rows
    <3>. QED
      BY <1>1, <1>8, <3>1, <3>2 DEF Found
  <2>3. ASSUME NEW row \in Rows, LockRow(r, row)
        PROVE  Found(r)'
    <3>1. /\ tx'[r].kind = tx[r].kind /\ tx'[r].item = tx[r].item /\ tx'[r].other = tx[r].other
          /\ tx'[r].at = tx[r].at /\ row \in tx[r].todo
      BY <1>1, <2>3, LockStep
    <3>2. UNCHANGED <<session, challenge>>
      BY <2>3 DEF LockRow, rows
    <3>. QED
      BY <1>1, <3>1, <3>2 DEF Found
  <2>. QED
    BY <1>3, <1>8, <2>2, <2>3 DEF StatementStep, DeadlockVictim
<1>. QED
  BY <1>2, <1>5, <1>6, <1>7, <1>8 DEF Step

-------------------------------------------------------------------------------
(***************************************************************************)
(* Rows: blank until inserted, spent once they have taken effect.          *)
(***************************************************************************)
VerificationClaim(r) ==
  /\ tx[r].item \in Challenges /\ <<"challenge", tx[r].item>> \in tx[r].held
  /\ challenge[tx[r].item].type = "LOGIN" /\ applied[tx[r].item] = 0

LEMMA VerifyClaim ==
  ASSUME Core, NEW r \in Requests, CommitVerification(r)
  PROVE  VerificationClaim(r)
<1>1. tx[r].item \in Challenges /\ <<"challenge", tx[r].item>> \in tx[r].held /\ tx[r].kind = "verify"
  BY ClaimHeld DEF CommitVerification, Core, Done
<1>2. Open(tx[r].item) /\ challenge[tx[r].item].type = "LOGIN"
  BY <1>1 DEF Core, HeldInv, AsLocked, RequestInv, Found
<1>. QED
  BY <1>1, <1>2 DEF Core, RowInv, Open, VerificationClaim

LEMMA ResetClaim ==
  ASSUME Core, NEW r \in Requests, CommitReset(r)
  PROVE  tx[r].item \in Resets /\ reset[tx[r].item] = "OPEN" /\ applied[tx[r].item] = 0
<1>1. tx[r].item \in Resets /\ <<"reset", tx[r].item>> \in tx[r].held
  BY ClaimHeld DEF CommitReset, Core
<1>. QED
  BY <1>1 DEF Core, HeldInv, AsLocked, RowInv

AppliedWritten(r) ==
  /\ applied' \in [Challenges \union Resets -> Nat]
  /\ \A c \in Challenges :
       \/ applied'[c] = applied[c]
       \/ /\ CommitSetup(r) \/ CommitVerification(r)
          /\ c = tx[r].item /\ applied[c] = 0 /\ applied'[c] = 1
          /\ challenge[c].type # None /\ challenge'[c].consumed
  /\ \A t \in Resets :
       \/ applied'[t] = applied[t]
       \/ /\ CommitReset(r)
          /\ t = tx[r].item /\ applied[t] = 0 /\ applied'[t] = 1 /\ reset'[t] = "USED"

LEMMA AppliedWrites ==
  ASSUME Core, NEW r \in Requests, Step(r)
  PROVE  AppliedWritten(r)
<1>1. applied \in [Challenges \union Resets -> Nat] /\ Challenges \intersect Resets = {}
  BY AccountAssumption DEF Core, TypeOK
<1>2. CASE applied' = applied
  BY <1>1, <1>2 DEF AppliedWritten
<1>3. CASE CommitSetup(r) \/ CommitVerification(r)
  <2>1. /\ tx[r].item \in Challenges /\ <<"challenge", tx[r].item>> \in tx[r].held
        /\ challenge[tx[r].item].type \in {"SETUP", "LOGIN"} /\ applied[tx[r].item] = 0
    BY <1>3, SetupClaim, VerifyClaim DEF VerificationClaim
  <2>2. challenge'[tx[r].item].consumed
    BY <1>3, <2>1, ClosedRows DEF CommitSetup, CommitVerification, Core
  <2>3. applied' = [applied EXCEPT ![tx[r].item] = 1]
    BY <1>3, <2>1 DEF CommitSetup, CommitVerification
  <2>4. challenge[tx[r].item].type # None
    BY <2>1, AccountAssumption
  <2>. QED
    BY <1>1, <1>3, <2>1, <2>2, <2>3, <2>4 DEF AppliedWritten
<1>4. CASE CommitReset(r)
  <2>1. tx[r].item \in Resets /\ applied[tx[r].item] = 0
    BY <1>4, ResetClaim
  <2>2. applied' = [applied EXCEPT ![tx[r].item] = 1]
    BY <1>4, <2>1 DEF CommitReset
  <2>3. reset' = [reset EXCEPT ![tx[r].item] = "USED"] /\ reset \in [Resets -> {"ABSENT", "OPEN", "USED"}]
    BY <1>4 DEF CommitReset, Core, TypeOK
  <2>4. reset'[tx[r].item] = "USED"
    BY <2>1, <2>3
  <2>. QED
    BY <1>1, <1>4, <2>1, <2>2, <2>4 DEF AppliedWritten
<1>. QED
  BY <1>2, <1>3, <1>4, Writers

LEMMA RowStep ==
  ASSUME Core, NEW r \in Requests, Step(r)
  PROVE  RowInv'
<1>1. RowInv /\ session \in [Sessions -> SessionRows] /\ SessionWritten(r) /\ ChallengeWritten(r)
      /\ ResetWritten(r) /\ AppliedWritten(r) /\ CodesWritten(r)
  BY SessionWrites, ChallengeWrites, ResetWrites, AppliedWrites, CodesWrites DEF Core, TypeOK, SessionRows
<1>2. ASSUME NEW s \in Sessions, session'[s].family = None
      PROVE  session'[s] = NoSession
  BY <1>1, <1>2, AccountAssumption DEF RowInv, SessionWritten
<1>3. ASSUME NEW s \in Sessions, session'[s].family # None
      PROVE  session'[session'[s].family].family = session'[s].family
  <2>1. CASE session[s].family # None
    <3>1. PICK f \in Sessions : f = session[s].family /\ session[f].family = f /\ f # None
      BY <1>1, <2>1, AccountAssumption DEF RowInv, SessionRows
    <3>. QED
      BY <1>1, <2>1, <3>1 DEF SessionWritten
  <2>2. CASE session[s].family = None /\ session'[s].family = s
    BY <2>2
  <2>3. ASSUME session[s].family = None, NEW u \in Sessions, session[u].family = session'[s].family
        PROVE  session'[session'[s].family].family = session'[s].family
    <3>1. PICK f \in Sessions : f = session[u].family /\ session[f].family = f /\ f # None
      BY <1>1, <1>3, <2>3, AccountAssumption DEF RowInv, SessionRows
    <3>. QED
      BY <1>1, <2>3, <3>1 DEF SessionWritten
  <2>. QED
    BY <1>1, <1>3, <2>1, <2>2, <2>3 DEF SessionWritten
<1>4. ASSUME NEW c \in Challenges, applied'[c] # 0
      PROVE  challenge'[c].type # None /\ challenge'[c].consumed
  BY <1>1, <1>4 DEF RowInv, ChallengeWritten, AppliedWritten
<1>5. ASSUME NEW c \in Challenges, codes'[c] # "ABSENT"
      PROVE  applied'[c] # 0
  <2>1. CASE codes[c] # "ABSENT"
    BY <1>1, <2>1 DEF RowInv, AppliedWritten
  <2>2. CASE CommitSetup(r) /\ c = tx[r].item
    BY <2>2, SetupClaim DEF CommitSetup, Core, TypeOK
  <2>. QED
    BY <1>1, <1>5, <2>1, <2>2 DEF CodesWritten
<1>6. ASSUME NEW t \in Resets, applied'[t] # 0
      PROVE  reset'[t] = "USED"
  BY <1>1, <1>6 DEF RowInv, ResetWritten, AppliedWritten
<1>. QED
  BY <1>2, <1>3, <1>4, <1>5, <1>6 DEF RowInv, NoSession

LEMMA TypeStep ==
  ASSUME Core, NEW r \in Requests, Step(r)
  PROVE  TypeOK'
<1>1. TypeOK
  BY DEF Core
<1>2. /\ session' \in [Sessions -> SessionRows]
      /\ challenge' \in [Challenges -> ChallengeRows]
      /\ reset' \in [Resets -> {"ABSENT", "OPEN", "USED"}]
      /\ codes' \in [Challenges -> {"ABSENT", "FRESH", "USED"}]
      /\ applied' \in [Challenges \union Resets -> Nat]
      /\ tx' \in [Requests -> TxStates]
  BY SessionWrites, ChallengeWrites, ResetWrites, AppliedWrites, CodesWrites, Moves
     DEF SessionWritten, ChallengeWritten, ResetWritten, AppliedWritten, CodesWritten, Core
<1>3. enrolled' \in Challenges \union {None}
  BY <1>1, Writers, SetupClaim DEF CommitSetup, TypeOK
<1>4. version' \in Nat \ {0}
  BY <1>1, Writers DEF CommitSetup, CommitReset, TypeOK
<1>5. ended' \subseteq Sessions
  <2>1. CommitRevocation(r) => session[tx[r].item].family \in Sessions
    BY <1>1 DEF CommitRevocation, Done, Core, RequestInv, Found, TypeOK
  <2>. QED
    BY <1>1, <2>1, Writers DEF CommitRevocation, TypeOK
<1>6. late' \subseteq Sessions
  <2>1. CommitRotation(r) \/ Enter(r) => late' \subseteq Sessions
    BY <1>1 DEF CommitRotation, Enter, FreeSessions, TypeOK
  <2>. QED
    BY <1>1, <2>1, Writers DEF TypeOK
<1>8. since' \in [Sessions \union Challenges -> Nat]
  <2>1. ASSUME CommitRotation(r) \/ Enter(r)
        PROVE  since' \in [Sessions \union Challenges -> Nat]
    <3>1. PICK origin \in Sessions \union Challenges : origin = tx[r].item
      BY <2>1 DEF CommitRotation, Enter, Done, Core, RequestInv, Found
    <3>2. PICK new \in Sessions : since' = [since EXCEPT ![new] = since[origin]]
      BY <2>1, <3>1 DEF CommitRotation, Enter, FreeSessions
    <3>. QED
      BY <1>1, <3>1, <3>2 DEF TypeOK
  <2>2. ASSUME CommitSetup(r) \/ CommitVerification(r)
        PROVE  since' \in [Sessions \union Challenges -> Nat]
    <3>1. PICK c \in Challenges : c = tx[r].item
      BY <2>2 DEF CommitSetup, CommitVerification, Done, Core, RequestInv, Found
    <3>2. PICK v \in Nat : since' = [since EXCEPT ![c] = v]
      BY <1>1, <2>2, <3>1 DEF CommitSetup, CommitVerification, TypeOK
    <3>. QED
      BY <1>1, <3>1, <3>2 DEF TypeOK
  <2>. QED
    BY <1>1, <2>1, <2>2, Writers DEF TypeOK
<1>7. operations' \in 0 .. MaxOperations
  <2>1. operations' = operations \/ Arrives(r)
    BY DEF Step, SessionStep, Rotate, Logout, CommitRotation, RotationMissed, CommitRevocation,
           ChallengeStep, Login, CommitLogin, Verify, CommitFailure, CommitCode, CodeMissed,
           CommitSetup, CommitVerification, CompletionMissed, Enter,
           ResetStep, Forgot, CommitForgot, ResetPassword, CommitReset, ResetMissed,
           StatementStep, StartStatement, LockRow, DeadlockVictim
  <2>. QED
    BY <1>1, <2>1, AccountAssumption DEF Arrives, TypeOK
<1>. QED
  BY <1>2, <1>3, <1>4, <1>5, <1>6, <1>7, <1>8 DEF TypeOK, SessionRows, ChallengeRows, TxStates

-------------------------------------------------------------------------------
LEMMA CoreInit == Init => Core
<1>. SUFFICES ASSUME Init
              PROVE  Core
  OBVIOUS
<1>1. TypeOK
  <2>1. Idle \in TxStates
    BY DEF Idle, TxStates, Kinds, Items
  <2>. QED
    BY <2>1, AccountAssumption DEF Init, TypeOK, NoSession, NoChallenge, TxStates
<1>2. \A r \in Requests : tx[r].kind = "idle" /\ tx[r].at = 0 /\ tx[r].todo = {} /\ tx[r].held = {}
  BY DEF Init, Idle
<1>3. RequestInv
  BY <1>2, PlanLength DEF RequestInv, Found, Kinds
<1>4. PlaceInv /\ TableInv /\ Exclusive /\ HeldInv /\ UserInv
  BY <1>2 DEF PlaceInv, Placed, Locking, TableInv, Exclusive, HeldInv, AsLocked, UserInv, LocksByName
<1>5. RowInv
  BY AccountAssumption DEF Init, RowInv, NoSession
<1>. QED
  BY <1>1, <1>3, <1>4, <1>5 DEF Core

LEMMA CoreStep == Core /\ [Next]_vars => Core'
<1>1. CASE Core /\ Next
  <2>1. PICK r \in Requests : Step(r)
    BY <1>1 DEF Next, Step
  <2>. QED
    BY <1>1, <2>1, TypeStep, RequestStep, PlaceStep, TableStep, ExclusiveStep, HeldStep, RowStep, UserStep DEF Core
<1>2. CASE Core /\ UNCHANGED vars
  BY <1>2 DEF vars, rows, history, Core, TypeOK, RequestInv, Found, PlaceInv, Placed, Locking, Family, TableInv,
              Statement, Exclusive, HeldInv, AsLocked, Live, Open, RowInv, UserInv, LocksByName
<1>. QED
  BY <1>1, <1>2

LEMMA CoreInvariant == Spec => []Core
BY CoreInit, CoreStep, PTL DEF Spec

(***************************************************************************)
(* Every variable keeps its type, for any number of requests and rows.     *)
(***************************************************************************)
THEOREM AccountTypeCorrect == Spec => []TypeOK
<1>1. Core => TypeOK
  BY DEF Core
<1>. QED
  BY <1>1, CoreInvariant, PTL

(***************************************************************************)
(* A revoked session is not exchanged: the exchange has the row locked     *)
(* while it was live, and a revocation waits for the lock.                 *)
(***************************************************************************)
THEOREM RevokedStaysUnused == Spec => RevokedNeverExchanged
<1>1. Core /\ [Next]_vars =>
        [\A s \in Sessions : session[s].revoked => session'[s].used = session[s].used]_vars
  <2>. SUFFICES ASSUME Core, Next, NEW s \in Sessions, session[s].revoked
                PROVE  session'[s].used = session[s].used
    BY DEF vars
  <2>1. PICK r \in Requests : Step(r)
    BY DEF Next, Step
  <2>. QED
    BY <2>1, SessionWrites DEF SessionWritten
<1>. QED
  BY <1>1, CoreInvariant, PTL DEF Spec, RevokedNeverExchanged

-------------------------------------------------------------------------------
(***************************************************************************)
(* Wrong codes.                                                            *)
(***************************************************************************)
LEMMA NewTrial ==
  ASSUME Core, NEW r \in Requests, Step(r), NEW c \in Challenges,
         tx'[r].kind \in {"fail", "code"}, tx'[r].item = c,
         ~ (tx[r].kind \in {"fail", "code"} /\ tx[r].item = c)
  PROVE  challenge[c].failed < MaxAttempts
<1>1. TypeOK /\ RequestInv /\ challenge[c].failed \in Nat /\ MaxAttempts \in Nat
  BY AccountAssumption DEF Core, TypeOK
<1>2. ~Ends(r)
  BY <1>1, EndsTo DEF Idle
<1>3. ASSUME NEW kind \in Kinds, NEW item \in Items, NEW other \in Items \union {"SETUP", "LOGIN"},
             Goes(r, kind, item, other)
      PROVE  kind \in {"fail", "code"} /\ item = c
  BY <1>1, <1>3, GoesTo
<1>4. tx[r].item \in Items /\ None \in Items /\ Sessions \subseteq Items /\ Challenges \subseteq Items
      /\ Resets \subseteq Items
  BY <1>1 DEF TypeOK, Items
<1>5. ~SessionStep(r)
  <2>1. ASSUME NEW kind \in {"rotate", "revoke"}, NEW s \in Items
        PROVE  ~Goes(r, kind, s, None)
    BY <1>3, <1>4 DEF Kinds
  <2>. QED
    BY <1>2, <1>4, <2>1 DEF SessionStep, Rotate, Logout, CommitRotation, CommitRevocation, RotationMissed
<1>6. ~ResetStep(r)
  <2>1. ASSUME NEW kind \in {"forgot", "reset"}, NEW t \in Items
        PROVE  ~Goes(r, kind, t, None)
    BY <1>3, <1>4 DEF Kinds
  <2>. QED
    BY <1>2, <1>4, <2>1 DEF ResetStep, Forgot, CommitForgot, ResetPassword, CommitReset, ResetMissed
<1>7. ~StatementStep(r)
  <2>1. StartStatement(r) => tx'[r].kind = tx[r].kind /\ tx'[r].item = tx[r].item
    BY <1>1, StartStep
  <2>2. ASSUME NEW row \in Rows, LockRow(r, row)
        PROVE  tx'[r].kind = tx[r].kind /\ tx'[r].item = tx[r].item
    BY <1>1, <2>2, LockStep
  <2>. QED
    BY <1>2, <2>1, <2>2 DEF StatementStep, DeadlockVictim
<1>8. CASE ChallengeStep(r)
  <2>1. ASSUME NEW kind \in {"login", "verify", "enter"}, NEW item \in Items,
               NEW other \in Items \union {"SETUP", "LOGIN"}
        PROVE  ~Goes(r, kind, item, other)
    BY <1>3 DEF Kinds
  <2>2. ~Login(r)
    BY <1>4, <2>1 DEF Login
  <2>3. ~(CommitCode(r) \/ CommitSetup(r) \/ CommitVerification(r))
    BY <1>4, <2>1 DEF CommitCode, CommitSetup, CommitVerification
  <2>4. ~CodeMissed(r)
    BY <1>3, <1>4 DEF CodeMissed, Missed, Kinds
  <2>5. PICK d \in Challenges : Verify(r, d)
    BY <1>2, <1>8, <2>2, <2>3, <2>4 DEF ChallengeStep, CommitLogin, CommitFailure, CompletionMissed, Enter
  <2>6. d = c
    BY <1>3, <1>4, <2>5 DEF Verify, Completion, Kinds
  <2>. QED
    BY <1>1, <2>5, <2>6 DEF Verify, Exhausted
<1>. QED
  BY <1>5, <1>6, <1>7, <1>8 DEF Step

LEMMA TryStep ==
  ASSUME Core, TryInv, NEW r \in Requests, Step(r)
  PROVE  TryInv'
<1>. SUFFICES ASSUME NEW c \in Challenges
              PROVE  challenge'[c].failed + Cardinality(Trying(c)')
                       <= MaxAttempts + Cardinality(Requests) - 1
  BY DEF TryInv, Trying
<1>1. /\ IsFiniteSet(Requests) /\ Cardinality(Requests) \in Nat
      /\ MaxAttempts \in Nat /\ challenge[c].failed \in Nat
  BY AccountAssumption, FS_CardinalityType DEF Core, TypeOK
<1>2. challenge'[c].failed \in Nat
  BY ChallengeWrites DEF ChallengeWritten, ChallengeRows
<1>3. /\ IsFiniteSet(Trying(c)) /\ Cardinality(Trying(c)) \in Nat
      /\ IsFiniteSet(Trying(c)') /\ Cardinality(Trying(c)') \in Nat
      /\ Cardinality(Trying(c)') <= Cardinality(Requests)
  <2>1. Trying(c) \subseteq Requests /\ Trying(c)' \subseteq Requests
    BY DEF Trying
  <2>. QED
    BY <1>1, <2>1, FS_Subset, FS_CardinalityType
<1>4. \A q \in Requests : q # r => (q \in Trying(c)' <=> q \in Trying(c))
  BY OthersStay DEF Core, Alone, Trying
<1>5. CASE r \in Trying(c)' /\ r \notin Trying(c)
  <2>1. challenge[c].failed < MaxAttempts
    BY <1>5, NewTrial DEF Trying
  <2>2. challenge'[c].failed <= challenge[c].failed
    <3>1. ~CommitFailure(r)
      BY <1>5, EndsTo DEF CommitFailure, Trying, Idle, Core
    <3>. QED
      BY <3>1, ChallengeWrites DEF ChallengeWritten
  <2>. QED
    BY <1>1, <1>2, <1>3, <2>1, <2>2
<1>6. CASE CommitFailure(r) /\ c = tx[r].item /\ challenge'[c].failed = challenge[c].failed + 1
  <2>1. r \in Trying(c)
    BY <1>6 DEF CommitFailure, Done, Trying
  <2>2. r \notin Trying(c)'
    BY <1>6, EndsTo DEF CommitFailure, Trying, Idle, Core
  <2>3. Trying(c)' = Trying(c) \ {r}
    BY <1>4, <2>2 DEF Trying
  <2>4. Cardinality(Trying(c)') = Cardinality(Trying(c)) - 1
    BY <1>3, <2>1, <2>3, FS_RemoveElement
  <2>. QED
    BY <1>1, <1>3, <1>6, <2>4 DEF TryInv
<1>7. CASE challenge'[c].failed <= challenge[c].failed /\ (r \in Trying(c)' => r \in Trying(c))
  <2>1. Trying(c)' \subseteq Trying(c)
    BY <1>4, <1>7 DEF Trying
  <2>2. Cardinality(Trying(c)') <= Cardinality(Trying(c))
    BY <1>3, <2>1, FS_Subset
  <2>. QED
    BY <1>1, <1>2, <1>3, <1>7, <2>2 DEF TryInv
<1>. QED
  BY <1>5, <1>6, <1>7, ChallengeWrites DEF ChallengeWritten

(***************************************************************************)
(* A challenge takes no more wrong codes than its limit and one for each   *)
(* request that read it before it was closed, for any number of requests.  *)
(***************************************************************************)
THEOREM TriesAreBounded == Spec => []TriesBounded
<1>1. Init => TryInv
  <2>. SUFFICES ASSUME Init, NEW c \in Challenges
                PROVE  challenge[c].failed + Cardinality(Trying(c)) <= MaxAttempts + Cardinality(Requests) - 1
    BY DEF TryInv
  <2>1. Trying(c) = {} /\ challenge[c].failed = 0
    BY DEF Init, Trying, Idle, NoChallenge
  <2>2. MaxAttempts \in Nat \ {0} /\ Cardinality(Requests) \in Nat /\ Cardinality({}) = 0
    BY AccountAssumption, FS_CardinalityType, FS_EmptySet
  <2>. QED
    BY <2>1, <2>2
<1>2. Core /\ TryInv /\ [Next]_vars => TryInv'
  <2>1. CASE Core /\ TryInv /\ Next
    BY <2>1, TryStep DEF Next, Step
  <2>2. CASE TryInv /\ UNCHANGED vars
    BY <2>2 DEF vars, rows, TryInv, Trying
  <2>. QED
    BY <2>1, <2>2
<1>3. Core /\ TryInv => TriesBounded
  <2>. SUFFICES ASSUME Core, TryInv, NEW c \in Challenges
                PROVE  challenge[c].failed <= MaxAttempts + Cardinality(Requests) - 1
    BY DEF TriesBounded
  <2>1. /\ MaxAttempts \in Nat /\ Cardinality(Requests) \in Nat /\ challenge[c].failed \in Nat
        /\ Cardinality(Trying(c)) \in Nat
    <3>1. Trying(c) \subseteq Requests
      BY DEF Trying
    <3>. QED
      BY <3>1, AccountAssumption, FS_CardinalityType, FS_Subset DEF Core, TypeOK
  <2>. QED
    BY <2>1 DEF TryInv
<1>. QED
  BY <1>1, <1>2, <1>3, CoreInvariant, PTL DEF Spec

-------------------------------------------------------------------------------
(***************************************************************************)
(* Single use.                                                             *)
(***************************************************************************)
Spent == {t \in Resets : applied[t] = 1}

SetUp == {c \in Challenges : applied[c] = 1 /\ challenge[c].type = "SETUP"}

LEMMA OneUnusedStep ==
  ASSUME Core, SingleUse, NEW r \in Requests, Step(r), NEW s \in Sessions, NEW u \in Sessions,
         session'[s].family # None, session'[s].family = session'[u].family,
         ~session'[s].used, ~session'[u].used
  PROVE  s = u
<1>1. session \in [Sessions -> SessionRows] /\ RowInv
  BY DEF Core, TypeOK, SessionRows
<1>2. \A v, w \in Sessions :
        session[v].family # None /\ session[v].family = session[w].family /\ ~session[v].used /\ ~session[w].used
        => v = w
  BY DEF SingleUse
<1>3. CASE session' = session
  BY <1>2, <1>3
<1>4. CASE CommitRotation(r)
  <2>1. PICK new \in FreeSessions, item \in Sessions :
          /\ item = tx[r].item /\ session[item].family \in Sessions /\ ~session[item].used
          /\ session'[item] = [session[item] EXCEPT !.used = TRUE]
          /\ session'[new] = [NoSession EXCEPT !.family = session[item].family]
          /\ \A v \in Sessions \ {item, new} : session'[v] = session[v]
    BY <1>4, RotationWrites
  <2>2. session'[item].used
    BY <1>1, <2>1 DEF SessionRows
  <2>3. session'[new].family = session[item].family /\ session[item].family # None
    BY <2>1, AccountAssumption DEF NoSession
  <2>4. s # item /\ u # item
    BY <2>2
  <2>5. CASE s # new /\ u # new
    BY <1>2, <2>1, <2>4, <2>5
  <2>6. ASSUME NEW v \in Sessions, v \notin {new, item}, session'[v].family = session'[new].family, ~session'[v].used
        PROVE  FALSE
    BY <1>2, <2>1, <2>3, <2>6
  <2>. QED
    BY <2>4, <2>5, <2>6
<1>5. CASE session' = Revoked(r)
  BY <1>2, <1>5, RevokedRows DEF Core
<1>6. CASE Enter(r)
  <2>1. PICK new \in FreeSessions :
          /\ session'[new] = [NoSession EXCEPT !.family = new]
          /\ \A v \in Sessions \ {new} : session'[v] = session[v]
    BY <1>6, EnterWrites
  <2>2. new \in Sessions /\ session[new].family = None /\ new # None /\ session'[new].family = new
    BY <2>1, AccountAssumption DEF FreeSessions, NoSession
  <2>3. \A v \in Sessions : session[v].family # new
    BY <1>1, <2>2 DEF RowInv
  <2>. QED
    BY <1>2, <2>1, <2>2, <2>3
<1>7. CommitRevocation(r) \/ CommitSetup(r) \/ CommitReset(r) => session' = Revoked(r)
  BY DEF CommitRevocation, CommitSetup, CommitReset
<1>. QED
  BY <1>3, <1>4, <1>5, <1>6, <1>7, Writers

LEMMA VersionStep ==
  ASSUME Core, SingleUse, NEW r \in Requests, Step(r)
  PROVE  version' = 1 + Cardinality(Spent') + Cardinality(SetUp')
<1>1. /\ version = 1 + Cardinality(Spent) + Cardinality(SetUp)
      /\ RowInv /\ AppliedWritten(r) /\ ChallengeWritten(r)
      /\ Challenges \intersect Resets = {}
  BY AppliedWrites, ChallengeWrites, AccountAssumption DEF Core, SingleUse, Spent, SetUp
<1>2. /\ IsFiniteSet(Spent) /\ Cardinality(Spent) \in Nat
      /\ IsFiniteSet(SetUp) /\ Cardinality(SetUp) \in Nat
  <2>1. Spent \subseteq Resets /\ SetUp \subseteq Challenges
    BY DEF Spent, SetUp
  <2>. QED
    BY <2>1, AccountAssumption, FS_Subset, FS_CardinalityType
<1>3. ASSUME NEW c \in Challenges, applied[c] = 1
      PROVE  challenge'[c].type = challenge[c].type
  <2>1. challenge[c].type # None
    BY <1>1, <1>3 DEF RowInv
  <2>. QED
    BY <1>1, <2>1 DEF ChallengeWritten
<1>4. CASE CommitSetup(r)
  <2>1. /\ tx[r].item \in Challenges /\ applied[tx[r].item] = 0 /\ challenge[tx[r].item].type = "SETUP"
    BY <1>4, SetupClaim
  <2>2. applied' = [applied EXCEPT ![tx[r].item] = 1] /\ version' = version + 1
    BY <1>4, <2>1 DEF CommitSetup
  <2>3. applied \in [Challenges \union Resets -> Nat]
    BY DEF Core, TypeOK
  <2>4. challenge'[tx[r].item].type = "SETUP"
    BY <1>1, <2>1, AccountAssumption DEF ChallengeWritten
  <2>5. Spent' = Spent
    BY <1>1, <2>1, <2>2, <2>3 DEF Spent
  <2>6. SetUp' = SetUp \union {tx[r].item} /\ tx[r].item \notin SetUp
    BY <1>3, <2>1, <2>2, <2>3, <2>4 DEF SetUp
  <2>7. Cardinality(SetUp') = Cardinality(SetUp) + 1
    BY <1>2, <2>6, FS_AddElement
  <2>. QED
    BY <1>1, <1>2, <2>2, <2>5, <2>7
<1>5. CASE CommitReset(r)
  <2>1. tx[r].item \in Resets /\ applied[tx[r].item] = 0
    BY <1>5, ResetClaim
  <2>2. applied' = [applied EXCEPT ![tx[r].item] = 1] /\ version' = version + 1
    BY <1>5, <2>1 DEF CommitReset
  <2>3. applied \in [Challenges \union Resets -> Nat]
    BY DEF Core, TypeOK
  <2>4. Spent' = Spent \union {tx[r].item} /\ tx[r].item \notin Spent
    BY <2>1, <2>2, <2>3 DEF Spent
  <2>5. \A c \in Challenges : applied'[c] = applied[c]
    BY <1>1, <2>1, <2>2, <2>3
  <2>6. SetUp' = SetUp
    BY <1>3, <2>5 DEF SetUp
  <2>7. Cardinality(Spent') = Cardinality(Spent) + 1
    BY <1>2, <2>4, FS_AddElement
  <2>. QED
    BY <1>1, <1>2, <2>2, <2>6, <2>7
<1>6. CASE version' = version /\ ~CommitSetup(r) /\ ~CommitReset(r)
  <2>1. Spent' = Spent
    BY <1>1, <1>6 DEF Spent, AppliedWritten
  <2>2. \A c \in Challenges : applied'[c] # applied[c] => challenge'[c].type = "LOGIN" /\ applied[c] = 0
    <3>. SUFFICES ASSUME NEW c \in Challenges, applied'[c] # applied[c]
                  PROVE  challenge'[c].type = "LOGIN" /\ applied[c] = 0
      OBVIOUS
    <3>1. CommitVerification(r) /\ c = tx[r].item
      BY <1>1, <1>6 DEF AppliedWritten
    <3>2. challenge[c].type = "LOGIN" /\ applied[c] = 0
      BY <3>1, VerifyClaim DEF VerificationClaim
    <3>. QED
      BY <1>1, <3>2, AccountAssumption DEF ChallengeWritten
  <2>3. SetUp' = SetUp
    BY <1>3, <2>2 DEF SetUp
  <2>. QED
    BY <1>1, <1>6, <2>1, <2>3
<1>. QED
  BY <1>4, <1>5, <1>6, Writers

(***************************************************************************)
(* Sessions, challenges and reset tokens are used once, by however many    *)
(* requests present them.                                                  *)
(***************************************************************************)
THEOREM UsedOnce == Spec => []SingleUse
<1>1. Init => SingleUse
  <2>. SUFFICES ASSUME Init
                PROVE  SingleUse
    OBVIOUS
  <2>1. \A x \in Challenges \union Resets : applied[x] = 0
    BY DEF Init
  <2>2. Spent = {} /\ SetUp = {}
    BY <2>1 DEF Spent, SetUp
  <2>3. version = 1 + Cardinality(Spent) + Cardinality(SetUp)
    BY <2>2, FS_EmptySet DEF Init
  <2>. QED
    BY <2>1, <2>3 DEF Init, NoSession, SingleUse, Spent, SetUp
<1>2. Core /\ SingleUse /\ [Next]_vars => SingleUse'
  <2>1. ASSUME Core, SingleUse, NEW r \in Requests, Step(r)
        PROVE  SingleUse'
    <3>1. ASSUME NEW x \in Challenges \union Resets
          PROVE  applied'[x] <= 1
      BY <2>1, AppliedWrites DEF AppliedWritten, SingleUse
    <3>2. version' = 1 + Cardinality(Spent') + Cardinality(SetUp')
      BY <2>1, VersionStep
    <3>3. \A s, u \in Sessions :
            session'[s].family # None /\ session'[s].family = session'[u].family
              /\ ~session'[s].used /\ ~session'[u].used => s = u
      BY <2>1, OneUnusedStep
    <3>. QED
      BY <3>1, <3>2, <3>3 DEF SingleUse, Spent, SetUp
  <2>2. CASE SingleUse /\ UNCHANGED vars
    BY <2>2 DEF vars, rows, history, SingleUse
  <2>. QED
    BY <2>1, <2>2 DEF Next, Step
<1>. QED
  BY <1>1, <1>2, CoreInvariant, PTL DEF Spec

-------------------------------------------------------------------------------
(***************************************************************************)
(* Recovery codes.                                                         *)
(***************************************************************************)
LEMMA StatementOf ==
  ASSUME Core, NEW r \in Requests, NEW row \in tx[r].todo
  PROVE  /\ tx[r].at \in 1 .. Len(Plan(tx[r].kind)) /\ tx[r].kind \in Kinds
         /\ row[1] = Table(Statement(r)) /\ Statement(r) \in Statements
<1>1. TypeOK /\ Found(r)
  BY DEF Core, RequestInv
<1>2. tx[r].kind \in Kinds /\ tx[r].at \in 0 .. 4 /\ tx[r].at # 0 /\ tx[r].at <= Len(Plan(tx[r].kind))
  BY <1>1 DEF TypeOK, Found
<1>3. tx[r].at \in 1 .. Len(Plan(tx[r].kind))
  BY <1>2, PlanLength
<1>. QED
  BY <1>2, <1>3, PlanStatements DEF Statement, Core, TableInv

LEMMA CodesStep ==
  ASSUME Core, CodesInv, NEW r \in Requests, Step(r)
  PROVE  CodesInv'
<1>. SUFFICES ASSUME NEW q \in Requests, tx'[q].kind = "setup", tx'[q].at >= 3,
                     NEW c \in Challenges, codes'[c] # "ABSENT"
              PROVE  <<"code", c>> \in tx'[q].todo \union tx'[q].held
  BY DEF CodesInv, Locking
<1>1. TypeOK /\ RequestInv /\ Exclusive /\ UserInv /\ CodesWritten(r)
  BY CodesWrites DEF Core
<1>2. CASE q # r
  <2>1. tx'[q] = tx[q]
    BY <1>1, <1>2, OthersStay DEF Alone
  <2>2. <<"user">> \in tx[q].held
    BY <1>1, <2>1 DEF UserInv, LocksByName
  <2>3. ~CommitSetup(r)
    BY <1>1, <1>2, <2>2, SetupClaim DEF Exclusive
  <2>. QED
    BY <1>1, <2>1, <2>3 DEF CodesWritten, CodesInv, Locking
<1>3. CASE q = r /\ Released(r)
  BY <1>3 DEF Released
<1>4. CASE q = r /\ StartStatement(r)
  <2>1. PICK statement, at : statement = Plan("setup")[tx[r].at + 1] /\ at = tx[r].at + 1
    OBVIOUS
  <2>2. /\ tx[r].kind = "setup" /\ tx'[r].at = at /\ tx'[r].held = tx[r].held /\ tx[r].todo = {}
        /\ at \in 1 .. Len(Plan("setup"))
    BY <1>1, <1>4, <2>1, StartStep
  <2>3. tx'[r].todo = {row \in Named(statement, tx[r].item, tx[r].other) : Matches(statement, row)}
    BY <1>1, <1>4, <2>1, <2>2, StartStep
  <2>4. at \in 1 .. 4 /\ tx[r].at \in 0 .. 4 /\ (statement = "deleteCodes" <=> at = 3)
    BY <1>1, <2>1, <2>2, PlanStatements DEF TypeOK, Kinds
  <2>5. codes[c] # "ABSENT"
    BY <1>4 DEF StartStatement, rows
  <2>6. CASE at = 3
    BY <1>4, <2>3, <2>4, <2>5, <2>6 DEF Named, Matches
  <2>7. CASE at = 4
    BY <1>4, <2>1, <2>2, <2>4, <2>5, <2>7 DEF CodesInv, Locking
  <2>. QED
    BY <1>4, <2>2, <2>4, <2>6, <2>7
<1>5. ASSUME q = r, NEW row \in Rows, LockRow(r, row)
      PROVE  <<"code", c>> \in tx'[q].todo \union tx'[q].held
  <2>1. PICK statement : statement = Statement(r)
    OBVIOUS
  <2>2. /\ tx[r].kind = "setup" /\ tx'[r].at = tx[r].at
        /\ tx'[r].todo = tx[r].todo \ {row} /\ row \in tx[r].todo
        /\ tx'[r].held = IF Matches(statement, row) THEN tx[r].held \union {row} ELSE tx[r].held
    BY <1>1, <1>5, <2>1, LockStep
  <2>3. codes[c] # "ABSENT"
    BY <1>5 DEF LockRow, rows
  <2>4. <<"code", c>> \in tx[r].todo \union tx[r].held
    BY <1>5, <2>2, <2>3 DEF CodesInv, Locking
  <2>5. row = <<"code", c>> => Matches(statement, row)
    <3>1. SUFFICES ASSUME row = <<"code", c>>
                   PROVE  Matches(statement, row)
      OBVIOUS
    <3>2. row[1] = "code" /\ row[2] = c
      BY <3>1
    <3>3. statement \in Statements /\ Table(statement) = "code" /\ tx[r].at \in 1 .. Len(Plan("setup"))
      BY <2>1, <2>2, <3>2, StatementOf
    <3>4. statement # "spendCode"
      BY <2>1, <2>2, <3>3, PlanStatements DEF Statement, Kinds
    <3>5. statement = "deleteCodes"
      BY <3>3, <3>4 DEF Table, Statements
    <3>. QED
      BY <2>3, <3>2, <3>5 DEF Matches
  <2>. QED
    BY <1>5, <2>2, <2>4, <2>5
<1>. QED
  BY <1>1, <1>2, <1>3, <1>4, <1>5, Moves

(***************************************************************************)
(* Recovery codes belong to the enrolled secret: a setup lists those it    *)
(* replaces with the user row held, so that no other setup adds any.       *)
(***************************************************************************)
THEOREM CodesAreOfEnrolment == Spec => []CodesBelongToEnrolment
<1>1. Init => CodesInv /\ CodesBelongToEnrolment
  BY DEF Init, CodesInv, CodesBelongToEnrolment, Idle
<1>2. Core /\ CodesInv /\ CodesBelongToEnrolment /\ [Next]_vars => CodesInv' /\ CodesBelongToEnrolment'
  <2>1. ASSUME Core, CodesInv, CodesBelongToEnrolment, NEW r \in Requests, Step(r)
        PROVE  CodesInv' /\ CodesBelongToEnrolment'
    <3>1. CASE CommitSetup(r)
      <4>1. /\ tx[r].kind = "setup" /\ tx[r].at = 4 /\ tx[r].todo = {}
            /\ codes' = [d \in Challenges |-> IF d = tx[r].item THEN "FRESH"
                                              ELSE IF d \in Held(r, "code") THEN "ABSENT" ELSE codes[d]]
            /\ enrolled' = tx[r].item
        BY <2>1, <3>1, SetupClaim DEF CommitSetup, Done
      <4>2. \A d \in Challenges : codes[d] # "ABSENT" => d \in Held(r, "code")
        <5>1. \A d \in Challenges : codes[d] # "ABSENT" => <<"code", d>> \in tx[r].held
          BY <2>1, <4>1 DEF CodesInv, Locking
        <5>2. TypeOK
          BY <2>1 DEF Core
        <5>. QED
          BY <2>1, <5>1, <5>2, HeldIds
      <4>. QED
        BY <2>1, <4>1, <4>2, CodesStep DEF CodesBelongToEnrolment
    <3>2. CASE ~CommitSetup(r)
      BY <2>1, <3>2, CodesStep, CodesWrites, Writers DEF CodesBelongToEnrolment, CodesWritten
    <3>. QED
      BY <3>1, <3>2
  <2>2. CASE CodesInv /\ CodesBelongToEnrolment /\ UNCHANGED vars
    BY <2>2 DEF vars, rows, CodesInv, Locking, CodesBelongToEnrolment
  <2>. QED
    BY <2>1, <2>2 DEF Next, Step
<1>. QED
  BY <1>1, <1>2, CoreInvariant, PTL DEF Spec

-------------------------------------------------------------------------------
(***************************************************************************)
(* What outlives its revocation.  A session is written for the first time  *)
(* by a rotation, with its family and its authentication, or when it is    *)
(* entered, as a family of its own.                                        *)
(***************************************************************************)
LEMMA NewSession ==
  ASSUME Core, NEW r \in Requests, Step(r), NEW s \in Sessions,
         session[s].family = None, session'[s].family # None
  PROVE  /\ UNCHANGED <<version, ended>>
         /\ \/ \E item \in Sessions :
                 /\ item = tx[r].item /\ tx[r].kind = "rotate" /\ tx[r].at > 0
                 /\ session[item].family # None /\ ~session[item].revoked
                 /\ session'[s].family = session[item].family
                 /\ since'[s] = since[item]
                 /\ item \in late \/ (\E q \in Requests : item \in Covered(q)) => s \in late'
            \/ /\ tx[r].kind = "enter" /\ session'[s].family = s
               /\ since'[s] = since[tx[r].item]
               /\ since'[s] # version \/ (\E q \in Requests : RevokesAll(q)) => s \in late'
<1>1. TypeOK /\ None \notin Sessions
  BY AccountAssumption DEF Core
<1>2. session' # session /\ session' # Revoked(r)
  BY <1>1, RevokedRows
<1>3. CASE CommitRotation(r)
  <2>1. PICK new \in FreeSessions, item \in Sessions :
          /\ item = tx[r].item /\ tx[r].kind = "rotate"
          /\ \A v \in Sessions \ {item, new} : session'[v] = session[v]
          /\ session'[new] = [NoSession EXCEPT !.family = session[item].family]
          /\ session[item].family \in Sessions /\ ~session[item].revoked
          /\ since' = [since EXCEPT ![new] = since[item]]
          /\ late' = IF item \in late \/ (\E q \in Requests : item \in Covered(q))
                       THEN late \union {new} ELSE late
    BY <1>3, RotationWrites
  <2>2. s = new
    BY <1>1, <2>1
  <2>3. since'[s] = since[item] /\ session'[s].family = session[item].family
    BY <1>1, <2>1, <2>2 DEF TypeOK, NoSession
  <2>4. tx[r].at > 0 /\ UNCHANGED <<version, ended>>
    BY <1>3, <2>1, DoneAt DEF CommitRotation, Kinds
  <2>. QED
    BY <1>1, <2>1, <2>2, <2>3, <2>4
<1>4. CASE Enter(r)
  <2>1. PICK new \in FreeSessions :
          /\ session'[new] = [NoSession EXCEPT !.family = new]
          /\ \A v \in Sessions \ {new} : session'[v] = session[v]
          /\ since' = [since EXCEPT ![new] = since[tx[r].item]]
          /\ late' = IF since[tx[r].item] # version \/ (\E q \in Requests : RevokesAll(q))
                       THEN late \union {new} ELSE late
    BY <1>4, EnterWrites
  <2>2. s = new
    BY <2>1
  <2>3. since'[s] = since[tx[r].item] /\ session'[s].family = s
    BY <1>1, <2>1, <2>2 DEF TypeOK, NoSession
  <2>4. tx[r].kind = "enter" /\ UNCHANGED <<version, ended>>
    BY <1>4 DEF Enter
  <2>. QED
    BY <2>1, <2>2, <2>3, <2>4
<1>. QED
  BY <1>2, <1>3, <1>4, Writers DEF CommitRevocation, CommitSetup, CommitReset

LEMMA LateGrows ==
  ASSUME NEW r \in Requests, Step(r)
  PROVE  late \subseteq late'
BY Writers DEF CommitRotation, Enter

LEMMA BehindOthers ==
  ASSUME Core, SnapshotInv, NEW r \in Requests, Step(r), NEW q \in Requests, q # r
  PROVE  Behind(q)'
<1>1. tx'[q] = tx[q]
  BY OthersStay DEF Core, Alone
<1>2. Behind(q) /\ RowInv /\ SessionWritten(r) /\ Found(q) /\ session \in [Sessions -> SessionRows]
  BY SessionWrites DEF SnapshotInv, Core, RequestInv, TypeOK, SessionRows
<1>3. late \subseteq late'
  BY LateGrows
<1>4. PICK item : item = tx[q].item
  OBVIOUS
<1>5. RevokesFamily(q) => item \in Sessions /\ session[item].family # None
  BY <1>2, <1>4 DEF RevokesFamily, Found
<1>6. RevokesAll(q)' = RevokesAll(q) /\ RevokesFamily(q)' = RevokesFamily(q) /\ tx'[q].item = item
  BY <1>1, <1>4 DEF RevokesAll, RevokesFamily
<1>. SUFFICES ASSUME NEW s \in Sessions, session'[s].family # None,
                     \/ RevokesAll(q)
                     \/ RevokesFamily(q) /\ session'[s].family = session'[item].family
              PROVE  session'[s].revoked \/ Locking(q, "session", s) \/ s \in late'
  BY <1>1, <1>6 DEF Behind, Covered, Family, Locking
<1>7. RevokesAll(q) \/ (RevokesFamily(q) /\ session'[s].family = session[item].family)
  BY <1>2, <1>5 DEF SessionWritten
<1>8. CASE session[s].family # None
  <2>1. s \in Covered(q)
    BY <1>2, <1>4, <1>7, <1>8 DEF Covered, Family, SessionWritten
  <2>. QED
    BY <1>2, <1>3, <1>8, <2>1 DEF Behind, SessionWritten
<1>9. CASE session[s].family = None
  <2>1. ASSUME NEW source \in Sessions, session[source].family # None,
               session'[s].family = session[source].family
        PROVE  source \in Covered(q)
    BY <1>4, <1>7, <2>1 DEF Covered, Family
  <2>2. ASSUME RevokesFamily(q), session'[s].family = s
        PROVE  FALSE
    <3>1. CASE RevokesAll(q)
      BY <2>2, <3>1 DEF RevokesAll, RevokesFamily
    <3>2. CASE session'[s].family = session[item].family
      BY <1>2, <1>5, <1>9, <2>2, <3>2 DEF RowInv
    <3>. QED
      BY <1>7, <3>1, <3>2
  <2>. QED
    BY <1>7, <1>9, <2>1, <2>2, NewSession
<1>. QED
  BY <1>8, <1>9

LEMMA BehindStart ==
  ASSUME Core, SnapshotInv, NEW r \in Requests, StartStatement(r)
  PROVE  Behind(r)'
<1>0. TypeOK /\ RequestInv /\ Found(r) /\ Behind(r) /\ session' = session /\ late' = late
  BY DEF Core, RequestInv, SnapshotInv, StartStatement, rows, history
<1>1. PICK kind, item, other : kind = tx[r].kind /\ item = tx[r].item /\ other = tx[r].other
  OBVIOUS
<1>2. PICK statement, at : statement = Plan(kind)[at] /\ at = tx[r].at + 1
  OBVIOUS
<1>3. /\ tx'[r].kind = kind /\ tx'[r].item = item /\ tx'[r].at = at /\ tx'[r].held = tx[r].held
      /\ tx[r].todo = {} /\ at \in 1 .. Len(Plan(kind))
      /\ tx'[r].todo = {row \in Named(statement, item, other) : Matches(statement, row)}
  BY <1>0, <1>1, <1>2, StartStep
<1>4. kind \in Kinds /\ tx[r].at \in 0 .. 4
  BY <1>0, <1>1 DEF TypeOK
<1>7. \A v \in Sessions : <<"session", v>>[1] = "session" /\ <<"session", v>>[2] = v
  OBVIOUS
<1>. SUFFICES ASSUME NEW s \in Covered(r)'
              PROVE  session[s].revoked \/ <<"session", s>> \in tx'[r].todo \union tx[r].held \/ s \in late
  BY <1>0, <1>3 DEF Behind, Locking
<1>5. /\ s \in Sessions /\ session[s].family # None
      /\ \/ kind = "setup" /\ at = 4
         \/ kind = "reset" /\ at >= 3
         \/ kind = "revoke" /\ s \in Family(item)
  BY <1>0, <1>3 DEF Covered, RevokesAll, RevokesFamily, Family
<1>6. CASE kind = "revoke"
  <2>1. at = 1 /\ statement = "revokeFamily"
    BY <1>2, <1>3, <1>6, PlanLength DEF Plan, Kinds
  <2>2. tx'[r].todo = {row \in {"session"} \X Family(item) : Live(row[2])}
    BY <1>3, <2>1 DEF Named, Matches
  <2>3. Live(s) => <<"session", s>> \in tx'[r].todo
    BY <1>5, <1>6, <1>7, <2>2
  <2>. QED
    BY <1>5, <2>3 DEF Live
<1>8. CASE (kind = "setup" /\ at = 4) \/ (kind = "reset" /\ at = 3)
  <2>1. statement = "revokeAll"
    BY <1>2, <1>8 DEF Plan, SetupPlan, ResetPlan
  <2>2. tx'[r].todo = {row \in {"session"} \X Sessions : Live(row[2])}
    BY <1>3, <2>1 DEF Named, Matches
  <2>3. Live(s) => <<"session", s>> \in tx'[r].todo
    BY <1>5, <1>7, <2>2
  <2>. QED
    BY <1>5, <2>3 DEF Live
<1>9. CASE kind = "reset" /\ at >= 3 /\ at # 3
  <2>1. tx[r].at >= 3
    BY <1>2, <1>4, <1>9
  <2>2. s \in Covered(r)
    BY <1>1, <1>5, <1>9, <2>1 DEF Covered, RevokesAll
  <2>. QED
    BY <1>0, <1>3, <2>2 DEF Behind, Locking
<1>. QED
  BY <1>5, <1>6, <1>8, <1>9

LEMMA BehindLock ==
  ASSUME Core, SnapshotInv, NEW r \in Requests, NEW row \in Rows, LockRow(r, row)
  PROVE  Behind(r)'
<1>1. TypeOK /\ Behind(r) /\ session' = session /\ late' = late
  BY DEF Core, SnapshotInv, LockRow, rows, history
<1>2. PICK kind, statement : kind = tx[r].kind /\ statement = Statement(r)
  OBVIOUS
<1>3. /\ tx'[r].kind = kind /\ tx'[r].item = tx[r].item /\ tx'[r].at = tx[r].at
      /\ tx'[r].todo = tx[r].todo \ {row} /\ row \in tx[r].todo
      /\ tx'[r].held = IF Matches(statement, row) THEN tx[r].held \union {row} ELSE tx[r].held
  BY <1>1, <1>2, LockStep
<1>. SUFFICES ASSUME NEW s \in Covered(r)'
              PROVE  session[s].revoked \/ <<"session", s>> \in tx'[r].todo \union tx'[r].held \/ s \in late
  BY <1>1 DEF Behind, Locking
<1>4. s \in Covered(r) /\ s \in Sessions /\ session[s].family # None
  BY <1>1, <1>2, <1>3 DEF Covered, RevokesAll, RevokesFamily, Family
<1>5. session[s].revoked \/ Locking(r, "session", s) \/ s \in late
  BY <1>1, <1>4 DEF Behind
<1>6. ASSUME row = <<"session", s>>, ~session[s].revoked
      PROVE  Matches(statement, row)
  <2>1. row[1] = "session" /\ row[2] = s
    BY <1>6
  <2>2. /\ tx[r].at \in 1 .. Len(Plan(kind)) /\ kind \in Kinds
        /\ Table(statement) = "session" /\ statement \in Statements
    BY <1>2, <1>3, <2>1, StatementOf
  <2>3. kind # "rotate"
    BY <1>2, <1>4 DEF Covered, RevokesAll, RevokesFamily
  <2>4. statement # "exchange"
    BY <1>2, <2>2, <2>3, PlanStatements DEF Statement
  <2>5. statement \in {"revokeFamily", "revokeAll"}
    BY <2>2, <2>4 DEF Table, Statements
  <2>. QED
    BY <1>4, <1>6, <2>1, <2>5 DEF Matches, Live
<1>. QED
  BY <1>3, <1>5, <1>6 DEF Locking

LEMMA SnapshotStep ==
  ASSUME Core, SnapshotInv, NEW r \in Requests, Step(r)
  PROVE  SnapshotInv'
<1>1. Released(r) => Behind(r)'
  BY DEF Behind, Covered, RevokesAll, RevokesFamily, Released
<1>2. Behind(r)'
  BY <1>1, BehindStart, BehindLock, Moves DEF Core
<1>. QED
  BY <1>2, BehindOthers DEF SnapshotInv

(***************************************************************************)
(* A commit that ends a family, or raises the security version, revokes    *)
(* all it covers but what is late.                                         *)
(***************************************************************************)
LEMMA CommitRevokes ==
  ASSUME Core, SnapshotInv, NEW r \in Requests, NEW s \in Covered(r),
         CommitRevocation(r) \/ CommitSetup(r) \/ CommitReset(r)
  PROVE  session'[s].revoked \/ s \in late
<1>1. tx[r].todo = {} /\ session' = Revoked(r)
  BY DEF CommitRevocation, CommitSetup, CommitReset, Done
<1>2. TypeOK /\ s \in Sessions
  BY DEF Core, Covered
<1>3. session[s].revoked \/ <<"session", s>> \in tx[r].held \/ s \in late
  BY <1>1, <1>2 DEF SnapshotInv, Behind, Locking
<1>4. CASE <<"session", s>> \in tx[r].held
  BY <1>1, <1>2, <1>4, RevokedRows
<1>5. CASE <<"session", s>> \notin tx[r].held
  BY <1>1, <1>2, <1>3, <1>5, RevokedRows
<1>. QED
  BY <1>4, <1>5

LEMMA SurvivorStep ==
  ASSUME Core, SnapshotInv, EndedInv, SurvivorsOverlap, NEW r \in Requests, Step(r)
  PROVE  EndedInv' /\ SurvivorsOverlap'
<1>1. TypeOK /\ RowInv /\ Found(r) /\ SessionWritten(r) /\ session \in [Sessions -> SessionRows]
  BY SessionWrites DEF Core, RequestInv, TypeOK, SessionRows
<1>2. late \subseteq late'
  BY LateGrows
<1>3. ASSUME NEW f \in ended', f \notin ended
      PROVE  CommitRevocation(r) /\ f = session[tx[r].item].family
  BY <1>3, Writers DEF CommitRevocation
<1>4. \A f \in ended' : session[f].family # None /\ f \in Sessions
  <2>. SUFFICES ASSUME NEW f \in ended'
                PROVE  session[f].family # None /\ f \in Sessions
    OBVIOUS
  <2>1. CASE f \in ended
    BY <1>1, <2>1 DEF EndedInv, TypeOK
  <2>2. CASE f \notin ended
    <3>1. tx[r].kind = "revoke" /\ f = session[tx[r].item].family
      BY <1>3, <2>2 DEF CommitRevocation, Done
    <3>2. PICK u \in Sessions : u = tx[r].item /\ session[u].family # None
      BY <1>1, <3>1 DEF Found
    <3>3. f \in Sessions /\ session[f].family = f
      BY <1>1, <3>1, <3>2 DEF RowInv, SessionRows
    <3>. QED
      BY <3>3, AccountAssumption
  <2>. QED
    BY <2>1, <2>2
<1>5. EndedInv'
  BY <1>1, <1>4 DEF EndedInv, SessionWritten
<1>6. ASSUME NEW s \in Sessions, session[s].family # None,
             session'[s].family # None, ~session'[s].revoked, Outlived(s)'
      PROVE  s \in late'
  <2>1. session'[s].family = session[s].family /\ ~session[s].revoked
    BY <1>1, <1>6 DEF SessionWritten
  <2>2. since'[s] = since[s]
    <3>1. CommitRotation(r) => since'[s] = since[s]
      BY <1>1, <1>6, RotationWrites DEF FreeSessions, TypeOK
    <3>2. Enter(r) => since'[s] = since[s]
      BY <1>1, <1>6, EnterWrites DEF FreeSessions, TypeOK
    <3>3. CommitSetup(r) \/ CommitVerification(r) => since'[s] = since[s]
      <4>1. CommitSetup(r) \/ CommitVerification(r) => tx[r].item \in Challenges
        BY <1>1 DEF CommitSetup, CommitVerification, Done, Found
      <4>. QED
        BY <1>1, <4>1, AccountAssumption DEF CommitSetup, CommitVerification, TypeOK
    <3>. QED
      BY <3>1, <3>2, <3>3, Writers
  <2>3. CASE Outlived(s)
    BY <1>2, <1>6, <2>1, <2>3 DEF SurvivorsOverlap, Live
  <2>4. CASE ~Outlived(s) /\ session[s].family \in ended'
    <3>1. CommitRevocation(r) /\ session[s].family = session[tx[r].item].family
      BY <1>3, <2>4 DEF Outlived
    <3>2. tx[r].kind = "revoke" /\ tx[r].at > 0
      BY <3>1, DoneAt DEF CommitRevocation, Kinds
    <3>3. s \in Covered(r)
      BY <1>6, <3>1, <3>2 DEF Covered, RevokesFamily, Family
    <3>. QED
      BY <1>2, <1>6, <3>1, <3>3, CommitRevokes
  <2>5. CASE ~Outlived(s) /\ version' # version
    <3>1. CommitSetup(r) \/ CommitReset(r)
      BY <2>5, Writers
    <3>2. RevokesAll(r)
      BY <3>1, DoneAt DEF CommitSetup, CommitReset, Kinds, RevokesAll
    <3>3. s \in Covered(r)
      BY <1>6, <3>2 DEF Covered
    <3>. QED
      BY <1>2, <1>6, <3>1, <3>3, CommitRevokes
  <2>. QED
    BY <1>6, <2>1, <2>2, <2>3, <2>4, <2>5 DEF Outlived
<1>7. ASSUME NEW s \in Sessions, session[s].family = None,
             session'[s].family # None, Outlived(s)'
      PROVE  s \in late'
  <2>1. UNCHANGED <<version, ended>>
    BY <1>7, NewSession
  <2>2. CASE session'[s].family = s
    <3>1. s \notin ended
      BY <1>7 DEF EndedInv
    <3>2. since'[s] # version
      BY <1>7, <2>1, <2>2, <3>1 DEF Outlived
    <3>3. ASSUME NEW item \in Sessions, session[item].family # None,
                 session'[s].family = session[item].family
          PROVE  FALSE
      BY <1>1, <1>7, <2>2, <3>3 DEF RowInv
    <3>. QED
      BY <1>7, <3>2, <3>3, NewSession
  <2>3. CASE session'[s].family # s
    <3>1. PICK item \in Sessions :
            /\ session[item].family # None /\ ~session[item].revoked
            /\ session'[s].family = session[item].family
            /\ since'[s] = since[item]
            /\ item \in late => s \in late'
      BY <1>7, <2>3, NewSession
    <3>2. Outlived(item)
      BY <1>7, <2>1, <3>1 DEF Outlived
    <3>. QED
      BY <3>1, <3>2 DEF SurvivorsOverlap, Live
  <2>. QED
    BY <2>2, <2>3
<1>. QED
  BY <1>5, <1>6, <1>7 DEF SurvivorsOverlap, Live

SurvivorInv == SnapshotInv /\ EndedInv /\ SurvivorsOverlap

LEMMA SurvivorInvariant == Spec => []SurvivorInv
<1>1. Init => SurvivorInv
  BY DEF Init, SurvivorInv, SnapshotInv, Behind, Covered, EndedInv, SurvivorsOverlap, Live, NoSession
<1>2. Core /\ SurvivorInv /\ [Next]_vars => SurvivorInv'
  <2>1. CASE Core /\ SurvivorInv /\ Next
    <3>1. PICK r \in Requests : Step(r)
      BY <2>1 DEF Next, Step
    <3>. QED
      BY <2>1, <3>1, SnapshotStep, SurvivorStep DEF SurvivorInv
  <2>2. CASE SurvivorInv /\ UNCHANGED vars
    BY <2>2 DEF vars, rows, history, SurvivorInv, SnapshotInv, Behind, Covered, RevokesAll, RevokesFamily,
                Family, Locking, EndedInv, SurvivorsOverlap, Live, Outlived
  <2>. QED
    BY <2>1, <2>2
<1>. QED
  BY <1>1, <1>2, CoreInvariant, PTL DEF Spec

(***************************************************************************)
(* A session outlives a logout, a reuse, a setup or a reset only if it was *)
(* inserted behind the statement that revokes, or for a challenge that was *)
(* verified before, or was exchanged for such a session.                   *)
(***************************************************************************)
THEOREM SurvivorsAreLate == Spec => []SurvivorsOverlap
<1>1. SurvivorInv => SurvivorsOverlap
  BY DEF SurvivorInv
<1>. QED
  BY <1>1, SurvivorInvariant, PTL

(***************************************************************************)
(* A request that has completed a challenge is about to enter its session. *)
(***************************************************************************)
LEMMA EntersBy ==
  ASSUME Core, NEW r \in Requests, Step(r), tx'[r].kind = "enter"
  PROVE  \/ CommitSetup(r) \/ CommitVerification(r)
         \/ tx'[r].item = tx[r].item /\ tx[r].kind = "enter" /\ UNCHANGED <<since, version>>
<1>. DEFINE Elsewhere == tx'[r].kind # "enter"
<1>0. TypeOK
  BY DEF Core
<1>1. Ends(r) => Elsewhere
  BY <1>0, EndsTo DEF Idle
<1>2. ASSUME NEW kind \in Kinds \ {"enter"}, NEW item \in Items, NEW other \in Items \union {"SETUP", "LOGIN"},
             Goes(r, kind, item, other)
      PROVE  Elsewhere
  BY <1>0, <1>2, GoesTo
<1>3. tx[r].item \in Items /\ None \in Items
  BY <1>0 DEF TypeOK, Items
<1>. HIDE DEF Elsewhere
<1>4. CASE SessionStep(r)
  <2>1. ASSUME NEW s \in Sessions, Rotate(r, s) \/ Logout(r, s)
        PROVE  Elsewhere
    BY <1>2, <1>3, <2>1 DEF Rotate, Logout, Kinds, Items
  <2>2. CommitRotation(r) \/ CommitRevocation(r) => Elsewhere
    BY <1>1 DEF CommitRotation, CommitRevocation
  <2>3. RotationMissed(r) => Elsewhere
    BY <1>2, <1>3 DEF RotationMissed, Kinds
  <2>. QED
    BY <1>4, <2>1, <2>2, <2>3 DEF SessionStep, Elsewhere
<1>5. CASE ChallengeStep(r)
  <2>1. Login(r) => Elsewhere
    BY <1>2, <1>3 DEF Login, Kinds
  <2>2. ASSUME NEW c \in Challenges, Verify(r, c)
        PROVE  Elsewhere
    <3>1. c \in Items /\ Challenges \subseteq Items
      BY DEF Items
    <3>2. Goes(r, "fail", c, None) => Elsewhere
      BY <1>2, <1>3, <3>1 DEF Kinds
    <3>3. Goes(r, Completion(c), c, None) => Elsewhere
      BY <1>2, <1>3, <3>1 DEF Kinds, Completion
    <3>4. ASSUME NEW setup \in Challenges, Goes(r, "code", c, setup)
          PROVE  Elsewhere
      BY <1>2, <3>1, <3>4 DEF Kinds
    <3>. QED
      BY <2>2, <3>2, <3>3, <3>4 DEF Verify
  <2>3. CommitLogin(r) \/ CommitFailure(r) \/ CompletionMissed(r) \/ Enter(r) => Elsewhere
    BY <1>1 DEF CommitLogin, CommitFailure, CompletionMissed, Enter
  <2>4. CommitCode(r) \/ CodeMissed(r) => Elsewhere
    BY <1>2, <1>3 DEF CommitCode, CodeMissed, Kinds
  <2>. QED
    BY <1>5, <2>1, <2>2, <2>3, <2>4 DEF ChallengeStep, Elsewhere
<1>6. CASE ResetStep(r)
  <2>1. Forgot(r) => Elsewhere
    BY <1>2, <1>3 DEF Forgot, Kinds
  <2>2. ASSUME NEW t \in Resets, ResetPassword(r, t)
        PROVE  Elsewhere
    BY <1>2, <1>3, <2>2 DEF ResetPassword, Kinds, Items
  <2>3. CommitForgot(r) \/ CommitReset(r) \/ ResetMissed(r) => Elsewhere
    BY <1>1 DEF CommitForgot, CommitReset, ResetMissed
  <2>. QED
    BY <1>6, <2>1, <2>2, <2>3 DEF ResetStep, Elsewhere
<1>7. CASE StatementStep(r)
  <2>1. DeadlockVictim(r) => Elsewhere
    BY <1>1 DEF DeadlockVictim
  <2>2. StartStatement(r) \/ (\E row \in Rows : LockRow(r, row)) =>
          tx'[r].kind = tx[r].kind /\ tx'[r].item = tx[r].item
    BY StartStep, LockStep DEF Core
  <2>3. UNCHANGED <<since, version>>
    BY <1>7 DEF StatementStep, StartStatement, LockRow, DeadlockVictim, rows, history
  <2>. QED
    BY <1>7, <2>1, <2>2, <2>3 DEF StatementStep, Elsewhere
<1>. QED
  BY <1>4, <1>5, <1>6, <1>7 DEF Step

LEMMA EnterStep ==
  ASSUME Core, RevocationsAlone, EnterInv, NEW r \in Requests, Step(r)
  PROVE  EnterInv'
<1>. SUFFICES ASSUME NEW q \in Requests, tx'[q].kind = "enter"
              PROVE  since'[tx'[q].item] = version'
  BY DEF EnterInv
<1>1. TypeOK /\ RequestInv
  BY DEF Core
<1>2. CASE q = r
  <2>1. PICK item : item = tx[r].item
    OBVIOUS
  <2>2. CASE CommitSetup(r)
    <3>1. item \in Challenges
      BY <1>1, <2>1, <2>2 DEF CommitSetup, Done, RequestInv, Found
    <3>2. tx'[r].item = item
      BY <1>1, <2>1, <2>2, <3>1, GoesTo DEF CommitSetup, Kinds, Items
    <3>. QED
      BY <1>1, <1>2, <2>1, <2>2, <3>1, <3>2 DEF CommitSetup, TypeOK
  <2>3. CASE CommitVerification(r)
    <3>1. item \in Challenges
      BY <1>1, <2>1, <2>3 DEF CommitVerification, Done, RequestInv, Found
    <3>2. tx'[r].item = item
      BY <1>1, <2>1, <2>3, <3>1, GoesTo DEF CommitVerification, Kinds, Items
    <3>. QED
      BY <1>1, <1>2, <2>1, <2>3, <3>1, <3>2 DEF CommitVerification, TypeOK
  <2>4. CASE tx'[r].item = tx[r].item /\ tx[r].kind = "enter" /\ UNCHANGED <<since, version>>
    BY <1>2, <2>4 DEF EnterInv
  <2>. QED
    BY <1>2, <2>2, <2>3, <2>4, EntersBy
<1>3. CASE q # r
  <2>1. tx'[q] = tx[q]
    BY <1>1, <1>3, OthersStay DEF Alone
  <2>2. PICK item \in Challenges : item = tx[q].item
    BY <1>1, <2>1 DEF RequestInv, Found
  <2>3. since[item] = version /\ ~RevokesAll(r)
    BY <2>1, <2>2 DEF EnterInv, RevocationsAlone
  <2>4. ~CommitSetup(r) /\ ~CommitReset(r)
    BY <2>3, DoneAt DEF CommitSetup, CommitReset, Kinds, RevokesAll
  <2>5. version' = version
    BY <2>4, Writers
  <2>6. CommitRotation(r) \/ Enter(r) => since'[item] = since[item]
    <3>1. SUFFICES ASSUME CommitRotation(r) \/ Enter(r)
                   PROVE  since'[item] = since[item]
      OBVIOUS
    <3>2. PICK new \in Sessions : \E v : since' = [since EXCEPT ![new] = v]
      BY <3>1 DEF CommitRotation, Enter, FreeSessions
    <3>3. item # new
      BY AccountAssumption
    <3>. QED
      BY <1>1, <3>2, <3>3 DEF TypeOK
  <2>8. CommitVerification(r) => since'[item] = version \/ since'[item] = since[item]
    BY <1>1 DEF CommitVerification, TypeOK
  <2>9. since'[item] = version
    BY <2>3, <2>4, <2>6, <2>8, Writers
  <2>. QED
    BY <2>1, <2>2, <2>5, <2>9
<1>. QED
  BY <1>2, <1>3

(***************************************************************************)
(* Revoking is immediate if no rotation gets its row while a statement     *)
(* that revokes the family is under way, and if no challenge has been      *)
(* completed whose session is not yet inserted when all are revoked.       *)
(***************************************************************************)
THEOREM RevocationsAloneAreImmediate ==
  Spec /\ []RevocationsAlone => []RevocationIsImmediate
<1>. DEFINE Inv == late = {} /\ EnterInv
<1>1. Init => Inv
  BY DEF Init, Idle, EnterInv
<1>2. Core /\ RevocationsAlone /\ Inv /\ [Next]_vars => Inv'
  <2>1. ASSUME Core, RevocationsAlone, Inv, NEW r \in Requests, Step(r)
        PROVE  Inv'
    <3>2. late' = {}
      <4>1. CASE CommitRotation(r)
        <5>1. PICK item : item = tx[r].item
          OBVIOUS
        <5>2. tx[r].kind = "rotate" /\ tx[r].at > 0
          BY <4>1, DoneAt DEF CommitRotation, Kinds
        <5>3. \A q \in Requests : item \notin Covered(q)
          BY <2>1, <5>1, <5>2 DEF RevocationsAlone
        <5>4. item \notin late
          BY <2>1
        <5>. QED
          BY <2>1, <4>1, <5>1, <5>3, <5>4 DEF CommitRotation
      <4>2. CASE Enter(r)
        <5>1. tx[r].kind = "enter"
          BY <4>2 DEF Enter
        <5>2. since[tx[r].item] = version /\ \A q \in Requests : ~RevokesAll(q)
          BY <2>1, <5>1 DEF EnterInv, RevocationsAlone
        <5>. QED
          BY <2>1, <4>2, <5>2 DEF Enter
      <4>. QED
        BY <2>1, <4>1, <4>2, Writers
    <3>. QED
      BY <2>1, <3>2, EnterStep
  <2>2. CASE Inv /\ UNCHANGED vars
    BY <2>2 DEF vars, rows, history, EnterInv
  <2>. QED
    BY <2>1, <2>2 DEF Next, Step
<1>3. SurvivorsOverlap /\ Inv => RevocationIsImmediate
  BY DEF SurvivorsOverlap, RevocationIsImmediate, Exchangeable
<1>. HIDE DEF Inv
<1>. QED
  BY <1>1, <1>2, <1>3, CoreInvariant, SurvivorsAreLate, PTL DEF Spec

-------------------------------------------------------------------------------
(***************************************************************************)
(* Deadlocks.                                                              *)
(***************************************************************************)
LEMMA Waiting ==
  ASSUME NEW r \in Requests, NEW q \in Requests, r \in WaitsFor(q)
  PROVE  r # q /\ \E row \in tx[q].todo : row \in tx[r].held
BY DEF WaitsFor, Holders

\* r holds a, which q wants, and wants b, which q holds.
Crossed(r, q, a, b) ==
  /\ r # q
  /\ a \in tx[r].held /\ a \in tx[q].todo
  /\ b \in tx[q].held /\ b \in tx[r].todo

\* A row of a table is told from the others by its id.
LEMMA SameRow ==
  ASSUME NEW a \in Rows, NEW b \in Rows, a # b, a[1] = b[1]
  PROVE  \E table \in {"session", "challenge", "code", "reset"} :
           \E x, y : a = <<table, x>> /\ b = <<table, y>> /\ x # y
<1>1. a[1] # "user"
  BY RowCases
<1>2. PICK x : a = <<a[1], x>>
  BY <1>1, RowCases
<1>3. PICK y : b = <<b[1], y>>
  BY <1>1, RowCases
<1>4. a[1] \in {"session", "challenge", "code", "reset"}
  BY <1>1, RowTables
<1>. QED
  BY <1>2, <1>3, <1>4

LEMMA CrossedInOneTable ==
  ASSUME Core, NEW r \in Requests, NEW q \in Requests, NEW a, NEW b, Crossed(r, q, a, b), a[1] = b[1]
  PROVE  Statement(r) \in OfSeveralRows
<1>1. PICK kind, statement : kind = tx[r].kind /\ statement = Statement(r)
  OBVIOUS
<1>2. /\ tx[r].at \in 1 .. Len(Plan(kind)) /\ kind \in Kinds
      /\ b[1] = Table(statement) /\ statement \in Statements
  BY <1>1, StatementOf DEF Crossed
<1>3. /\ statement = "exchange" => kind = "rotate"
      /\ statement = "consume" => kind \in {"setup", "verify"}
      /\ statement = "countFailure" => kind = "fail"
      /\ statement = "spendCode" => kind = "code"
      /\ statement = "deleteCodes" => kind = "setup" /\ tx[r].at = 3
      /\ statement = "spendReset" => kind = "reset"
  BY <1>1, <1>2, PlanStatements DEF Statement
<1>4. a \in Rows /\ b \in Rows /\ a # b /\ Placed(r) /\ Placed(q) /\ UserInv
  BY DEF Core, TypeOK, PlaceInv, Exclusive, Crossed
<1>5. PICK table \in {"session", "challenge", "code", "reset"} :
         \E x, y : a = <<table, x>> /\ b = <<table, y>> /\ x # y
  BY <1>4, SameRow
<1>6. PICK x, y : a = <<table, x>> /\ b = <<table, y>> /\ x # y
  BY <1>5
<1>7. a[1] = table /\ b[1] = table
  BY <1>6
<1>8. /\ table = "session" => x \in Sessions /\ y \in Sessions
      /\ table \in {"challenge", "code"} => x \in Challenges /\ y \in Challenges
      /\ table = "reset" => x \in Resets /\ y \in Resets
  BY <1>4, <1>6, <1>7 DEF Rows
<1>9. Locking(r, table, x) /\ Locking(r, table, y) /\ Locking(q, table, x) /\ Locking(q, table, y)
  BY <1>6 DEF Crossed, Locking
<1>10. statement \notin {"exchange", "consume", "countFailure", "spendCode", "spendReset", "user"}
  BY <1>1, <1>2, <1>3, <1>4, <1>6, <1>7, <1>8, <1>9 DEF Placed, Table, Statements
<1>11. statement # "deleteCodes"
  <2>1. SUFFICES ASSUME statement = "deleteCodes"
                 PROVE  FALSE
    OBVIOUS
  <2>2. kind = "setup" /\ tx[r].at = 3 /\ table = "code"
    BY <1>2, <1>3, <1>7, <2>1 DEF Table
  <2>3. tx[q].kind = "setup" /\ tx[q].at \in 1 .. 4 /\ tx[q].at >= 3
    <3>1. tx[q].kind = "setup" /\ tx[q].at >= 3
      BY <1>4, <1>6, <1>8, <1>9, <2>2 DEF Placed
    <3>. QED
      BY <3>1 DEF Core, TypeOK
  <2>4. tx[r].kind = "setup" /\ tx[r].at >= 3
    BY <1>1, <2>2
  <2>5. <<"user">> \in tx[r].held
    BY <1>4, <2>4 DEF UserInv, LocksByName
  <2>6. <<"user">> \in tx[q].held
    BY <1>4, <2>3 DEF UserInv, LocksByName
  <2>. QED
    BY <2>5, <2>6 DEF Core, Exclusive, Crossed
<1>. QED
  BY <1>1, <1>2, <1>10, <1>11 DEF Statements, OfSeveralRows

\* With locks in one table and wishes in another, a transaction is past its first statement.
LEMMA TwoTables ==
  ASSUME Core, NEW r \in Requests, NEW a \in tx[r].held, NEW b \in tx[r].todo, a[1] # b[1]
  PROVE  /\ tx[r].kind \in {"setup", "verify", "reset"} /\ tx[r].at \in 2 .. 4
         /\ tx[r].at = 2 => Statement(r) = "user"
         /\ tx[r].at >= 3 => <<"user">> \in tx[r].held
<1>1. PICK kind, at, statement : kind = tx[r].kind /\ at = tx[r].at /\ statement = Statement(r)
  OBVIOUS
<1>2. at \in 1 .. Len(Plan(kind)) /\ kind \in Kinds /\ b[1] = Table(statement)
  BY <1>1, StatementOf
<1>3. /\ statement \in Statements /\ at \in 1 .. 4
      /\ statement = "exchange" <=> kind = "rotate"
      /\ statement = "revokeFamily" <=> kind = "revoke"
      /\ statement = "revokeAll" <=> (kind = "setup" /\ at = 4) \/ (kind = "reset" /\ at = 3)
      /\ statement = "consume" <=> kind \in {"setup", "verify"} /\ at = 1
      /\ statement = "countFailure" <=> kind = "fail"
      /\ statement = "closeChallenges" <=> kind = "login" \/ (kind = "reset" /\ at = 4)
      /\ statement = "spendCode" <=> kind = "code"
      /\ statement = "spendReset" <=> kind = "reset" /\ at = 1
      /\ statement = "closeResets" <=> kind = "forgot"
      /\ statement = "user" <=> kind \in {"setup", "verify", "reset"} /\ at = 2
  BY <1>1, <1>2, PlanStatements DEF Statement
<1>4. a \in Rows /\ Placed(r) /\ LocksByName(r)
  BY DEF Core, TypeOK, PlaceInv, UserInv
<1>5. /\ a = <<"user">> => kind \in {"setup", "verify", "reset"} /\ at >= 2
      /\ a[1] = "session" => kind \in {"rotate", "revoke"} \/ (kind = "setup" /\ at = 4) \/ (kind = "reset" /\ at >= 3)
      /\ a[1] = "challenge" => kind \in {"fail", "setup", "verify", "login"} \/ (kind = "reset" /\ at = 4)
      /\ a[1] = "code" => kind = "code" \/ (kind = "setup" /\ at >= 3)
      /\ a[1] = "reset" => kind \in {"forgot", "reset"}
      /\ a[1] = "user" => a = <<"user">>
  BY <1>1, <1>4, RowCases DEF Placed, Locking
<1>6. kind \in {"setup", "verify", "reset"}
  BY <1>2, <1>3, <1>4, <1>5, RowTables DEF Table, Kinds
<1>7. at # 1
  BY <1>2, <1>3, <1>4, <1>5, <1>6, RowTables DEF Table
<1>8. at >= 3 => kind \in {"setup", "reset"}
  <2>1. PICK n : n = Len(Plan(kind))
    OBVIOUS
  <2>2. at \in 1 .. n /\ (kind = "verify" => n = 2)
    BY <1>2, <2>1, PlanLength
  <2>. QED
    BY <1>6, <2>2
<1>. QED
  BY <1>1, <1>3, <1>4, <1>6, <1>7, <1>8 DEF LocksByName

LEMMA CrossedInTwoTables ==
  ASSUME Core, NEW r \in Requests, NEW q \in Requests, NEW a, NEW b, Crossed(r, q, a, b), a[1] # b[1],
         tx[r].at = 2
  PROVE  Statement(r) = "user" /\ Statement(q) = "closeChallenges"
<1>1. a \in Rows /\ b \in Rows /\ a \in tx[r].held /\ b \in tx[r].todo /\ b \in tx[q].held /\ a \in tx[q].todo
  BY DEF Core, TypeOK, Crossed
<1>2. Statement(r) = "user" /\ tx[r].kind \in {"setup", "verify", "reset"}
  BY <1>1, TwoTables
<1>3. b[1] = "user"
  BY <1>1, <1>2, StatementOf DEF Table
<1>4. PICK kind, at, statement : kind = tx[q].kind /\ at = tx[q].at /\ statement = Statement(q)
  OBVIOUS
<1>5. /\ at \in 1 .. Len(Plan(kind)) /\ kind \in Kinds
      /\ a[1] = Table(statement) /\ statement \in Statements
  BY <1>1, <1>4, StatementOf
<1>6. kind \in {"setup", "verify", "reset"} /\ at \in 2 .. 4 /\ (at = 2 => statement = "user")
  BY <1>1, <1>4, TwoTables
<1>7. statement \in {"user", "deleteCodes", "revokeAll", "closeChallenges"}
  BY <1>4, <1>5, <1>6, PlanStatements DEF Statement, Statements
<1>8. a[1] \notin {"session", "code", "user"}
  <2>1. Placed(r)
    BY DEF Core, PlaceInv
  <2>2. a = <<a[1], a[2]>> \/ a[1] = "user"
    BY <1>1, RowCases
  <2>3. a[1] = "session" => a[2] \in Sessions
    BY <1>1, RowCases
  <2>4. a[1] = "code" => a[2] \in Challenges
    BY <1>1, RowCases
  <2>. QED
    BY <1>1, <1>2, <1>3, <2>1, <2>2, <2>3, <2>4 DEF Placed, Locking
<1>. QED
  BY <1>2, <1>4, <1>5, <1>7, <1>8 DEF Table

(***************************************************************************)
(* Two transactions that wait for each other are a reset and a completion, *)
(* or lock several rows of one table each: where one is past the user row, *)
(* the other is not.                                                       *)
(***************************************************************************)
THEOREM DeadlocksAreFew == Spec => []DeadlocksAreKnown
<1>1. Core => DeadlocksAreKnown
  <2>. SUFFICES ASSUME Core, NEW r \in Requests, NEW q \in Requests, r \in WaitsFor(q), q \in WaitsFor(r)
                PROVE  \/ {Statement(r), Statement(q)} = {"user", "closeChallenges"}
                       \/ {Statement(r), Statement(q)} \subseteq OfSeveralRows
    BY DEF DeadlocksAreKnown
  <2>1. PICK a, b : Crossed(r, q, a, b)
    BY Waiting DEF Crossed
  <2>2. Crossed(q, r, b, a)
    BY <2>1 DEF Crossed
  <2>3. CASE a[1] = b[1]
    BY <2>1, <2>2, <2>3, CrossedInOneTable
  <2>4. CASE a[1] # b[1]
    <3>1. /\ tx[r].at \in 2 .. 4 /\ (tx[r].at >= 3 => <<"user">> \in tx[r].held)
          /\ tx[q].at \in 2 .. 4 /\ (tx[q].at >= 3 => <<"user">> \in tx[q].held)
      BY <2>1, <2>4, TwoTables DEF Crossed
    <3>2. ~(<<"user">> \in tx[r].held /\ <<"user">> \in tx[q].held)
      BY <2>1 DEF Core, Exclusive, Crossed
    <3>3. tx[r].at = 2 \/ tx[q].at = 2
      BY <3>1, <3>2
    <3>. QED
      BY <2>1, <2>2, <2>4, <3>3, CrossedInTwoTables
  <2>. QED
    BY <2>3, <2>4
<1>. QED
  BY <1>1, CoreInvariant, PTL
================================================================================
