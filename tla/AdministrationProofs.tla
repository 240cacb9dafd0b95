------------------------- MODULE AdministrationProofs -------------------------
(***************************************************************************)
(* A revoked session stays revoked, for any number of sessions, keys and   *)
(* calls of verifySession; a key in use has its rotation on record, for    *)
(* any keys rotated, rotations, reloads and restarts; and the backup codes *)
(* of a batch run out, for any number of codes and of calls at a time.     *)
(* Then the types of all seven parts, alone and composed.                  *)
(***************************************************************************)
EXTENDS MCAdministration, Counting, SequenceTheorems

-----------------------------------------------------------------------------
(* Sessions                                                                *)

\* Numbers are given once: a row belongs to a session that was made
MadeInv ==
    /\ created \in Seq(Users)
    /\ sessions \subseteq Made

\* A late call has a session whose row is gone, and has not got beyond the
\* statement that would have to find it
LateInv ==
    /\ verify \in [Verifies -> VerifySteps]
    /\ verifying \in [Verifies -> {0} \cup Made]
    /\ late \subseteq Verifies
    /\ \A v \in late : /\ verify[v] \in {"reading", "null"}
                       /\ verifying[v] \in Made \ sessions

Inv == MadeInv /\ LateInv

\* The number of a new session is that of no old one, revoked or not.
LEMMA NewNumber ==
    ASSUME MadeInv
    PROVE  /\ Made = 1 .. Len(created)
           /\ Cardinality(Made) + 1 = Len(created) + 1
           /\ Cardinality(Made) + 1 \notin Made
<1>1. Len(created) \in Nat /\ Made = 1 .. Len(created)
    BY DEF MadeInv, Made
<1> DEFINE n == Len(created)
<1>2. n \in Nat
    BY <1>1
<1>3. Cardinality(1 .. n) = IF 1 > n THEN 0 ELSE n - 1 + 1
    BY <1>2, FS_Interval
<1>4. Cardinality(1 .. n) = n
    BY <1>2, <1>3
<1>5. n + 1 \notin 1 .. n
    BY <1>2
<1> QED BY <1>1, <1>4, <1>5

\* A step that makes no session, deletes rows or none and leaves the calls
\* alone keeps the invariant.
LEMMA RowsOnly ==
    ASSUME Inv, UNCHANGED <<created, callVars>>, sessions' \subseteq sessions
    PROVE  Inv'
BY DEF Inv, MadeInv, LateInv, Made, callVars

\* So does the step of a call that is on its way, unless it returns the
\* session though it is late.
LEMMA CallGoes ==
    ASSUME Inv, NEW v \in Verifies, NEW to \in VerifySteps, Goes(v, to),
           UNCHANGED created, sessions' \subseteq sessions,
           v \in late => to \in {"reading", "null"}
    PROVE  Inv'
<1>1. MadeInv'
    BY DEF Inv, MadeInv, Made
<1>2. verify' \in [Verifies -> VerifySteps] /\ UNCHANGED <<verifying, late>>
    BY DEF Inv, LateInv, Goes
<1>3. \A w \in late : verify'[w] \in {"reading", "null"}
    BY DEF Inv, LateInv, Goes
<1> QED BY <1>1, <1>2, <1>3 DEF Inv, LateInv, Made

\* At the start no session was made and no call begun.
LEMMA InvHolds == SessionsInit => Inv
BY DEF SessionsInit, Inv, MadeInv, LateInv, Made, VerifySteps

\* Every step of a call, of the admin or of the secrets keeps what revocation
\* rests on.
LEMMA InvKept == Inv /\ [SessionsNext]_sessionVars => Inv'
<1> SUFFICES ASSUME Inv, [SessionsNext]_sessionVars PROVE Inv'
    OBVIOUS
<1>1. ASSUME NEW u \in Users, NEW need \in BOOLEAN, CreateSession(u, need)
      PROVE  Inv'
  <2> DEFINE s == Cardinality(Made) + 1
  <2>1. s = Len(created) + 1 /\ s \notin Made /\ Made = 1 .. Len(created)
      BY NewNumber DEF Inv
  <2>2. /\ created' = Append(created, u) /\ sessions' = sessions \cup {s}
        /\ UNCHANGED callVars
      BY <1>1 DEF CreateSession, SaveSession
  <2>3. created' \in Seq(Users) /\ Made' = Made \cup {s}
      BY <2>1, <2>2 DEF Inv, MadeInv, Made
  <2>4. MadeInv'
      BY <2>2, <2>3 DEF Inv, MadeInv
  <2>5. LateInv'
      BY <2>1, <2>2, <2>3 DEF Inv, LateInv, callVars
  <2> QED BY <2>4, <2>5 DEF Inv
<1>2. CASE NewSigningKey
    BY <1>2, RowsOnly DEF NewSigningKey, rowVars
<1>3. CASE SessionsTick
    BY <1>3, RowsOnly DEF SessionsTick, tokenVars
<1>4. ASSUME NEW gone, Revoke(gone) PROVE Inv'
    BY <1>4, RowsOnly DEF Revoke, Delete, tokenVars
<1>5. ASSUME NEW s \in Made, NEW passed \in BOOLEAN, UpdateTwoFactorStatus(s, passed)
      PROVE  Inv'
    BY <1>5, RowsOnly DEF UpdateTwoFactorStatus, tokenVars
<1>6. ASSUME NEW v \in Verifies, NEW s \in Made, StartVerify(v, s)
      PROVE  Inv'
  <2>1. UNCHANGED <<created, sessions>> /\ v \notin late
      BY <1>6 DEF StartVerify, Inv, LateInv, rowVars, tokenVars
  <2>2. /\ verify' \in [Verifies -> VerifySteps]
        /\ verifying' \in [Verifies -> {0} \cup Made]
        /\ late' \subseteq Verifies
      BY <1>6 DEF StartVerify, Inv, LateInv, VerifySteps
  <2>3. v \in late' => verify'[v] \in {"reading", "null"} /\ verifying'[v] \in Made \ sessions
      BY <1>6, <2>1 DEF StartVerify, Inv, LateInv
  <2>4. \A w \in late : w \in Verifies /\ verify'[w] = verify[w] /\ verifying'[w] = verifying[w]
      BY <1>6, <2>1 DEF StartVerify, Inv, LateInv
  <2>5. late' \subseteq late \cup {v}
      BY <1>6 DEF StartVerify
  <2> QED BY <2>1, <2>2, <2>3, <2>4, <2>5 DEF Inv, MadeInv, LateInv, Made
<1>7. ASSUME NEW v \in Verifies, GetSession(v) PROVE Inv'
  <2>1. PICK to \in {"null", "revoking", "updating"} :
            /\ Goes(v, to)
            /\ verifying[v] \notin sessions => to = "null"
      BY <1>7 DEF GetSession
  <2> QED BY <1>7, <2>1, CallGoes DEF GetSession, rowVars, tokenVars, Inv, LateInv,
             VerifySteps
<1>8. ASSUME NEW v \in Verifies, VerifyEnds(v) PROVE Inv'
  <2>1. v \notin late
      BY <1>8 DEF VerifyEnds, Inv, LateInv
  <2> QED BY <1>8, <2>1, CallGoes DEF VerifyEnds, UpdateActivity, tokenVars, VerifySteps
<1>9. ASSUME NEW v \in Verifies, RevokeIdle(v) PROVE Inv'
    BY <1>9, CallGoes DEF RevokeIdle, Delete, tokenVars, VerifySteps
<1>10. ASSUME NEW v \in Verifies, VerifyThrows(v) PROVE Inv'
  <2>1. sessions' \subseteq sessions
      BY <1>10 DEF VerifyThrows, UpdateActivity, Delete, rowVars
  <2> QED BY <1>10, <2>1, CallGoes DEF VerifyThrows, tokenVars, VerifySteps
<1>11. CASE UNCHANGED sessionVars
    BY <1>11, RowsOnly DEF sessionVars, callVars
<1> QED BY <1>1, <1>2, <1>3, <1>4, <1>5, <1>6, <1>7, <1>8, <1>9, <1>10, <1>11
        DEF SessionsNext, RevokeSession, RevokeAllSessions, CleanupExpiredSessions

\* SessionManager.verifySession: no call begun after a session's row was gone
\* returns it, however revocations, the cleanup, and calls begun before overlap.
THEOREM RevokedForGood == SessionsSpec => []RevokedStaysRevoked
<1>1. Inv => RevokedStaysRevoked
    BY DEF Inv, LateInv, RevokedStaysRevoked
<1> QED BY <1>1, InvHolds, InvKept, PTL DEF SessionsSpec

\* At the start there is no session.
LEMMA InitSessions == SessionsInit => Inv /\ SessionsTypeOK
<1> SUFFICES ASSUME SessionsInit PROVE SessionsTypeOK
    BY InvHolds
<1>1. Inv
    BY InvHolds
<1>2. Made = {}
    BY DEF SessionsInit, Made
<1> QED BY <1>1, <1>2, SessionsAssumption
        DEF SessionsInit, Inv, MadeInv, LateInv, SessionsTypeOK

\* Deleted rows take their columns with them.
LEMMA RowsDeleted ==
    ASSUME SessionsTypeOK, NEW gone, Delete(gone), UNCHANGED tokenVars, Inv'
    PROVE  SessionsTypeOK'
BY SessionsAssumption DEF SessionsTypeOK, Delete, tokenVars, Inv, LateInv, MadeInv, Made

\* An activity that is written belongs to a row that is there.
LEMMA ActivityTyped ==
    ASSUME SessionsTypeOK, NEW s, UpdateActivity(s), UNCHANGED tokenVars, Inv'
    PROVE  SessionsTypeOK'
BY SessionsAssumption
   DEF SessionsTypeOK, UpdateActivity, tokenVars, Inv, LateInv, MadeInv, Made

\* A step that leaves the rows and tokens alone keeps their types.
LEMMA RowsUntouched ==
    ASSUME SessionsTypeOK, UNCHANGED rowVars, UNCHANGED tokenVars, Inv'
    PROVE  SessionsTypeOK'
BY DEF SessionsTypeOK, rowVars, tokenVars, Inv, LateInv, MadeInv, Made

\* Rows and tokens are of sessions that were made, no age passes the longest
\* time compared with, and no token is of a key to come.
LEMMA SessionsTyped ==
    Inv /\ SessionsTypeOK /\ [SessionsNext]_sessionVars => Inv' /\ SessionsTypeOK'
<1> SUFFICES ASSUME Inv, SessionsTypeOK, [SessionsNext]_sessionVars PROVE SessionsTypeOK'
    BY InvKept
<1>0. Inv'
    BY InvKept
<1> USE SessionsAssumption
<1>1. ASSUME NEW u \in Users, NEW need \in BOOLEAN, CreateSession(u, need)
      PROVE  SessionsTypeOK'
  <2> DEFINE s == Cardinality(Made) + 1
  <2>1. s = Len(created) + 1 /\ s \notin Made /\ Made = 1 .. Len(created)
      BY NewNumber DEF Inv
  <2>2. /\ s \in Sessions /\ created' = Append(created, u)
        /\ sessions' = sessions \cup {s} /\ twoFactor' \subseteq twoFactor \cup {s}
        /\ signedWith' = [signedWith EXCEPT ![s] = signingKey]
        /\ UNCHANGED <<sessionAge, idle, signingKey, callVars>>
      BY <1>1 DEF CreateSession, SaveSession
  <2> HIDE DEF s
  <2>3. created \in Seq(Users) /\ Len(created) \in Nat
      BY DEF Inv, MadeInv
  <2>4. Made' = Made \cup {s} /\ created' \in Seq(Users)
      BY <2>1, <2>2, <2>3 DEF Made
  <2>5. \A k \in Made' : created'[k] \in Users
    <3>1. Made' = 1 .. Len(created')
        BY DEF Made
    <3> QED BY <2>4, <3>1
  <2>6. sessions' \subseteq Made' /\ twoFactor' \subseteq Made' /\ Made' \subseteq Sessions
      BY <2>2, <2>4 DEF SessionsTypeOK
  <2>7. signedWith' \in [Sessions -> 0 .. signingKey'] /\ signingKey' \in 1 .. MaxSigningKeys
      BY <2>2 DEF SessionsTypeOK
  <2>8. /\ sessionAge' \in [Sessions -> 0 .. SessionAge + 1]
        /\ idle' \in [Sessions -> 0 .. IdleTimeout + 1]
      BY <2>2 DEF SessionsTypeOK
  <2> QED BY <1>0, <2>5, <2>6, <2>7, <2>8 DEF SessionsTypeOK, Inv, LateInv
<1>2. CASE NewSigningKey
    BY <1>0, <1>2 DEF NewSigningKey, rowVars, SessionsTypeOK, Inv, LateInv, Made
<1>3. CASE SessionsTick
  <2>1. /\ sessionAge' \in [Sessions -> 0 .. SessionAge + 1]
        /\ idle' \in [Sessions -> 0 .. IdleTimeout + 1]
      BY <1>3 DEF SessionsTick, SessionsTypeOK
  <2>2. UNCHANGED <<sessions, twoFactor, tokenVars, callVars>>
      BY <1>3 DEF SessionsTick
  <2> QED BY <1>0, <2>1, <2>2 DEF tokenVars, SessionsTypeOK, Inv, LateInv, Made
<1>4. ASSUME NEW gone, Revoke(gone) PROVE SessionsTypeOK'
    BY <1>0, <1>4, RowsDeleted DEF Revoke
<1>5. ASSUME NEW s \in Made, NEW passed \in BOOLEAN, UpdateTwoFactorStatus(s, passed)
      PROVE  SessionsTypeOK'
    BY <1>0, <1>5 DEF UpdateTwoFactorStatus, tokenVars, SessionsTypeOK, Inv, LateInv, Made
<1>6. ASSUME NEW v \in Verifies, NEW s \in Made, StartVerify(v, s) PROVE SessionsTypeOK'
    BY <1>0, <1>6, RowsUntouched DEF StartVerify
<1>7. ASSUME NEW v \in Verifies, GetSession(v) PROVE SessionsTypeOK'
    BY <1>0, <1>7, RowsUntouched DEF GetSession
<1>8. ASSUME NEW v \in Verifies, VerifyEnds(v) PROVE SessionsTypeOK'
    BY <1>0, <1>8, ActivityTyped DEF VerifyEnds
<1>9. ASSUME NEW v \in Verifies, RevokeIdle(v) PROVE SessionsTypeOK'
    BY <1>0, <1>9, RowsDeleted DEF RevokeIdle
<1>10. ASSUME NEW v \in Verifies, VerifyThrows(v) PROVE SessionsTypeOK'
    BY <1>0, <1>10, RowsUntouched, ActivityTyped, RowsDeleted DEF VerifyThrows
<1>11. CASE UNCHANGED sessionVars
    BY <1>0, <1>11, RowsUntouched DEF sessionVars, rowVars, tokenVars
<1> QED BY <1>1, <1>2, <1>3, <1>4, <1>5, <1>6, <1>7, <1>8, <1>9, <1>10, <1>11
        DEF SessionsNext, RevokeSession, RevokeAllSessions, CleanupExpiredSessions

-----------------------------------------------------------------------------
(* Keys                                                                    *)

\* What the map and the records of the rotations range over
SecretsTyped ==
    /\ secrets \in [KeyNames -> Nat]
    /\ newest \in [KeyNames -> Nat \ {0}]
RotationsTyped ==
    /\ rotated \in [Rotations -> Rotatable]
    /\ stage \in [Rotations -> Stages]
    /\ given \in [Rotations -> Nat]
    /\ logs \subseteq Rotations

\* A row is written by a rotation that then is over: none that has yet to be
\* asked for, or has no key yet, is in the log.
LogsInv == \A r \in logs : stage[r] \in {"done", "failed"}

\* r accounts for the version of k that is in use
Accounts(r, k) ==
    /\ given[r] = secrets[k]
    /\ rotated[r] = IF k = "previous" THEN "jwt" ELSE k
    /\ r \in logs \/ stage[r] \in {"saving", "failed"}
RecordInv == \A k \in KeyNames : secrets[k] > 1 => \E r \in Rotations : Accounts(r, k)

KeysInv == SecretsTyped /\ RotationsTyped /\ LogsInv /\ RecordInv

\* loadSecrets keeps the version a key has, or begins with the first.
LEMMA LoadedVersions ==
    ASSUME NEW map \in [KeyNames -> Nat]
    PROVE  /\ Loaded(map) \in [KeyNames -> Nat]
           /\ \A k \in KeyNames : Loaded(map)[k] \in {0, 1, map[k]}
BY DEF Loaded

\* A step that gives no key a version above the first, and takes no row and
\* no stage from a rotation that accounts for a key, keeps the invariant.
LEMMA AccountsKept ==
    ASSUME KeysInv,
           SecretsTyped', RotationsTyped', LogsInv',
           \A k \in KeyNames : secrets'[k] \in {0, 1, secrets[k]},
           \A r \in Rotations :
               (r \in logs \/ stage[r] \in {"saving", "failed"}) =>
                   /\ given'[r] = given[r] /\ rotated'[r] = rotated[r]
                   /\ r \in logs' \/ stage'[r] \in {"saving", "failed"}
    PROVE  KeysInv'
<1>1. ASSUME NEW k \in KeyNames, secrets'[k] > 1
      PROVE  \E r \in Rotations : Accounts(r, k)'
  <2>1. secrets'[k] = secrets[k] /\ secrets[k] > 1
      BY <1>1
  <2>2. PICK r \in Rotations : Accounts(r, k)
      BY <2>1 DEF KeysInv, RecordInv
  <2>3. Accounts(r, k)'
      BY <2>1, <2>2 DEF Accounts
  <2> QED BY <2>3
<1> QED BY <1>1 DEF KeysInv, RecordInv

\* At the start every key is the one of the start, and needs no record.
LEMMA InitKeysInv == KeysInit => KeysInv
<1> SUFFICES ASSUME KeysInit PROVE KeysInv
    OBVIOUS
<1>1. Empty \in [KeyNames -> Nat] /\ \A k \in KeyNames : Empty[k] = 0
    BY DEF Empty
<1>2. secrets \in [KeyNames -> Nat] /\ \A k \in KeyNames : secrets[k] \in {0, 1}
    BY <1>1, LoadedVersions DEF KeysInit
<1>3. SecretsTyped /\ RotationsTyped /\ LogsInv
    BY <1>2 DEF KeysInit, SecretsTyped, RotationsTyped, LogsInv, Rotatable, Stages
<1>4. \A k \in KeyNames : ~(secrets[k] > 1)
    BY <1>2
<1> QED BY <1>3, <1>4 DEF KeysInv, RecordInv

\* A rotation that gets its key accounts for it; a rotated JWT secret hands
\* its own rotation on to the previous one.
LEMMA RotateKept ==
    ASSUME KeysInv, NEW r \in Rotations, Rotate(r)
    PROVE  KeysInv'
<1> DEFINE k == rotated[r]
<1>1. /\ k \in Rotatable /\ k \in KeyNames /\ k # "previous"
      /\ stage[r] = "verifying" /\ UNCHANGED <<rotated, logs>>
    BY DEF KeysInv, RotationsTyped, Rotate, KeyNames, Rotatable
<1>2. r \notin logs
    BY <1>1 DEF KeysInv, LogsInv
<1>3. CASE ~MayRotate(k)
  <2>1. /\ stage' = [stage EXCEPT ![r] = "failed"]
        /\ UNCHANGED <<secrets, newest, given, rotated, logs>>
      BY <1>3 DEF Rotate
  <2>2. SecretsTyped' /\ RotationsTyped' /\ LogsInv'
      BY <2>1 DEF KeysInv, SecretsTyped, RotationsTyped, LogsInv, Stages
  <2>3. \A q \in Rotations : stage[q] \in {"saving", "failed"} =>
            stage'[q] \in {"saving", "failed"}
      BY <2>1 DEF KeysInv, RotationsTyped
  <2> QED BY <2>1, <2>2, <2>3, AccountsKept DEF KeysInv, SecretsTyped
<1>4. CASE MayRotate(k)
  <2>1. /\ SetSecret(k, newest[k] + 1)
        /\ newest' = [newest EXCEPT ![k] = @ + 1]
        /\ given' = [given EXCEPT ![r] = newest[k] + 1]
        /\ stage' = [stage EXCEPT ![r] = "saving"]
      BY <1>4 DEF Rotate
  <2>2. newest[k] + 1 \in Nat
      BY <1>1 DEF KeysInv, SecretsTyped
  <2>3. secrets["jwt"] \in Nat
      BY DEF KeysInv, SecretsTyped, KeyNames, Rotatable
  <2>4. SecretsTyped'
      BY <1>1, <2>1, <2>2, <2>3 DEF KeysInv, SecretsTyped, SetSecret
  <2>5. RotationsTyped' /\ LogsInv'
      BY <1>1, <1>2, <2>1, <2>2 DEF KeysInv, RotationsTyped, LogsInv, Stages
  <2>6. ASSUME NEW q \in Rotations, NEW j \in KeyNames, Accounts(q, j)
        PROVE  /\ q # r
               /\ given'[q] = secrets[j] /\ rotated'[q] = rotated[q]
               /\ q \in logs' \/ stage'[q] \in {"saving", "failed"}
      BY <1>1, <1>2, <2>1, <2>6 DEF Accounts, KeysInv, RotationsTyped
  <2>7. ASSUME NEW j \in KeyNames, secrets'[j] > 1
        PROVE  \E q \in Rotations : Accounts(q, j)'
    <3>1. CASE j = k
      <4>1. secrets'[j] = newest[k] + 1
          BY <2>1, <3>1 DEF SetSecret
      <4>2. given'[r] = newest[k] + 1 /\ rotated'[r] = k /\ stage'[r] = "saving"
          BY <1>1, <2>1 DEF KeysInv, RotationsTyped
      <4>3. Accounts(r, j)'
          BY <1>1, <3>1, <4>1, <4>2 DEF Accounts
      <4> QED BY <4>3
    <3>2. CASE j = "previous" /\ k = "jwt"
      <4>1. secrets'[j] = secrets["jwt"] /\ "jwt" \in KeyNames
          BY <2>1, <3>2 DEF SetSecret, KeyNames, Rotatable
      <4>2. PICK q \in Rotations : Accounts(q, "jwt")
          BY <2>7, <4>1 DEF KeysInv, RecordInv
      <4>3. Accounts(q, j)'
          BY <2>6, <3>2, <4>1, <4>2 DEF Accounts
      <4> QED BY <4>3
    <3>3. CASE j # k /\ ~(j = "previous" /\ k = "jwt")
      <4>1. secrets'[j] = secrets[j]
          BY <2>1, <3>3 DEF SetSecret
      <4>2. PICK q \in Rotations : Accounts(q, j)
          BY <2>7, <4>1 DEF KeysInv, RecordInv
      <4>3. Accounts(q, j)'
          BY <2>6, <4>1, <4>2 DEF Accounts
      <4> QED BY <4>3
    <3> QED BY <3>1, <3>2, <3>3
  <2> QED BY <2>4, <2>5, <2>7 DEF KeysInv, RecordInv
<1> QED BY <1>3, <1>4

\* A rotation, its record, a reload and a restart each keep the accounts.
LEMMA KeysStep == KeysInv /\ [KeysNext]_keysVars => KeysInv'
<1> SUFFICES ASSUME KeysInv, [KeysNext]_keysVars PROVE KeysInv'
    OBVIOUS
<1> USE KeysAssumption
<1>1. \A k \in KeyNames : secrets[k] \in Nat
    BY DEF KeysInv, SecretsTyped
<1>2. CASE UNCHANGED <<secrets, newest, rotated, stage, given, logs>>
    BY <1>2, AccountsKept DEF KeysInv, SecretsTyped, RotationsTyped, LogsInv
<1>3. CASE ReloadSecrets
  <2>1. /\ secrets' \in [KeyNames -> Nat]
        /\ \A k \in KeyNames : secrets'[k] \in {0, 1, secrets[k]}
      BY <1>3, LoadedVersions DEF ReloadSecrets, KeysInv, SecretsTyped
  <2>2. UNCHANGED <<newest, rotated, stage, given, logs>>
      BY <1>3 DEF ReloadSecrets, rotationVars
  <2> QED BY <2>1, <2>2, AccountsKept DEF KeysInv, SecretsTyped, RotationsTyped, LogsInv
<1>4. CASE KeysRestart
  <2>1. Empty \in [KeyNames -> Nat] /\ \A k \in KeyNames : Empty[k] = 0
      BY DEF Empty
  <2>2. /\ secrets' \in [KeyNames -> Nat]
        /\ \A k \in KeyNames : secrets'[k] \in {0, 1}
      BY <1>4, <2>1, LoadedVersions DEF KeysRestart
  <2>3. SecretsTyped' /\ RotationsTyped' /\ LogsInv'
      BY <1>4, <2>2 DEF KeysRestart, KeysInv, SecretsTyped, RotationsTyped, LogsInv, Stages
  <2>4. \A k \in KeyNames : ~(secrets'[k] > 1)
      BY <2>2
  <2> QED BY <2>3, <2>4 DEF KeysInv, RecordInv
<1>5. CASE CleanupEnds
  <2>1. /\ secrets' \in [KeyNames -> Nat]
        /\ \A k \in KeyNames : secrets'[k] \in {0, 1, secrets[k]}
      BY <1>5 DEF CleanupEnds, DeleteSecret, KeysInv, SecretsTyped
  <2>2. UNCHANGED <<newest, rotated, stage, given, logs>>
      BY <1>5 DEF CleanupEnds, rotationVars
  <2> QED BY <2>1, <2>2, AccountsKept DEF KeysInv, SecretsTyped, RotationsTyped, LogsInv
<1>6. ASSUME NEW r \in Rotations, NEW k \in RotatedKeys, AskRotation(r, k)
      PROVE  KeysInv'
  <2>1. r \notin logs /\ stage[r] = "idle"
      BY <1>6 DEF AskRotation, KeysInv, LogsInv
  <2> QED BY <1>1, <1>6, <2>1, AccountsKept
          DEF AskRotation, KeysInv, SecretsTyped, RotationsTyped, LogsInv, Stages
<1>7. ASSUME NEW r \in Rotations, TokenRefused(r) PROVE KeysInv'
  <2>1. r \notin logs /\ stage[r] = "verifying"
      BY <1>7 DEF TokenRefused, KeysInv, LogsInv
  <2> QED BY <1>1, <1>7, <2>1, AccountsKept
          DEF TokenRefused, KeysInv, SecretsTyped, RotationsTyped, LogsInv, Stages
<1>8. ASSUME NEW r \in Rotations, Rotate(r) PROVE KeysInv'
    BY <1>8, RotateKept
<1>9. ASSUME NEW r \in Rotations, SaveRecord(r) PROVE KeysInv'
    BY <1>1, <1>9, AccountsKept
       DEF SaveRecord, KeysInv, SecretsTyped, RotationsTyped, LogsInv, Stages
<1>10. ASSUME NEW r \in Rotations, SaveFails(r) PROVE KeysInv'
    BY <1>1, <1>10, AccountsKept
       DEF SaveFails, KeysInv, SecretsTyped, RotationsTyped, LogsInv, Stages
<1>11. CASE CleanupReads \/ KeysTick
    BY <1>2, <1>11 DEF CleanupReads, KeysTick, rotationVars
<1>12. ASSUME NEW k \in {"jwt", "session", "ipc"}, CheckAndRotateIfNeeded(k)
       PROVE  KeysInv'
    BY <1>2, <1>12 DEF CheckAndRotateIfNeeded, rotationVars
<1>13. CASE UNCHANGED keysVars
    BY <1>2, <1>13 DEF keysVars
<1> QED BY <1>3, <1>4, <1>5, <1>6, <1>7, <1>8, <1>9, <1>10, <1>11, <1>12, <1>13 DEF KeysNext

\* KeyRotationService.rotateJWTSecret, rotateSessionKey,
\* rotateDashboardIPCToken, rotateGatewayKey: whatever order rotations, their
\* records, cleanups, reloads and restarts come in, a key in use that is not
\* the one of the start is accounted for.
THEOREM KeysAccountedFor == KeysSpec => []KeysOnRecord
<1>1. KeysInv => KeysOnRecord
    BY DEF KeysInv, RecordInv, Accounts, KeysOnRecord
<1> QED BY <1>1, InitKeysInv, KeysStep, PTL DEF KeysSpec

\* A rank above every other is one.
LEMMA NextRank ==
    ASSUME order \in [Rotations -> Nat], Rotations # {}
    PROVE  Max({order[q] : q \in Rotations}) + 1 \in Nat
<1> DEFINE S == {order[q] : q \in Rotations}
           f == [q \in Rotations |-> order[q]]
<1>1. IsFiniteSet(Rotations)
    BY KeysAssumption, FS_Interval DEF Rotations
<1>2. f \in Surjection(Rotations, S)
    BY DEF Surjection
<1>3. IsFiniteSet(S)
    BY <1>1, <1>2, FS_Surjection
<1>4. S \subseteq Nat /\ S # {}
    OBVIOUS
<1> HIDE DEF S
<1>5. \E m \in S : \A i \in S : i <= m
    BY <1>3, <1>4, LargestNumber
<1>6. Max(S) \in S
    BY <1>5 DEF Max
<1> QED BY <1>4, <1>6 DEF S

\* At the start every rotation is still to be asked for.
LEMMA KeysTypedAtFirst == KeysInit => KeysInv /\ KeysTypeOK
<1> SUFFICES ASSUME KeysInit PROVE KeysTypeOK
    BY InitKeysInv
<1>1. KeysInv
    BY InitKeysInv
<1>2. reminded \in BOOLEAN
    BY Zenon DEF KeysInit
<1>3. Oldest \in Nat
    BY KeysAssumption DEF Oldest
<1> QED BY <1>1, <1>2, <1>3, KeysAssumption
        DEF KeysInv, SecretsTyped, RotationsTyped, KeysInit, KeysTypeOK

\* Every version but that of a missing key is one, ranks count the rotations,
\* and a cleanup waits for a rotation that was asked for.
LEMMA KeysTyped ==
    KeysInv /\ KeysTypeOK /\ [KeysNext]_keysVars => KeysInv' /\ KeysTypeOK'
<1> SUFFICES ASSUME KeysInv, KeysTypeOK, [KeysNext]_keysVars PROVE KeysTypeOK'
    BY KeysStep
<1>0. KeysInv'
    BY KeysStep
<1> DEFINE Rest == /\ order \in [Rotations -> Nat] /\ age \in [Rotations -> 0 .. Oldest]
                   /\ cleaning \in {0} \cup Rotations /\ keyLoads \in 0 .. MaxKeyLoads
<1>1. Rest
    BY DEF KeysTypeOK
<1>2. Oldest \in Nat
    BY KeysAssumption DEF Oldest
<1> USE KeysAssumption DEF rotationVars
<1>3. reminded' \in BOOLEAN
  <2>1. reminded \in BOOLEAN
      BY DEF KeysTypeOK
  <2>2. UNCHANGED reminded \/ \E b \in BOOLEAN : reminded' = b
    <3>1. ASSUME NEW k, CheckAndRotateIfNeeded(k) PROVE \E b \in BOOLEAN : reminded' = b
        BY <3>1, Zenon DEF CheckAndRotateIfNeeded
    <3> QED BY <3>1, Zenon
            DEF KeysNext, keysVars, ReloadSecrets, KeysRestart, CleanupReads, CleanupEnds, KeysTick,
                AskRotation, TokenRefused, Rotate, SaveRecord, SaveFails
  <2> QED BY <2>1, <2>2
<1>4. Rest'
  <2>1. CASE ReloadSecrets \/ KeysRestart \/ CleanupEnds
      BY <1>1, <2>1 DEF ReloadSecrets, KeysRestart, CleanupEnds
  <2>2. CASE CleanupReads
      BY <1>1, <2>2 DEF CleanupReads, RotationHistory, KeysTypeOK
  <2>3. CASE KeysTick
      BY <1>1, <1>2, <2>3 DEF KeysTick
  <2>4. ASSUME NEW r \in Rotations,
               TokenRefused(r) \/ SaveRecord(r) \/ SaveFails(r)
        PROVE  Rest'
      BY <1>1, <2>4 DEF TokenRefused, SaveRecord, SaveFails
  <2>5. ASSUME NEW r \in Rotations, NEW k, AskRotation(r, k) PROVE Rest'
      BY <1>1, <2>5 DEF AskRotation
  <2>6. ASSUME NEW r \in Rotations, Rotate(r) PROVE Rest'
    <3>1. Max({order[q] : q \in Rotations}) + 1 \in Nat
        BY <1>1, NextRank
    <3>2. /\ \/ order' = order
             \/ order' = [order EXCEPT ![r] = Max({order[q] : q \in Rotations}) + 1]
          /\ UNCHANGED <<age, cleaning, keyLoads>>
        BY <2>6 DEF Rotate
    <3> QED BY <1>1, <3>1, <3>2
  <2>7. ASSUME NEW k, CheckAndRotateIfNeeded(k) PROVE Rest'
      BY <1>1, <2>7 DEF CheckAndRotateIfNeeded
  <2>8. CASE UNCHANGED keysVars
      BY <1>1, <2>8 DEF keysVars
  <2> QED BY <2>1, <2>2, <2>3, <2>4, <2>5, <2>6, <2>7, <2>8 DEF KeysNext
<1> QED BY <1>0, <1>3, <1>4 DEF KeysInv, SecretsTyped, RotationsTyped, KeysTypeOK

-----------------------------------------------------------------------------
(* TwoFactor                                                               *)

\* The size of the longest list a call can find or bring: its own list and the
\* code taken from it, once it waits to write one.
Held == [c \in Callers |->
            IF doing[c] = "consuming" THEN Cardinality(seen[c]) + 1 ELSE 0]

\* How many calls reach each size, with n codes in the row
Reach(n, sizes) ==
    [v \in 1 .. CodesPerBatch |-> Cardinality({c \in Callers : n >= v \/ sizes[c] >= v})]

\* What is left: the profiles that could still come
Rank(n, sizes) ==
    Cardinality(Earlier(CodesPerBatch, Cardinality(Callers), Reach(n, sizes)))
AllProfiles == Cardinality(Profiles(CodesPerBatch, Cardinality(Callers)))

\* No list is longer than a batch, and every code accepted has used up a
\* profile.
ListsInv ==
    /\ DOMAIN doing = Callers /\ DOMAIN seen = Callers
    /\ IsFiniteSet(codes) /\ Cardinality(codes) <= CodesPerBatch
    /\ \A c \in Callers : doing[c] = "consuming" =>
           IsFiniteSet(seen[c]) /\ Cardinality(seen[c]) + 1 <= CodesPerBatch
    /\ \A c \in Callers : doing[c] \in {"enabling", "regenerating"} =>
           IsFiniteSet(seen[c]) /\ Cardinality(seen[c]) <= CodesPerBatch
SpentInv ==
    accepted \in Nat /\ accepted + Rank(Cardinality(codes), Held) < AllProfiles

\* Fewer calls reach more.
LEMMA ReachIsProfile ==
    ASSUME NEW n \in Nat, NEW sizes \in [Callers -> Nat]
    PROVE  /\ Reach(n, sizes) \in Profiles(CodesPerBatch, Cardinality(Callers))
           /\ Rank(n, sizes) \in Nat /\ AllProfiles \in Nat /\ Rank(n, sizes) < AllProfiles
<1> DEFINE of(v) == {c \in Callers : n >= v \/ sizes[c] >= v}
           x == Reach(n, sizes)
           N == Cardinality(Callers)
<1>1. CodesPerBatch \in Nat /\ IsFiniteSet(Callers) /\ N \in Nat
    BY TwoFactorAssumption, FS_CardinalityType
<1>2. ASSUME NEW v \in 1 .. CodesPerBatch
      PROVE  IsFiniteSet(of(v)) /\ Cardinality(of(v)) \in 0 .. N
  <2>1. of(v) \in SUBSET Callers
      OBVIOUS
  <2> QED BY <1>1, <2>1, FS_Subset, FS_CardinalityType
<1>3. ASSUME NEW i \in 1 .. CodesPerBatch, NEW j \in 1 .. CodesPerBatch, i <= j
      PROVE  Cardinality(of(i)) >= Cardinality(of(j))
  <2>1. of(j) \in SUBSET of(i)
      BY <1>3
  <2>2. Cardinality(of(j)) <= Cardinality(of(i))
      BY <1>2, <2>1, FS_Subset
  <2> QED BY <1>2, <2>2
<1>4. x = [v \in 1 .. CodesPerBatch |-> Cardinality(of(v))]
    BY DEF Reach
<1> HIDE DEF of, x, N
<1>5. x \in Profiles(CodesPerBatch, N)
    BY <1>2, <1>3, <1>4 DEF Profiles
<1>6. /\ IsFiniteSet(Profiles(CodesPerBatch, N))
      /\ Cardinality(Earlier(CodesPerBatch, N, x)) < Cardinality(Profiles(CodesPerBatch, N))
    BY <1>1, <1>5, ProfilesCounted, NotAllEarlier
<1>7. IsFiniteSet(Earlier(CodesPerBatch, N, x))
    BY <1>6, FS_Subset DEF Earlier
<1> QED BY <1>5, <1>6, <1>7, FS_CardinalityType DEF Rank, AllProfiles, x, N

\* The write of a list: at the size that was the most its call could reach
\* there is one call less, and beyond it nothing has changed.
LEMMA WriteUsesUp ==
    ASSUME NEW n \in Nat, NEW sizes \in [Callers -> Nat], NEW c \in Callers,
           NEW m \in Nat, sizes[c] = m + 1, m + 1 <= CodesPerBatch, n <= CodesPerBatch
    PROVE  Rank(m, [sizes EXCEPT ![c] = 0]) < Rank(n, sizes)
<1> DEFINE less == [sizes EXCEPT ![c] = 0]
           u == IF n >= m + 1 THEN n ELSE m + 1
           of(v) == {d \in Callers : n >= v \/ sizes[d] >= v}
           then(v) == {d \in Callers : m >= v \/ less[d] >= v}
<1>1. /\ less \in [Callers -> Nat] /\ less[c] = 0
      /\ \A d \in Callers : d # c => less[d] = sizes[d]
    OBVIOUS
<1>2. u \in 1 .. CodesPerBatch /\ u > m /\ u >= n /\ u >= sizes[c] /\ (n >= u \/ sizes[c] >= u)
    BY TwoFactorAssumption
<1> HIDE DEF less, u
<1>3. ASSUME NEW v \in u + 1 .. CodesPerBatch PROVE then(v) = of(v)
    BY <1>1, <1>2
<1>4. then(u) \subseteq of(u) \ {c} /\ c \in of(u)
    BY <1>1, <1>2
<1>5. IsFiniteSet(of(u)) /\ IsFiniteSet(then(u))
    BY TwoFactorAssumption, FS_Subset
<1>6. Cardinality(then(u)) < Cardinality(of(u))
  <2> HIDE DEF of, then
  <2>1. IsFiniteSet(of(u) \ {c}) /\ Cardinality(of(u) \ {c}) = Cardinality(of(u)) - 1
      BY <1>4, <1>5, FS_RemoveElement
  <2>2. Cardinality(then(u)) <= Cardinality(of(u) \ {c})
      BY <1>4, <2>1, FS_Subset
  <2> QED BY <1>5, <2>1, <2>2, FS_CardinalityType
<1>7. /\ \A v \in 1 .. CodesPerBatch : Reach(n, sizes)[v] = Cardinality(of(v))
      /\ \A v \in 1 .. CodesPerBatch : Reach(m, less)[v] = Cardinality(then(v))
    BY DEF Reach
<1> HIDE DEF of, then
<1>8. \A v \in u + 1 .. CodesPerBatch : v \in 1 .. CodesPerBatch
    BY <1>2
<1>9. Before(CodesPerBatch, Reach(m, less), Reach(n, sizes))
    BY <1>2, <1>3, <1>6, <1>7, <1>8 DEF Before
<1>10. /\ Reach(m, less) \in Profiles(CodesPerBatch, Cardinality(Callers))
       /\ Reach(n, sizes) \in Profiles(CodesPerBatch, Cardinality(Callers))
    BY <1>1, ReachIsProfile
<1>11. CodesPerBatch \in Nat /\ Cardinality(Callers) \in Nat
    BY TwoFactorAssumption, FS_CardinalityType
<1> QED BY <1>9, <1>10, <1>11, FewerEarlier DEF Rank, less

\* A call that lets its list go, or reads the one of the row, adds nothing.
LEMMA NothingGained ==
    ASSUME NEW n \in Nat, NEW sizes \in [Callers -> Nat], NEW less \in [Callers -> Nat],
           \A c \in Callers : less[c] <= sizes[c] \/ less[c] <= n
    PROVE  Rank(n, less) <= Rank(n, sizes)
<1> DEFINE of(v) == {d \in Callers : n >= v \/ sizes[d] >= v}
           then(v) == {d \in Callers : n >= v \/ less[d] >= v}
           x == Reach(n, less)
           y == Reach(n, sizes)
<1>1. ASSUME NEW v \in 1 .. CodesPerBatch PROVE Cardinality(then(v)) <= Cardinality(of(v))
  <2>1. ASSUME NEW d \in then(v) PROVE d \in of(v)
    <3>1. d \in Callers /\ less[d] \in Nat /\ sizes[d] \in Nat
        OBVIOUS
    <3> QED BY <2>1, <3>1
  <2>2. IsFiniteSet(of(v))
      BY TwoFactorAssumption, FS_Subset
  <2> QED BY <2>1, <2>2, FS_Subset
<1>2. \A v \in 1 .. CodesPerBatch : x[v] <= y[v]
    BY <1>1 DEF Reach
<1>3. /\ CodesPerBatch \in Nat /\ Cardinality(Callers) \in Nat
      /\ x \in Profiles(CodesPerBatch, Cardinality(Callers))
      /\ y \in Profiles(CodesPerBatch, Cardinality(Callers))
    BY TwoFactorAssumption, FS_CardinalityType, ReachIsProfile
<1> HIDE DEF x, y
<1>4. x = y \/ Before(CodesPerBatch, x, y)
    BY <1>2, <1>3, LessIsEarlier
<1>5. Cardinality(Earlier(CodesPerBatch, Cardinality(Callers), x)) \in Nat
      /\ Cardinality(Earlier(CodesPerBatch, Cardinality(Callers), y)) \in Nat
    BY ReachIsProfile DEF Rank, x, y
<1>6. Cardinality(Earlier(CodesPerBatch, Cardinality(Callers), x))
          <= Cardinality(Earlier(CodesPerBatch, Cardinality(Callers), y))
    BY <1>3, <1>4, <1>5, FewerEarlier
<1> QED BY <1>6 DEF Rank, x, y

\* The lists of the calls, and what each counts, are finite.
LEMMA HeldTyped ==
    ASSUME ListsInv
    PROVE  /\ Cardinality(codes) \in Nat /\ CodesPerBatch \in Nat
           /\ Held \in [Callers -> Nat]
           /\ \A c \in Callers :
                  IF doing[c] = "consuming"
                  THEN Cardinality(seen[c]) \in Nat /\ Held[c] = Cardinality(seen[c]) + 1
                  ELSE Held[c] = 0
<1>1. \A c \in Callers : doing[c] = "consuming" => Cardinality(seen[c]) \in Nat
    BY FS_CardinalityType DEF ListsInv
<1> QED BY <1>1, TwoFactorAssumption, FS_CardinalityType DEF ListsInv, Held

\* A batch has its number of codes.
LEMMA BatchFinite ==
    ASSUME NEW b
    PROVE  IsFiniteSet(Batch(b)) /\ Cardinality(Batch(b)) = CodesPerBatch
<1>1. CodesPerBatch \in Nat /\ CodesPerBatch >= 1
    BY TwoFactorAssumption
<1>2. IsFiniteSet(1 .. CodesPerBatch) /\ Cardinality(1 .. CodesPerBatch) = CodesPerBatch
    BY <1>1, FS_Interval
<1>3. IsFiniteSet({b}) /\ Cardinality({b}) = 1
    BY FS_Singleton
<1>4. /\ IsFiniteSet({b} \X (1 .. CodesPerBatch))
      /\ Cardinality({b} \X (1 .. CodesPerBatch)) = 1 * CodesPerBatch
  <2>1. /\ IsFiniteSet({b} \X (1 .. CodesPerBatch))
        /\ Cardinality({b} \X (1 .. CodesPerBatch))
               = Cardinality({b}) * Cardinality(1 .. CodesPerBatch)
      BY <1>2, <1>3, FS_Product, Zenon
  <2> QED BY <1>2, <1>3, <2>1
<1> QED BY <1>1, <1>4 DEF Batch

\* What a client sends as a list of codes has no more than a batch.
LEMMA ListFinite ==
    ASSUME batches \in Nat, NEW list \in Lists
    PROVE  IsFiniteSet(list) /\ Cardinality(list) <= CodesPerBatch
<1>1. IsFiniteSet(1 .. batches) /\ IsFiniteSet(1 .. CodesPerBatch)
    BY TwoFactorAssumption, FS_Interval
<1>2. IsFiniteSet((1 .. batches) \X (1 .. CodesPerBatch))
    BY <1>1, FS_Product
<1>3. CodesMade = (1 .. batches) \X (1 .. CodesPerBatch)
    BY DEF CodesMade, Batch
<1>4. list \subseteq CodesMade /\ Cardinality(list) <= CodesPerBatch
    BY DEF Lists
<1> QED BY <1>2, <1>3, <1>4, FS_Subset

\* A row with fresh codes can have anything left but what all reach at once.
LEMMA FreshCodes ==
    ASSUME ListsInv, accepted = 0
    PROVE  SpentInv
<1>1. Rank(Cardinality(codes), Held) \in Nat /\ Rank(Cardinality(codes), Held) < AllProfiles
    BY HeldTyped, ReachIsProfile
<1> QED BY <1>1 DEF SpentInv

\* At the start there is no code, no list and no use.
LEMMA InitSpent == TwoFactorInit => ListsInv /\ SpentInv
<1> SUFFICES ASSUME TwoFactorInit PROVE ListsInv /\ SpentInv
    OBVIOUS
<1>1. IsFiniteSet(codes) /\ Cardinality(codes) = 0
    BY FS_EmptySet DEF TwoFactorInit
<1>2. ListsInv
    BY <1>1, TwoFactorAssumption DEF TwoFactorInit, ListsInv
<1> QED BY <1>2, FreshCodes DEF TwoFactorInit

\* Calls that let their lists go, or take the one of the row.
LEMMA RowStays ==
    ASSUME ListsInv, SpentInv, ListsInv', UNCHANGED <<codes, accepted>>,
           \A c \in Callers : \/ doing'[c] # "consuming"
                              \/ doing'[c] = doing[c] /\ seen'[c] = seen[c]
                              \/ Cardinality(seen'[c]) + 1 = Cardinality(codes)
    PROVE  SpentInv'
<1> DEFINE n == Cardinality(codes)
           less == [c \in Callers |->
                       IF doing'[c] = "consuming" THEN Cardinality(seen'[c]) + 1 ELSE 0]
<1>1. n \in Nat /\ Held \in [Callers -> Nat]
    BY HeldTyped
<1>2. ASSUME NEW c \in Callers
      PROVE  less[c] \in Nat /\ (less[c] <= Held[c] \/ less[c] <= n)
  <2>1. CASE doing'[c] # "consuming"
      BY <1>1, <2>1
  <2>2. CASE doing'[c] = "consuming"
    <3>1. Cardinality(seen'[c]) \in Nat
        BY <2>2, FS_CardinalityType DEF ListsInv
    <3>2. less[c] = Cardinality(seen'[c]) + 1
        BY <2>2
    <3>3. CASE doing'[c] = doing[c] /\ seen'[c] = seen[c]
      <4>1. Held[c] = less[c]
          BY <2>2, <3>3 DEF Held
      <4> QED BY <1>1, <4>1
    <3>4. CASE Cardinality(seen'[c]) + 1 = Cardinality(codes)
      <4>1. less[c] = n
          BY <3>2, <3>4
      <4> QED BY <1>1, <4>1
    <3> QED BY <2>2, <3>3, <3>4
  <2> QED BY <2>1, <2>2
<1>3. Held' = less /\ Cardinality(codes') = n
    BY DEF Held
<1> HIDE DEF n, less
<1>4. less \in [Callers -> Nat]
  <2>1. less = [c \in Callers |-> less[c]]
      BY DEF less
  <2> QED BY <1>2, <2>1
<1>5. Rank(n, less) <= Rank(n, Held)
    BY <1>1, <1>2, <1>4, NothingGained
<1>6. Rank(n, less) \in Nat /\ Rank(n, Held) \in Nat /\ AllProfiles \in Nat
    BY <1>1, <1>4, ReachIsProfile
<1>7. accepted \in Nat /\ accepted + Rank(n, Held) < AllProfiles
    BY DEF SpentInv, n
<1>8. accepted + Rank(n, less) < AllProfiles
    BY <1>5, <1>6, <1>7
<1>9. Rank(Cardinality(codes'), Held') = Rank(n, less)
    BY <1>3
<1> QED BY <1>7, <1>8, <1>9 DEF SpentInv, AllProfiles

\* The write of a backup code's list, and the call returns, whatever it is
\* told: at most one code more is accepted, and a profile used up.
LEMMA ListWritten ==
    ASSUME ListsInv, SpentInv, NEW c \in Callers, doing[c] = "consuming",
           codes' = seen[c], accepted' \in {accepted, accepted + 1},
           doing' = [doing EXCEPT ![c] = "nothing"],
           seen' = [seen EXCEPT ![c] = {}]
    PROVE  ListsInv' /\ SpentInv'
<1> DEFINE n == Cardinality(codes)
           m == Cardinality(seen[c])
           less == [Held EXCEPT ![c] = 0]
<1>1. /\ n \in Nat /\ m \in Nat /\ Held \in [Callers -> Nat] /\ CodesPerBatch \in Nat
      /\ Held[c] = m + 1 /\ m + 1 <= CodesPerBatch /\ n <= CodesPerBatch
    BY HeldTyped DEF ListsInv
<1>2. less \in [Callers -> Nat]
    BY <1>1
<1>3. ListsInv'
  <2>1. IsFiniteSet(codes') /\ Cardinality(codes') <= CodesPerBatch
      BY <1>1 DEF ListsInv
  <2> QED BY <2>1 DEF ListsInv
<1>4. Held' = less
    BY DEF Held, ListsInv
<1>5. Cardinality(codes') = m
    OBVIOUS
<1>6. accepted \in Nat /\ accepted + Rank(n, Held) < AllProfiles
    BY DEF SpentInv
<1> HIDE DEF n, m
<1>7. Rank(m, less) < Rank(n, Held)
    BY <1>1, WriteUsesUp
<1>8. Rank(m, less) \in Nat /\ Rank(n, Held) \in Nat /\ AllProfiles \in Nat
    BY <1>1, <1>2, ReachIsProfile
<1> HIDE DEF less
<1>9. accepted' \in Nat /\ accepted' + Rank(m, less) < AllProfiles
    BY <1>6, <1>7, <1>8
<1>10. Rank(Cardinality(codes'), Held') = Rank(m, less)
    BY <1>4, <1>5
<1> QED BY <1>3, <1>9, <1>10 DEF SpentInv, AllProfiles

\* The statement of any call, or none, and its return
LEMMA ReturnKeeps ==
    ASSUME ListsInv, SpentInv, NEW c \in Callers, NEW told \in BOOLEAN, Return(c),
           Written(c, told) \/ UNCHANGED <<totpRowVars, accepted>>
    PROVE  ListsInv' /\ SpentInv'
<1>1. /\ doing' = [doing EXCEPT ![c] = "nothing"]
      /\ seen' = [seen EXCEPT ![c] = {}]
    BY DEF Return, Do
<1>2. /\ DOMAIN doing' = Callers /\ DOMAIN seen' = Callers
      /\ doing'[c] = "nothing"
      /\ \A d \in Callers \ {c} : doing'[d] = doing[d] /\ seen'[d] = seen[d]
    BY <1>1 DEF ListsInv
<1>3. CASE UNCHANGED <<codes, accepted>>
  <2>1. ListsInv'
      BY <1>2, <1>3 DEF ListsInv
  <2> QED BY <1>2, <1>3, <2>1, RowStays
<1>4. ASSUME doing[c] \in {"enabling", "regenerating"}, codes' = seen[c], accepted' = 0
      PROVE  ListsInv' /\ SpentInv'
  <2>1. IsFiniteSet(codes') /\ Cardinality(codes') <= CodesPerBatch /\ CodesPerBatch \in Nat
      BY <1>4, TwoFactorAssumption DEF ListsInv
  <2>2. ListsInv'
      BY <1>2, <2>1 DEF ListsInv
  <2>3. Held' \in [Callers -> Nat]
    <3>1. \A d \in Callers : doing'[d] = "consuming" => Cardinality(seen'[d]) \in Nat
        BY <2>2, FS_CardinalityType DEF ListsInv
    <3> QED BY <3>1 DEF Held
  <2>4. Cardinality(codes') \in Nat
      BY <2>1, FS_CardinalityType
  <2>5. /\ Rank(Cardinality(codes'), Held') \in Nat
        /\ Rank(Cardinality(codes'), Held') < AllProfiles
      BY <2>3, <2>4, ReachIsProfile
  <2> QED BY <1>4, <2>2, <2>5 DEF SpentInv, AllProfiles
<1>5. ASSUME doing[c] = "consuming", SaveCodes(seen[c]),
             accepted' = IF told THEN accepted + 1 ELSE accepted
      PROVE  ListsInv' /\ SpentInv'
    BY <1>1, <1>5, ListWritten DEF SaveCodes
<1> QED BY <1>3, <1>4, <1>5
        DEF Written, SaveEnabled, DisableTOTP, RegenerateBackupCodes, totpRowVars

\* The wait of a call whose list, if any, is not what is left of the row's.
LEMMA NoList ==
    ASSUME ListsInv, SpentInv, NEW c \in Callers, NEW what, NEW list, what # "consuming",
           IsFiniteSet(list), Cardinality(list) <= CodesPerBatch,
           Do(c, what, list), UNCHANGED <<codes, accepted>>
    PROVE  ListsInv' /\ SpentInv'
<1>1. /\ doing' = [doing EXCEPT ![c] = what] /\ seen' = [seen EXCEPT ![c] = list]
    BY DEF Do
<1>2. /\ DOMAIN doing' = Callers /\ DOMAIN seen' = Callers /\ doing'[c] # "consuming"
      /\ seen'[c] = list
      /\ \A d \in Callers \ {c} : doing'[d] = doing[d] /\ seen'[d] = seen[d]
    BY <1>1 DEF ListsInv
<1>3. ListsInv'
    BY <1>2 DEF ListsInv
<1> QED BY <1>2, <1>3, RowStays

\* Every step keeps the lists typed and pays for the use it makes.
LEMMA SpentStep == TwoFactorTypeOK /\ ListsInv /\ SpentInv /\ [TwoFactorNext]_twoFactorVars
                       => ListsInv' /\ SpentInv'
<1> SUFFICES ASSUME TwoFactorTypeOK, ListsInv, SpentInv, [TwoFactorNext]_twoFactorVars
             PROVE  ListsInv' /\ SpentInv'
    OBVIOUS
<1>1. CASE UNCHANGED <<codes, accepted, doing, seen>>
  <2>1. ListsInv'
      BY <1>1 DEF ListsInv
  <2> QED BY <1>1, <2>1, RowStays
<1>2. CASE TwoFactorRestart
  <2>1. ListsInv'
      BY <1>2 DEF TwoFactorRestart, totpRowVars, ListsInv
  <2> QED BY <1>2, <2>1, RowStays DEF TwoFactorRestart, totpRowVars
<1>3. CASE GenerateSecret
    BY <1>1, <1>3 DEF GenerateSecret, totpRowVars, callerVars
<1>4. ASSUME NEW c \in Callers, NEW list \in Lists, EnableTOTP(c, list)
      PROVE  ListsInv' /\ SpentInv'
  <2>1. IsFiniteSet(list) /\ Cardinality(list) <= CodesPerBatch
      BY ListFinite DEF TwoFactorTypeOK
  <2> QED BY <1>4, <2>1, NoList DEF EnableTOTP, totpRowVars
<1>5. ASSUME NEW c \in Callers, Disable(c) PROVE ListsInv' /\ SpentInv'
  <2>1. IsFiniteSet({}) /\ Cardinality({}) <= CodesPerBatch
      BY FS_EmptySet, TwoFactorAssumption
  <2> QED BY <1>5, <2>1, NoList DEF Disable, totpRowVars
<1>6. ASSUME NEW c \in Callers, Regenerate(c) PROVE ListsInv' /\ SpentInv'
  <2>1. /\ IsFiniteSet(Batch(batches + 1)) /\ Cardinality(Batch(batches + 1)) <= CodesPerBatch
      BY BatchFinite, TwoFactorAssumption
  <2> QED BY <1>6, <2>1, NoList DEF Regenerate, totpRowVars
<1>7. ASSUME NEW c \in Callers, NEW b \in Batches, NEW code \in Batch(b),
             VerifyBackupCode(c, code)
      PROVE  ListsInv' /\ SpentInv'
  <2>1. /\ code \in codes /\ UNCHANGED <<codes, accepted>>
        /\ doing' = [doing EXCEPT ![c] = "consuming"]
        /\ seen' = [seen EXCEPT ![c] = codes \ {code}]
      BY <1>7 DEF VerifyBackupCode, Do, Spent, totpRowVars
  <2>2. /\ DOMAIN doing' = Callers /\ DOMAIN seen' = Callers
        /\ seen'[c] = codes \ {code}
        /\ \A d \in Callers \ {c} : doing'[d] = doing[d] /\ seen'[d] = seen[d]
      BY <2>1 DEF ListsInv
  <2>3. /\ IsFiniteSet(codes \ {code}) /\ Cardinality(codes) \in Nat
        /\ Cardinality(codes \ {code}) = Cardinality(codes) - 1
      BY <2>1, FS_RemoveElement, FS_CardinalityType DEF ListsInv
  <2>4. Cardinality(seen'[c]) + 1 = Cardinality(codes)
      BY <2>2, <2>3
  <2>5. ListsInv'
    <3>1. IsFiniteSet(seen'[c]) /\ Cardinality(seen'[c]) + 1 <= CodesPerBatch
        BY <2>2, <2>3, <2>4 DEF ListsInv
    <3> QED BY <2>1, <2>2, <3>1 DEF ListsInv
  <2> QED BY <2>1, <2>2, <2>4, <2>5, RowStays
<1>8. ASSUME NEW c \in Callers, CallSucceeds(c) PROVE ListsInv' /\ SpentInv'
    BY <1>8, ReturnKeeps DEF CallSucceeds
<1>9. ASSUME NEW c \in Callers, CallFails(c) PROVE ListsInv' /\ SpentInv'
    BY <1>9, ReturnKeeps DEF CallFails
<1>10. CASE UNCHANGED twoFactorVars
    BY <1>1, <1>10 DEF twoFactorVars, totpRowVars, callerVars
<1> QED BY <1>2, <1>3, <1>4, <1>5, <1>6, <1>7, <1>8, <1>9, <1>10 DEF TwoFactorNext

\* No code is forgotten.
LEMMA CodesStay ==
    ASSUME batches \in Nat, batches' \in Nat, batches <= batches'
    PROVE  CodesMade \subseteq CodesMade'
<1>1. \A b \in 1 .. batches : b \in 1 .. batches'
    OBVIOUS
<1> QED BY <1>1 DEF CodesMade, Batch

\* The codes of a batch are made with it.
LEMMA CodesOfBatch ==
    ASSUME NEW b \in 1 .. batches
    PROVE  Batch(b) \subseteq CodesMade
BY DEF CodesMade

\* At the start no batch was made.
LEMMA InitTwoFactor == TwoFactorInit => TwoFactorTypeOK
BY TwoFactorAssumption DEF TwoFactorInit, TwoFactorTypeOK

\* a statement, or none, over a row of codes that were made
LEMMA RowTyped ==
    ASSUME TwoFactorTypeOK, NEW c \in Callers, NEW told \in BOOLEAN,
           Written(c, told) \/ UNCHANGED <<totpRowVars, accepted>>
    PROVE  /\ enrolled' \in {"none", "on", "off"} /\ codes' \subseteq CodesMade
           /\ sealed' \in [secret : 0 .. masterKey, codes : 0 .. masterKey]
           /\ accepted' \in Nat
<1>1. /\ masterKey \in 0 .. masterKey /\ accepted \in Nat /\ accepted + 1 \in Nat
      /\ seen[c] \subseteq CodesMade
    BY DEF TwoFactorTypeOK
<1>2. CASE doing[c] = "enabling" /\ SaveEnabled(seen[c])
    BY <1>1, <1>2 DEF SaveEnabled, TwoFactorTypeOK
<1>3. CASE doing[c] = "regenerating" /\ RegenerateBackupCodes(seen[c])
    BY <1>1, <1>3 DEF RegenerateBackupCodes, TwoFactorTypeOK
<1>4. CASE SaveCodes(seen[c]) /\ accepted' = IF told THEN accepted + 1 ELSE accepted
    BY <1>1, <1>4 DEF SaveCodes, TwoFactorTypeOK
<1>5. CASE DisableTOTP
    BY <1>5 DEF DisableTOTP, TwoFactorTypeOK
<1>6. CASE UNCHANGED <<totpRowVars, accepted>>
    BY <1>6 DEF totpRowVars, TwoFactorTypeOK
<1> QED BY <1>2, <1>3, <1>4, <1>5, <1>6 DEF Written

\* what a call begins to do, or has done
LEMMA CallTyped ==
    ASSUME TwoFactorTypeOK, NEW c \in Callers,
           NEW what \in {"nothing", "enabling", "disabling", "regenerating", "consuming"},
           NEW list \in SUBSET CodesMade', Do(c, what, list),
           batches' \in 0 .. MaxBatches, batches <= batches'
    PROVE  /\ doing' \in [Callers -> {"nothing", "enabling", "disabling", "regenerating",
                                      "consuming"}]
           /\ seen' \in [Callers -> SUBSET CodesMade']
<1>1. CodesMade \subseteq CodesMade'
    BY CodesStay DEF TwoFactorTypeOK
<1>2. /\ doing' = [doing EXCEPT ![c] = what] /\ seen' = [seen EXCEPT ![c] = list]
      /\ seen \in [Callers -> SUBSET CodesMade]
    BY DEF Do, TwoFactorTypeOK
<1>3. seen' \in [Callers -> SUBSET CodesMade']
    BY <1>1, <1>2
<1> QED BY <1>2, <1>3 DEF TwoFactorTypeOK

\* No row and no call ever has a code or a key that was not made.
LEMMA TwoFactorTyped == TwoFactorTypeOK /\ [TwoFactorNext]_twoFactorVars => TwoFactorTypeOK'
<1> SUFFICES ASSUME TwoFactorTypeOK, [TwoFactorNext]_twoFactorVars PROVE TwoFactorTypeOK'
    OBVIOUS
<1> USE TwoFactorAssumption
<1>1. CASE TwoFactorRestart
  <2>1. CodesMade' = CodesMade
      BY <1>1 DEF TwoFactorRestart, CodesMade, Batch
  <2>2. masterKey' \in 1 .. starts' /\ masterKey <= masterKey' /\ starts' \in 1 .. MaxStarts
      BY <1>1 DEF TwoFactorRestart, TwoFactorTypeOK
  <2>3. sealed' \in [secret : 0 .. masterKey', codes : 0 .. masterKey']
      BY <1>1, <2>2 DEF TwoFactorRestart, totpRowVars, TwoFactorTypeOK
  <2>4. /\ UNCHANGED <<enrolled, codes, batches, accepted>>
        /\ doing' = [c \in Callers |-> "nothing"]
        /\ seen' = [c \in Callers |-> {}]
      BY <1>1 DEF TwoFactorRestart, totpRowVars
  <2> QED BY <2>1, <2>2, <2>3, <2>4 DEF TwoFactorTypeOK
<1>2. CASE GenerateSecret
  <2>1. batches' = batches + 1 /\ batches' \in 0 .. MaxBatches
      BY <1>2 DEF GenerateSecret, TwoFactorTypeOK
  <2>2. CodesMade \subseteq CodesMade'
      BY <2>1, CodesStay DEF TwoFactorTypeOK
  <2>3. UNCHANGED <<totpRowVars, masterKey, starts, accepted, callerVars>>
      BY <1>2 DEF GenerateSecret
  <2>4. seen' \in [Callers -> SUBSET CodesMade'] /\ codes' \subseteq CodesMade'
      BY <2>2, <2>3 DEF totpRowVars, callerVars, TwoFactorTypeOK
  <2> QED BY <2>1, <2>3, <2>4 DEF totpRowVars, callerVars, TwoFactorTypeOK
<1>3. ASSUME NEW c \in Callers,
             NEW what \in {"enabling", "disabling", "regenerating", "consuming"},
             NEW list \in SUBSET CodesMade', Do(c, what, list),
             batches' \in {batches, batches + 1}, batches' \in 0 .. MaxBatches,
             UNCHANGED <<totpRowVars, accepted>>
      PROVE  TwoFactorTypeOK'
  <2>1. batches \in Nat /\ batches <= batches'
      BY <1>3 DEF TwoFactorTypeOK
  <2>2. CodesMade \subseteq CodesMade'
      BY <1>3, <2>1, CodesStay DEF TwoFactorTypeOK
  <2>3. /\ doing' \in [Callers -> {"nothing", "enabling", "disabling", "regenerating",
                                   "consuming"}]
        /\ seen' \in [Callers -> SUBSET CodesMade']
      BY <1>3, <2>1, CallTyped
  <2>4. UNCHANGED <<masterKey, starts, enrolled, codes, sealed, accepted>>
      BY <1>3 DEF Do, totpRowVars
  <2>5. codes' \subseteq CodesMade'
      BY <2>2, <2>4 DEF TwoFactorTypeOK
  <2> QED BY <1>3, <2>3, <2>4, <2>5 DEF TwoFactorTypeOK
<1>4. ASSUME NEW c \in Callers, NEW list \in Lists, EnableTOTP(c, list)
      PROVE  TwoFactorTypeOK'
  <2>1. batches' = batches /\ Do(c, "enabling", list) /\ UNCHANGED <<totpRowVars, accepted>>
      BY <1>4 DEF EnableTOTP
  <2>2. list \in SUBSET CodesMade /\ CodesMade' = CodesMade
      BY <2>1 DEF Lists, CodesMade, Batch
  <2> QED BY <1>3, <2>1, <2>2 DEF TwoFactorTypeOK
<1>5. ASSUME NEW c \in Callers, Disable(c) PROVE TwoFactorTypeOK'
    BY <1>3, <1>5 DEF Disable, TwoFactorTypeOK
<1>6. ASSUME NEW c \in Callers, Regenerate(c) PROVE TwoFactorTypeOK'
  <2>1. /\ batches' = batches + 1 /\ batches' \in 0 .. MaxBatches /\ batches + 1 \in 1 .. batches'
        /\ Do(c, "regenerating", Batch(batches + 1))
        /\ UNCHANGED <<totpRowVars, accepted>>
      BY <1>6 DEF Regenerate, TwoFactorTypeOK
  <2>2. Batch(batches + 1) \in SUBSET CodesMade'
      BY <2>1 DEF CodesMade, Batch
  <2> QED BY <1>3, <2>1, <2>2
<1>7. ASSUME NEW c \in Callers, NEW b \in Batches, NEW code \in Batch(b),
             VerifyBackupCode(c, code)
      PROVE  TwoFactorTypeOK'
  <2>1. /\ Spent(code) \in SUBSET CodesMade /\ Do(c, "consuming", Spent(code))
        /\ UNCHANGED <<totpRowVars, batches, accepted>>
      BY <1>7 DEF VerifyBackupCode, Spent, TwoFactorTypeOK
  <2>2. batches' \in 0 .. MaxBatches /\ CodesMade' = CodesMade
      BY <2>1 DEF CodesMade, Batch, TwoFactorTypeOK
  <2> QED BY <1>3, <2>1, <2>2
<1>8. ASSUME NEW c \in Callers, NEW told \in BOOLEAN, Return(c),
             Written(c, told) \/ UNCHANGED <<totpRowVars, accepted>>
      PROVE  TwoFactorTypeOK'
  <2>1. /\ enrolled' \in {"none", "on", "off"} /\ codes' \subseteq CodesMade
        /\ sealed' \in [secret : 0 .. masterKey, codes : 0 .. masterKey]
        /\ accepted' \in Nat
      BY <1>8, RowTyped
  <2>2. /\ Do(c, "nothing", {}) /\ UNCHANGED <<batches, masterKey, starts>>
      BY <1>8 DEF Return, Do
  <2>3. CodesMade' = CodesMade
      BY <2>2 DEF CodesMade, Batch
  <2>4. batches' \in 0 .. MaxBatches /\ batches <= batches'
      BY <2>2 DEF TwoFactorTypeOK
  <2>5. /\ doing' \in [Callers -> {"nothing", "enabling", "disabling", "regenerating",
                                   "consuming"}]
        /\ seen' \in [Callers -> SUBSET CodesMade']
      BY <2>2, <2>3, <2>4, CallTyped
  <2> QED BY <2>1, <2>2, <2>3, <2>5 DEF TwoFactorTypeOK
<1>9. ASSUME NEW c \in Callers, CallSucceeds(c) \/ CallFails(c)
      PROVE  TwoFactorTypeOK'
    BY <1>8, <1>9 DEF CallSucceeds, CallFails
<1>10. CASE UNCHANGED twoFactorVars
  <2>1. UNCHANGED <<enrolled, codes, sealed, masterKey, starts, batches, accepted,
                    doing, seen>>
      BY <1>10 DEF twoFactorVars, totpRowVars, callerVars
  <2>2. CodesMade' = CodesMade
      BY <2>1 DEF CodesMade, Batch
  <2> QED BY <2>1, <2>2 DEF TwoFactorTypeOK
<1> QED BY <1>1, <1>2, <1>4, <1>5, <1>6, <1>7, <1>9, <1>10 DEF TwoFactorNext

\* TOTPService.verifyBackupCode, regenerateBackupCodes, enableTOTP: the codes
\* of a batch are accepted less often than calls can be spread over the sizes
\* of its list, which choose counts, for any number of codes and of calls.
THEOREM CodesRunOut == TwoFactorSpec => []BackupCodesRunOut
<1>1. ListsInv /\ SpentInv => BackupCodesRunOut
  <2> SUFFICES ASSUME ListsInv, SpentInv PROVE BackupCodesRunOut
      OBVIOUS
  <2>1. /\ Rank(Cardinality(codes), Held) \in Nat /\ AllProfiles \in Nat
      BY HeldTyped, ReachIsProfile
  <2>2. accepted \in Nat /\ accepted + Rank(Cardinality(codes), Held) < AllProfiles
      BY DEF SpentInv
  <2>3. accepted < AllProfiles
      BY <2>1, <2>2
  <2>4. CodesPerBatch \in Nat /\ Cardinality(Callers) \in Nat
      BY TwoFactorAssumption, FS_CardinalityType
  <2>5. AllProfiles = choose(CodesPerBatch + Cardinality(Callers), CodesPerBatch)
      BY <2>4, ChooseProfiles DEF AllProfiles
  <2> QED BY <2>3, <2>5 DEF BackupCodesRunOut
<1> QED BY <1>1, InitTwoFactor, TwoFactorTyped, InitSpent, SpentStep, PTL DEF TwoFactorSpec

-----------------------------------------------------------------------------
(* Gateways                                                                *)

\* A timer that is being set has room, and one that stop knows is set.
TimersInv ==
    /\ starting # "none" => intervals < MaxIntervals
    /\ held => intervals > 0

\* A list that is kept short stays so, and holds what it is given.
LEMMA KeepTyped ==
    ASSUME NEW S, NEW records \in Seq(S), NEW new \in S, NEW most \in Nat \ {0},
           Len(records) <= most
    PROVE  Keep(records, new, most) \in Seq(S) /\ Len(Keep(records, new, most)) <= most
<1> DEFINE all == Append(records, new)
<1>1. all \in Seq(S) /\ Len(all) = Len(records) + 1 /\ Len(records) \in Nat
    OBVIOUS
<1>2. Tail(all) \in Seq(S) /\ Len(Tail(all)) = Len(all) - 1
    BY <1>1
<1>3. Keep(records, new, most) = IF Len(all) > most THEN Tail(all) ELSE all
    BY DEF Keep
<1> HIDE DEF all
<1> QED BY <1>1, <1>2, <1>3

\* A gateway asked takes one of the times.
LEMMA TakesTyped ==
    ASSUME site \in [Providers -> Sites], NEW p \in Providers
    PROVE  Takes(p) \in Times
<1>1. site[p] \in Sites
    OBVIOUS
<1>2. \A s \in Sites : AdapterTakes(s) \in Times
  <2>1. ASSUME NEW s, s \in {"quick", "refusing"} PROVE AdapterTakes(s) \in Times
      BY <2>1, Zenon DEF AdapterTakes, Times
  <2>2. AdapterTakes("slow") \in Times
      BY Zenon DEF AdapterTakes, Times
  <2>3. AdapterTakes("stuck") \in Times
      BY Zenon DEF AdapterTakes, Times
  <2> QED BY <2>1, <2>2, <2>3 DEF Sites
<1> HIDE DEF AdapterTakes
<1> QED BY <1>1, <1>2 DEF Takes, Times

\* An answer is recorded in lists that stay short.
LEMMA RecordsTyped ==
    ASSUME GatewaysTypeOK, NEW p \in Providers, NEW time \in Times,
           RecordHealth(p, time), RecordLatency(p, time)
    PROVE  /\ healthRecords' \in [Providers -> Seq(Times)]
           /\ latencies' \in [Providers -> Seq(Times)]
           /\ \A q \in Providers :
                  Len(healthRecords'[q]) <= MaxRecords /\ Len(latencies'[q]) <= MaxLatencies
<1>1. Keep(healthRecords[p], time, MaxRecords) \in Seq(Times)
      /\ Len(Keep(healthRecords[p], time, MaxRecords)) <= MaxRecords
    BY KeepTyped, GatewaysAssumption DEF GatewaysTypeOK
<1>2. Keep(latencies[p], time, MaxLatencies) \in Seq(Times)
      /\ Len(Keep(latencies[p], time, MaxLatencies)) <= MaxLatencies
    BY KeepTyped, GatewaysAssumption DEF GatewaysTypeOK
<1> QED BY <1>1, <1>2 DEF RecordHealth, RecordLatency, GatewaysTypeOK

\* A round begins with a provider to ask.
LEMMA BeginTyped ==
    ASSUME GatewaysTypeOK, NEW r \in Rounds, NEW list \in Seq(Providers), list # <<>>,
           Begin(r, list)
    PROVE  /\ todo' \in [Rounds -> Seq(Providers)] /\ took' \in [Rounds -> Times]
           /\ UNCHANGED <<site, healthRecords, latencies>>
<1>1. Head(list) \in Providers
    OBVIOUS
<1>2. Takes(Head(list)) \in Times
    BY <1>1, TakesTyped DEF GatewaysTypeOK
<1> QED BY <1>2 DEF Begin, GatewaysTypeOK

\* At the start nothing was asked and no timer set.
LEMMA InitGateways == GatewaysInit => GatewaysTypeOK /\ TimersInv
<1> SUFFICES ASSUME GatewaysInit PROVE GatewaysTypeOK /\ TimersInv
    OBVIOUS
<1>1. held = FALSE /\ held \in BOOLEAN
    BY Zenon DEF GatewaysInit
<1>2. Len(<<>>) = 0
    OBVIOUS
<1> QED BY <1>1, <1>2, GatewaysAssumption
        DEF GatewaysInit, GatewaysTypeOK, TimersInv, Rounds, Sites, Times

\* No list grows over its limit, no round asks a provider that is none, and the
\* timers are as many as initialize may set.
LEMMA GatewaysTyped ==
    GatewaysTypeOK /\ TimersInv /\ [GatewaysNext]_gatewayVars => GatewaysTypeOK' /\ TimersInv'
<1> SUFFICES ASSUME GatewaysTypeOK, TimersInv, [GatewaysNext]_gatewayVars
             PROVE  GatewaysTypeOK' /\ TimersInv'
    OBVIOUS
<1> USE GatewaysAssumption DEF roundVars, timerVars
<1>1. ASSUME NEW r \in Rounds, NEW list \in Seq(Providers), list # <<>>, Begin(r, list),
             UNCHANGED timerVars
      PROVE  GatewaysTypeOK' /\ TimersInv'
    BY <1>1, BeginTyped DEF GatewaysTypeOK, TimersInv
<1>2. ASSUME NEW r \in Others, NEW p \in Providers, CheckGateway(r, p)
      PROVE  GatewaysTypeOK' /\ TimersInv'
  <2>1. <<p>> \in Seq(Providers) /\ <<p>> # <<>>
      OBVIOUS
  <2> QED BY <1>1, <1>2, <2>1 DEF CheckGateway, Rounds
<1>3. ASSUME NEW p \in Providers, NEW s \in Sites, SiteChanges(p, s)
      PROVE  GatewaysTypeOK' /\ TimersInv'
    BY <1>3 DEF SiteChanges, GatewaysTypeOK, TimersInv
<1>4. CASE TimerFires \/ \E r \in Others : CheckAllGateways(r)
    BY <1>1, <1>4 DEF TimerFires, CheckAllGateways, Rounds
<1>5. CASE StopGatewayChecks
  <2>1. held /\ ~held' /\ held' \in BOOLEAN
      BY <1>5, Zenon DEF StopGatewayChecks
  <2>2. /\ intervals' = intervals - 1
        /\ UNCHANGED <<site, healthRecords, latencies, roundVars, starting>>
      BY <1>5, Zenon DEF StopGatewayChecks
  <2> QED BY <2>1, <2>2 DEF GatewaysTypeOK, TimersInv
<1>6. ASSUME NEW old \in [Providers -> 0 .. MaxLatencies], ClearOldLatencies(old)
      PROVE  GatewaysTypeOK' /\ TimersInv'
  <2> DEFINE recent(p) == SubSeq(latencies[p], old[p] + 1, Len(latencies[p]))
  <2>1. ASSUME NEW p \in Providers PROVE recent(p) \in Seq(Times) /\ Len(recent(p)) <= MaxLatencies
    <3>1. /\ latencies[p] \in Seq(Times) /\ Len(latencies[p]) \in Nat
          /\ Len(latencies[p]) <= MaxLatencies
          /\ old[p] \in Nat /\ old[p] <= Len(latencies[p])
        BY <1>6 DEF ClearOldLatencies, GatewaysTypeOK
    <3>2. \A a, b \in Nat : a <= b => b - (a + 1) + 1 = b - a /\ b - a \in Nat /\ b - a <= b
        OBVIOUS
    <3>3. recent(p) \in Seq(Times) /\ Len(recent(p)) = IF old[p] + 1 <= Len(latencies[p])
                 THEN Len(latencies[p]) - (old[p] + 1) + 1 ELSE 0
        BY <3>1, SubSeqProperties
    <3> QED BY <3>1, <3>2, <3>3
  <2>2. /\ latencies' = [p \in Providers |-> recent(p)]
        /\ UNCHANGED <<site, healthRecords, roundVars, timerVars>>
      BY <1>6 DEF ClearOldLatencies
  <2> HIDE DEF recent
  <2> QED BY <2>1, <2>2 DEF GatewaysTypeOK, TimersInv
<1>7. ASSUME NEW r \in Rounds, StartGatewayChecks(r) PROVE GatewaysTypeOK' /\ TimersInv'
    BY <1>7, BeginTyped DEF StartGatewayChecks, GatewaysTypeOK, TimersInv
<1>8. ASSUME NEW r \in Rounds, Answered(r) PROVE GatewaysTypeOK' /\ TimersInv'
  <2> DEFINE p == Head(todo[r])
             rest == Tail(todo[r])
  <2>1. p \in Providers /\ rest \in Seq(Providers) /\ took[r] \in Times
      BY <1>8 DEF Answered, GatewaysTypeOK
  <2>2. rest # <<>> => Head(rest) \in Providers
      BY <2>1
  <2>3. (IF rest = <<>> THEN "fast" ELSE Takes(Head(rest))) \in Times
      BY <2>2, TakesTyped DEF GatewaysTypeOK, Times
  <2>4. RecordHealth(p, took[r]) /\ RecordLatency(p, took[r]) /\ site' = site
      BY <1>8 DEF Answered
  <2>5. /\ todo' = [todo EXCEPT ![r] = rest]
        /\ took' = [took EXCEPT ![r] = IF rest = <<>> THEN "fast" ELSE Takes(Head(rest))]
      BY <1>8 DEF Answered
  <2>6. todo' \in [Rounds -> Seq(Providers)] /\ took' \in [Rounds -> Times]
      BY <2>1, <2>3, <2>5 DEF GatewaysTypeOK
  <2>7. /\ starting' \in Rounds \cup {"none"} /\ intervals' \in 0 .. MaxIntervals
        /\ held' \in BOOLEAN /\ TimersInv'
    <3>1. CASE starting = r /\ starting' = "none" /\ intervals' = intervals + 1 /\ held' = TRUE
      <4>1. held' \in BOOLEAN
          BY <3>1, Zenon
      <4> QED BY <3>1, <4>1 DEF GatewaysTypeOK, TimersInv, Rounds
    <3>2. CASE UNCHANGED timerVars
        BY <3>2 DEF GatewaysTypeOK, TimersInv
    <3> QED BY <1>8, <3>1, <3>2, Zenon DEF Answered
  <2> QED BY <2>1, <2>4, <2>6, <2>7, RecordsTyped DEF GatewaysTypeOK
<1>9. CASE UNCHANGED gatewayVars
    BY <1>9 DEF gatewayVars, GatewaysTypeOK, TimersInv
<1> QED BY <1>2, <1>3, <1>4, <1>5, <1>6, <1>7, <1>8, <1>9 DEF GatewaysNext

-----------------------------------------------------------------------------
(* SystemHealth                                                            *)

\* At the start nothing was read.
LEMMA InitHealth == HealthInit => HealthTypeOK
<1> SUFFICES ASSUME HealthInit PROVE HealthTypeOK
    OBVIOUS
<1>1. queueKnown \in BOOLEAN
    BY Zenon DEF HealthInit
<1>2. statsHistory \in 0 .. MaxStats /\ gatewaysDown \in 0 .. MaxDown
    BY SystemHealthAssumption DEF HealthInit
<1> QED BY <1>1, <1>2 DEF HealthInit, HealthTypeOK, Verdicts

\* What was read always has a verdict.
LEMMA OverallVerdict ==
    ASSUME bot \in Verdicts, database \in Verdicts, NEW failed \in BOOLEAN
    PROVE  Overall(failed) \in Verdicts
<1>1. CASE bot = "down" \/ database = "down"
  <2>1. Overall(failed) = "down"
      BY <1>1, Zenon DEF Overall
  <2> QED BY <2>1 DEF Verdicts
<1>2. CASE bot # "down" /\ database = "degraded"
    BY <1>2, Zenon DEF Overall, Verdicts
<1>3. CASE bot # "down" /\ database = "ok"
    BY <1>3, Zenon DEF Overall, Verdicts
<1> QED BY <1>1, <1>2, <1>3 DEF Verdicts

\* No reading, count or report is out of its range.
LEMMA HealthTyped == HealthTypeOK /\ [HealthNext]_healthVars => HealthTypeOK'
<1> SUFFICES ASSUME HealthTypeOK, [HealthNext]_healthVars PROVE HealthTypeOK'
    OBVIOUS
<1> USE SystemHealthAssumption DEF HealthTypeOK, healthVars, seenVars, reportVars
<1>1. ASSUME NEW s \in {"bot", "api"}, RegisterUptime(s) PROVE HealthTypeOK'
    BY <1>1 DEF RegisterUptime
<1>2. CASE RegisterQueue
    BY <1>2 DEF RegisterQueue
<1>3. CASE GetSystemHealth
    BY <1>3 DEF GetSystemHealth, CheckBot, Verdicts
<1>4. ASSUME NEW verdict \in Verdicts, DatabaseAnswers(verdict) PROVE HealthTypeOK'
    BY <1>4 DEF DatabaseAnswers
<1>5. ASSUME NEW counts \in BOOLEAN, NEW down \in 0 .. MaxDown, RedisAnswers(counts, down)
      PROVE  HealthTypeOK'
    BY <1>5 DEF RedisAnswers, Verdicts
<1>6. ASSUME NEW counts \in BOOLEAN, NEW failed \in BOOLEAN, QueuesAnswer(counts, failed)
      PROVE  HealthTypeOK'
    BY <1>6, OverallVerdict DEF QueuesAnswer, RecordStats
<1>7. ASSUME NEW counts \in BOOLEAN, GetAllQueueStats(counts) PROVE HealthTypeOK'
    BY <1>7 DEF GetAllQueueStats, RecordStats
<1>8. CASE UNCHANGED healthVars
    BY <1>8
<1> QED BY <1>1, <1>2, <1>3, <1>4, <1>5, <1>6, <1>7, <1>8 DEF HealthNext

-----------------------------------------------------------------------------
(* Reconciliation                                                          *)

\* A job that may be tried has attempts left, the run of a job has the job at
\* work, and a run that saves its report has ended one way or the other.
JobsInv ==
    /\ \A j \in ReconcileJobs :
           job[j] \in {"none", "waiting", "active", "delayed"} => tries[j] < Attempts
    /\ owner \in ReconcileJobs => job[owner] = "active"
SavingInv == phase = "saving" => status \in {"completed", "failed"}

\* At the start there is no run and no job.
LEMMA InitReconciliation ==
    ReconciliationInit => ReconciliationTypeOK /\ JobsInv /\ SavingInv
<1> SUFFICES ASSUME ReconciliationInit
             PROVE  ReconciliationTypeOK /\ JobsInv /\ SavingInv
    OBVIOUS
<1>1. isRunning \in BOOLEAN /\ enabled \in BOOLEAN /\ cronOn \in BOOLEAN
    BY Zenon DEF ReconciliationInit
<1>2. listed \in [Txs -> Statuses]
    BY ReconciliationAssumption DEF ReconciliationInit, Nothing
<1>3. JobsInv
    BY ReconciliationAssumption DEF ReconciliationInit, JobsInv
<1>4. /\ reports \in [1 .. MaxDays -> {"none", "torn", "completed", "failed"}]
      /\ tries \in [ReconcileJobs -> 0 .. Attempts]
      /\ job \in [ReconcileJobs -> {"none", "waiting", "active", "delayed", "completed", "failed"}]
    BY ReconciliationAssumption DEF ReconciliationInit
<1> QED BY <1>1, <1>2, <1>3, <1>4, ReconciliationAssumption
        DEF ReconciliationInit, SavingInv, ReconciliationTypeOK

\* What a run has and what it leaves, seen apart from what asks for runs
ResultTyped ==
    /\ listed \in [Txs -> Statuses] /\ left \subseteq Txs /\ asking \subseteq Txs
    /\ size \in Nat
    /\ found \subseteq {"status", "amount", "duplicate", "missing provider"} \X Txs
    /\ phase \in {"idle", "listing", "checking", "looping", "saving", "csv"}
    /\ status \in {"none", "running", "completed", "failed"}
    /\ SavingInv
GuardTyped ==
    /\ isRunning \in BOOLEAN /\ owner \in {"none", "cron", "route"} \cup ReconcileJobs
    /\ startDay \in 1 .. today /\ today \in 1 .. MaxDays
    /\ runs \in 0 .. MaxReconciles
ReportsTyped ==
    reports \in [1 .. MaxDays -> {"none", "torn", "completed", "failed"}]
JobsTyped ==
    /\ job \in [ReconcileJobs -> {"none", "waiting", "active", "delayed", "completed", "failed"}]
    /\ tries \in [ReconcileJobs -> 0 .. Attempts]
    /\ JobsInv
RequestsTyped ==
    /\ queue \in {"none", "open", "paused", "closing", "closed"}
    /\ enabled \in BOOLEAN /\ cronOn \in BOOLEAN /\ updating \in 0 .. changes
    /\ batchSize \in Sizes /\ maxConcurrency \in Sizes
    /\ changes \in 0 .. MaxChanges
RunsInv == ResultTyped /\ GuardTyped /\ ReportsTyped /\ JobsTyped /\ RequestsTyped

\* Together they are the types.
LEMMA RunsTypes == RunsInv <=> ReconciliationTypeOK /\ JobsInv /\ SavingInv
BY DEF RunsInv, ResultTyped, GuardTyped, ReportsTyped, JobsTyped, RequestsTyped,
       ReconciliationTypeOK

\* A mismatch is one of four kinds, of a transaction.
LEMMA MismatchesTyped ==
    ASSUME NEW t \in Txs, NEW data
    PROVE  /\ DetectMismatches(t, data)
                 \subseteq {"status", "amount", "duplicate", "missing provider"} \X Txs
           /\ \A ts \in SUBSET Txs : DetectDuplicates(ts)
                 \subseteq {"status", "amount", "duplicate", "missing provider"} \X Txs
<1>1. <<"missing provider", t>> \in {"status", "amount", "duplicate", "missing provider"} \X Txs
      /\ <<"status", t>> \in {"status", "amount", "duplicate", "missing provider"} \X Txs
      /\ <<"amount", t>> \in {"status", "amount", "duplicate", "missing provider"} \X Txs
    OBVIOUS
<1>2. DetectMismatches(t, data)
          \subseteq {<<"missing provider", t>>, <<"status", t>>, <<"amount", t>>}
    BY DEF DetectMismatches
<1>3. ASSUME NEW ts \in SUBSET Txs
      PROVE  DetectDuplicates(ts)
                 \subseteq {"status", "amount", "duplicate", "missing provider"} \X Txs
  <2>1. ASSUME NEW x \in DetectDuplicates(ts)
        PROVE  x \in {"status", "amount", "duplicate", "missing provider"} \X Txs
    <3>1. \E u \in ts : x = <<"duplicate", u>>
        BY <2>1, Zenon DEF DetectDuplicates
    <3>2. PICK u \in ts : x = <<"duplicate", u>>
        BY <3>1
    <3> QED BY <3>2
  <2> QED BY <2>1
<1> QED BY <1>1, <1>2, <1>3

\* A batch is part of what is left; without one the run is to be saved.
LEMMA NextBatchTyped ==
    ASSUME NEW rest \in SUBSET Txs, NEW n, NextBatch(rest, n),
           status \in {"none", "running", "completed", "failed"}
    PROVE  /\ left' \subseteq Txs /\ asking' \subseteq Txs
           /\ phase' \in {"idle", "listing", "checking", "looping", "saving", "csv"}
           /\ status' \in {"none", "running", "completed", "failed"} /\ SavingInv'
<1>1. CASE rest = {}
    BY <1>1 DEF NextBatch, SavingInv
<1>2. CASE rest # {}
  <2>1. PICK batch \in SUBSET rest :
            /\ phase' = "checking" \/ phase' = "looping"
            /\ asking' = batch /\ left' = rest \ batch
            /\ UNCHANGED status
      BY <1>2, Zenon DEF NextBatch
  <2> QED BY <2>1 DEF SavingInv
<1> QED BY <1>1, <1>2

\* A run that ends settles its job.
LEMMA RunEndsTyped ==
    ASSUME RunsInv, RunEnds, UNCHANGED <<configVars, queue, today, runs, changes>>,
           ReportsTyped'
    PROVE  RunsInv'
<1>1. JobsTyped'
  <2>1. CASE owner \in ReconcileJobs
    <3>1. tries[owner] < Attempts /\ tries[owner] \in Nat /\ tries[owner] + 1 \in 0 .. Attempts
        BY <2>1, ReconciliationAssumption DEF RunsInv, JobsTyped, JobsInv
    <3>2. /\ tries' = [tries EXCEPT ![owner] = @ + 1]
          /\ \E to \in {"completed", "delayed", "failed"} :
                /\ job' = [job EXCEPT ![owner] = to]
                /\ to = "delayed" => tries[owner] + 1 < Attempts
          /\ owner' = "none"
        BY <2>1 DEF RunEnds, Settled
    <3> QED BY <2>1, <3>1, <3>2, ReconciliationAssumption DEF RunsInv, JobsTyped, JobsInv
  <2>2. CASE owner \notin ReconcileJobs
      BY <2>2, ReconciliationAssumption DEF RunEnds, RunsInv, JobsTyped, JobsInv
  <2> QED BY <2>1, <2>2
<1>2. ResultTyped'
    BY ReconciliationAssumption DEF RunEnds, NoRun, Nothing, ResultTyped, SavingInv
<1>3. GuardTyped'
  <2>1. isRunning' \in BOOLEAN
      BY Zenon DEF RunEnds, Leave
  <2> QED BY <2>1 DEF RunEnds, RunsInv, GuardTyped
<1>4. RequestsTyped'
    BY DEF configVars, RunsInv, RequestsTyped
<1> QED BY <1>1, <1>2, <1>3, <1>4 DEF RunsInv

\* A run that begins is of its day and of who asked for it.
LEMMA RunBegins ==
    ASSUME RunsInv, NEW by \in {"cron", "route"} \cup ReconcileJobs, RunReconciliation(by)
    PROVE  ResultTyped' /\ (today' = today => GuardTyped') /\ owner' = by
<1>1. isRunning' \in BOOLEAN
    BY Zenon DEF RunReconciliation
<1>2. /\ runs < MaxReconciles /\ runs' = runs + 1 /\ phase' = "listing" /\ owner' = by
      /\ startDay' = today /\ status' = "running" /\ UNCHANGED <<listed, size, left, asking, found>>
    BY DEF RunReconciliation
<1>3. ResultTyped'
    BY <1>2 DEF RunsInv, ResultTyped, SavingInv
<1>4. ASSUME today' = today PROVE GuardTyped'
    BY <1>1, <1>2, <1>4, ReconciliationAssumption DEF RunsInv, GuardTyped
<1> QED BY <1>2, <1>3, <1>4

\* A run on its way
LEMMA RunTyped == RunsInv /\ RunGoesOn => RunsInv'
<1> SUFFICES ASSUME RunsInv, RunGoesOn PROVE RunsInv'
    OBVIOUS
<1>1. ASSUME NEW statuses \in [Txs -> Statuses], NEW taken, Listed(statuses, taken)
      PROVE  RunsInv'
  <2> DEFINE ts == {t \in Txs : ShouldReconcile(t, taken)}
  <2>1. /\ listed' = [t \in Txs |-> IF t \in ts THEN statuses[t] ELSE Nothing[t]]
        /\ found' = DetectDuplicates(ts) /\ NextBatch(ts, batchSize) /\ size' = batchSize
        /\ UNCHANGED <<isRunning, owner, startDay, reports, configVars,
                       queueVars, today, runs, changes>>
      BY <1>1 DEF Listed
  <2>2. ts \in SUBSET Txs
      OBVIOUS
  <2> HIDE DEF ts
  <2>3. listed' \in [Txs -> Statuses]
      BY <2>1, ReconciliationAssumption DEF Nothing
  <2>4. found' \subseteq {"status", "amount", "duplicate", "missing provider"} \X Txs
    <3>1. CASE Txs = {}
        BY <2>1, <2>2, <3>1 DEF DetectDuplicates
    <3> QED BY <2>1, <2>2, <3>1, MismatchesTyped
  <2>5. ResultTyped'
    <3>1. size' \in Nat
        BY <2>1, ReconciliationAssumption DEF RunsInv, RequestsTyped
    <3> QED BY <2>1, <2>2, <2>3, <2>4, <3>1, NextBatchTyped DEF RunsInv, ResultTyped
  <2> QED BY <2>1, <2>5
          DEF configVars, queueVars, RunsInv, GuardTyped, ReportsTyped, JobsTyped, JobsInv,
              RequestsTyped
<1>2. CASE ListFails
    BY <1>2 DEF ListFails, configVars, queueVars, RunsInv, ResultTyped, SavingInv, GuardTyped,
                ReportsTyped, JobsTyped, JobsInv, RequestsTyped
<1>3. ASSUME NEW t \in Txs, NEW reply \in Answers, StatusArrives(t, reply) PROVE RunsInv'
  <2>1. /\ found' = found \cup DetectMismatches(t, GetPaymentStatus(reply))
        /\ UNCHANGED <<isRunning, owner, startDay, listed, size, reports, configVars,
                       queueVars, today, runs, changes>>
        /\ \/ NextBatch(left, size)
           \/ asking' = asking \ {t} /\ UNCHANGED <<phase, left, status>>
      BY <1>3, Zenon DEF StatusArrives
  <2>2. found' \subseteq {"status", "amount", "duplicate", "missing provider"} \X Txs
      BY <2>1, MismatchesTyped DEF RunsInv, ResultTyped
  <2>3. ResultTyped'
    <3>1. CASE NextBatch(left, size)
        BY <2>1, <2>2, <3>1, NextBatchTyped DEF RunsInv, ResultTyped
    <3> QED BY <2>1, <2>2, <3>1 DEF RunsInv, ResultTyped, SavingInv
  <2> QED BY <2>1, <2>3
          DEF configVars, queueVars, RunsInv, GuardTyped, ReportsTyped, JobsTyped, JobsInv,
              RequestsTyped
<1>4. CASE SaveReport
  <2>1. ReportsTyped'
    <3>1. status \in {"completed", "failed"}
        BY <1>4 DEF SaveReport, RunsInv, ResultTyped, SavingInv
    <3> QED BY <1>4, <3>1 DEF SaveReport, RunsInv, ReportsTyped
  <2>2. CASE found = {}
      BY <1>4, <2>1, <2>2, RunEndsTyped DEF SaveReport
  <2>3. CASE found # {}
      BY <1>4, <2>1, <2>3 DEF SaveReport, resultVars, configVars, RunsInv, ResultTyped,
                SavingInv, GuardTyped, JobsTyped, JobsInv, RequestsTyped
  <2> QED BY <2>2, <2>3
<1>5. CASE ReportNotSaved
  <2>1. ReportsTyped'
      BY <1>5 DEF ReportNotSaved, RunsInv, ReportsTyped
  <2>2. CASE status = "completed"
      BY <1>5, <2>1, <2>2 DEF ReportNotSaved, configVars, RunsInv, ResultTyped, SavingInv,
                GuardTyped, JobsTyped, JobsInv, RequestsTyped
  <2>3. CASE status # "completed"
      BY <1>5, <2>1, <2>3, RunEndsTyped DEF ReportNotSaved
  <2> QED BY <2>2, <2>3
<1>6. CASE SaveCSV
  <2>1. ReportsTyped'
      BY <1>6 DEF SaveCSV, RunsInv, ReportsTyped
  <2> QED BY <1>6, <2>1, RunEndsTyped DEF SaveCSV
<1> QED BY <1>1, <1>2, <1>3, <1>4, <1>5, <1>6 DEF RunGoesOn

\* What a step leaves alone keeps its types.
LEMMA Kept ==
    ASSUME RunsInv
    PROVE  /\ UNCHANGED <<runVars, today, runs>> => ResultTyped' /\ GuardTyped'
           /\ UNCHANGED reports => ReportsTyped'
           /\ UNCHANGED <<owner, job, tries>> => JobsTyped'
           /\ UNCHANGED <<queue, configVars, changes>> => RequestsTyped'
<1> USE DEF RunsInv
<1>1. ASSUME UNCHANGED <<runVars, today, runs>> PROVE ResultTyped' /\ GuardTyped'
  <2>1. UNCHANGED <<isRunning, phase, owner, startDay, listed, size, left, asking, found,
                    status, today, runs>>
      BY <1>1 DEF runVars, resultVars
  <2> QED BY <2>1 DEF ResultTyped, SavingInv, GuardTyped
<1>2. ASSUME UNCHANGED <<queue, configVars, changes>> PROVE RequestsTyped'
    BY <1>2 DEF configVars, RequestsTyped
<1> QED BY <1>1, <1>2 DEF ReportsTyped, JobsTyped, JobsInv

\* Who asks for runs, and what else goes on
LEMMA RequestsStep ==
    ASSUME RunsInv,
           \/ InitializeEngine \/ CronFires \/ ConfigSaved \/ ConfigNotSaved
           \/ \E on \in BOOLEAN, n, m \in Sizes : UpdateConfig(on, n, m)
           \/ RunDirectly \/ InitializeQueue
    PROVE  RunsInv'
<1> USE ReconciliationAssumption DEF Change
<1>1. updating \in Nat /\ changes \in Nat /\ updating <= changes /\ changes <= MaxChanges
    BY DEF RunsInv, RequestsTyped
<1>2. CASE InitializeEngine
  <2>1. enabled' \in BOOLEAN /\ cronOn' \in BOOLEAN
      BY <1>2, Zenon DEF InitializeEngine, Defaults
  <2>4. batchSize' \in Sizes /\ maxConcurrency' \in Sizes
      BY <1>2 DEF InitializeEngine, Defaults
  <2>2. /\ changes < MaxChanges /\ changes' = changes + 1
        /\ UNCHANGED <<runVars, reports, updating, queueVars, today, runs>>
      BY <1>2, Zenon DEF InitializeEngine
  <2>3. RequestsTyped'
      BY <1>1, <2>1, <2>2, <2>4 DEF queueVars, RunsInv, RequestsTyped
  <2> QED BY <2>2, <2>3, Kept DEF runVars, queueVars, RunsInv
<1>3. ASSUME NEW by \in {"cron", "route"}, RunReconciliation(by),
             UNCHANGED <<reports, configVars, queueVars, today, changes>>
      PROVE  RunsInv'
  <2>1. ResultTyped' /\ GuardTyped' /\ owner' = by
      BY <1>3, RunBegins
  <2>2. JobsTyped'
      BY <1>3, <2>1 DEF queueVars, RunsInv, JobsTyped, JobsInv
  <2> QED BY <1>3, <2>1, <2>2, Kept DEF queueVars, RunsInv
<1>4. CASE ConfigSaved \/ ConfigNotSaved
  <2>1. /\ updating > 0 /\ updating' = updating - 1
        /\ UNCHANGED <<runVars, reports, enabled, batchSize, maxConcurrency, queueVars,
                       today, runs, changes>>
      BY <1>4 DEF ConfigSaved, ConfigNotSaved, Updated
  <2>3. enabled \in BOOLEAN /\ cronOn \in BOOLEAN
      BY DEF RunsInv, RequestsTyped
  <2>4. cronOn' \in BOOLEAN
      BY <1>4, <2>3, Zenon DEF ConfigSaved, ConfigNotSaved
  <2>2. RequestsTyped'
      BY <1>1, <2>1, <2>4 DEF queueVars, RunsInv, RequestsTyped
  <2> QED BY <2>1, <2>2, Kept DEF runVars, queueVars, RunsInv
<1>5. ASSUME NEW on \in BOOLEAN, NEW n \in Sizes, NEW m \in Sizes, UpdateConfig(on, n, m)
      PROVE  RunsInv'
  <2>1. /\ changes < MaxChanges /\ changes' = changes + 1
        /\ enabled' = on /\ batchSize' = n /\ maxConcurrency' = m /\ updating' = updating + 1
        /\ UNCHANGED <<runVars, reports, cronOn, queueVars, today, runs>>
      BY <1>5 DEF UpdateConfig
  <2>2. RequestsTyped'
      BY <1>1, <2>1 DEF queueVars, RunsInv, RequestsTyped
  <2> QED BY <2>1, <2>2, Kept DEF runVars, queueVars, RunsInv
<1>6. CASE InitializeQueue
  <2>1. /\ changes < MaxChanges /\ changes' = changes + 1 /\ queue' = "open"
        /\ UNCHANGED <<runVars, reports, configVars, job, tries, today, runs>>
      BY <1>6 DEF InitializeQueue
  <2>2. RequestsTyped'
      BY <1>1, <2>1 DEF configVars, RunsInv, RequestsTyped
  <2> QED BY <2>1, <2>2, Kept DEF runVars, RunsInv
<1> QED BY <1>2, <1>3, <1>4, <1>5, <1>6 DEF CronFires, RunDirectly

\* A job is added, tried, or waits for its next attempt.
LEMMA JobsStep ==
    ASSUME RunsInv, NEW j \in ReconcileJobs,
           AddReconcileJob(j) \/ ProcessJob(j) \/ BackoffEnds(j)
    PROVE  RunsInv'
<1>1. ASSUME job[j] \in {"none", "delayed"}, job' = [job EXCEPT ![j] = "waiting"],
             UNCHANGED <<runVars, reports, configVars, queue, tries, today, runs, changes>>
      PROVE  RunsInv'
  <2>1. owner # j
      BY <1>1 DEF RunsInv, JobsTyped, JobsInv
  <2>2. owner' = owner
      BY <1>1 DEF runVars
  <2>3. JobsTyped'
      BY <1>1, <2>1, <2>2 DEF RunsInv, JobsTyped, JobsInv
  <2> QED BY <1>1, <2>3, Kept DEF RunsInv
<1>2. ASSUME ProcessJob(j) PROVE RunsInv'
  <2>1. job[j] = "waiting" /\ owner # j /\ tries[j] \in Nat /\ tries[j] < Attempts
      BY <1>2 DEF ProcessJob, RunsInv, JobsTyped, JobsInv
  <2>2. UNCHANGED <<reports, configVars, queue, today, changes>>
      BY <1>2 DEF ProcessJob
  <2>3. CASE isRunning
    <3>1. /\ tries' = [tries EXCEPT ![j] = @ + 1]
          /\ \E to \in {"delayed", "failed"} :
                /\ job' = [job EXCEPT ![j] = to]
                /\ to = "delayed" => tries[j] + 1 < Attempts
          /\ UNCHANGED <<runVars, runs>>
        BY <1>2, <2>3 DEF ProcessJob, Settled
    <3>2. JobsTyped'
        BY <2>1, <3>1, ReconciliationAssumption DEF runVars, RunsInv, JobsTyped, JobsInv
    <3> QED BY <2>2, <3>1, <3>2, Kept DEF RunsInv
  <2>4. CASE ~isRunning
    <3>1. /\ RunReconciliation(j)
          /\ job' = [job EXCEPT ![j] = "active"] /\ UNCHANGED tries
        BY <1>2, <2>4 DEF ProcessJob
    <3>2. ResultTyped' /\ GuardTyped' /\ owner' = j
        BY <2>2, <3>1, RunBegins
    <3>3. JobsTyped'
        BY <2>1, <3>1, <3>2 DEF RunsInv, JobsTyped, JobsInv
    <3> QED BY <2>2, <3>2, <3>3, Kept DEF RunsInv
  <2> QED BY <2>3, <2>4
<1> QED BY <1>1, <1>2 DEF AddReconcileJob, BackoffEnds

\* The queue, the days, the files and the process.
LEMMA WorldStep ==
    ASSUME RunsInv, NEW keep, NEW gone, NEW from \in {"open", "paused", "closing"},
           NEW to \in {"open", "paused", "closing", "closed"},
           SetQueue(from, to) \/ DayPasses \/ DeleteOldReports(keep, gone) \/ RestartReconciler
    PROVE  RunsInv'
<1> USE ReconciliationAssumption DEF Change
<1>1. updating \in Nat /\ changes \in Nat /\ updating <= changes /\ changes <= MaxChanges
    BY DEF RunsInv, RequestsTyped
<1>0. ASSUME changes' \in {changes, changes + 1}, changes' <= MaxChanges,
             queue' \in {"open", "paused", "closing", "closed", queue},
             UNCHANGED configVars
      PROVE  RequestsTyped'
    BY <1>0, <1>1 DEF configVars, RunsInv, RequestsTyped
<1>2. CASE SetQueue(from, to)
  <2>1. /\ queue' = to /\ changes' \in {changes, changes + 1} /\ changes' <= MaxChanges
        /\ UNCHANGED <<runVars, reports, configVars, job, tries, today, runs>>
      BY <1>1, <1>2 DEF SetQueue
  <2> QED BY <1>0, <2>1, Kept DEF runVars, RunsInv
<1>3. CASE DayPasses
  <2>1. /\ changes' = changes + 1 /\ changes' <= MaxChanges
        /\ today < MaxDays /\ today' = today + 1
        /\ UNCHANGED <<isRunning, phase, owner, startDay, resultVars, reports, configVars,
                       queueVars, runs>>
      BY <1>1, <1>3 DEF DayPasses, runVars
  <2>2. GuardTyped'
      BY <2>1 DEF RunsInv, GuardTyped
  <2>3. ResultTyped'
      BY <2>1 DEF resultVars, RunsInv, ResultTyped, SavingInv
  <2> QED BY <1>0, <2>1, <2>2, <2>3, Kept DEF queueVars, RunsInv
<1>4. CASE DeleteOldReports(keep, gone)
  <2>1. /\ changes' = changes + 1 /\ changes' <= MaxChanges
        /\ reports' = [d \in 1 .. MaxDays |-> IF d \in gone THEN "none" ELSE reports[d]]
        /\ UNCHANGED <<runVars, configVars, queueVars, today, runs>>
      BY <1>1, <1>4 DEF DeleteOldReports
  <2>2. ReportsTyped'
      BY <2>1 DEF RunsInv, ReportsTyped
  <2> QED BY <1>0, <2>1, <2>2, Kept DEF runVars, queueVars, RunsInv
<1>5. CASE RestartReconciler
  <2>1. isRunning' \in BOOLEAN /\ enabled' \in BOOLEAN /\ cronOn' \in BOOLEAN
      BY <1>5, Zenon DEF RestartReconciler, Defaults
  <2>6. batchSize' \in Sizes /\ maxConcurrency' \in Sizes
      BY <1>5 DEF RestartReconciler, Defaults
  <2>2. /\ phase' = "idle" /\ owner' = "none" /\ startDay' = 1 /\ status' = "none" /\ NoRun
        /\ updating' = 0 /\ queue' = "none" /\ changes < MaxChanges /\ changes' = changes + 1
        /\ UNCHANGED <<tries, today, runs>>
        /\ reports' \in {reports, [reports EXCEPT ![startDay] = "torn"]}
        /\ job' = [j \in ReconcileJobs |-> IF job[j] = "active" THEN "waiting" ELSE job[j]]
      BY <1>5 DEF RestartReconciler
  <2>3. ResultTyped' /\ ReportsTyped'
      BY <2>2 DEF NoRun, Nothing, RunsInv, ResultTyped, SavingInv, ReportsTyped
  <2>4. JobsTyped'
      BY <2>2 DEF RunsInv, JobsTyped, JobsInv
  <2>5. GuardTyped' /\ RequestsTyped'
      BY <1>1, <2>1, <2>2, <2>6 DEF RunsInv, GuardTyped, RequestsTyped
  <2> QED BY <2>3, <2>4, <2>5 DEF RunsInv
<1> QED BY <1>2, <1>3, <1>4, <1>5

\* Every step keeps a run within its transactions, and a job within its
\* attempts.
LEMMA ReconciliationTyped == RunsInv /\ [ReconciliationNext]_reconciliationVars => RunsInv'
<1> SUFFICES ASSUME RunsInv, [ReconciliationNext]_reconciliationVars PROVE RunsInv'
    OBVIOUS
<1>1. CASE RunGoesOn
    BY <1>1, RunTyped
<1>2. CASE \/ InitializeEngine \/ CronFires \/ ConfigSaved \/ ConfigNotSaved
           \/ \E on \in BOOLEAN, n, m \in Sizes : UpdateConfig(on, n, m)
           \/ RunDirectly \/ InitializeQueue
    BY <1>2, RequestsStep
<1>3. CASE \E j \in ReconcileJobs : AddReconcileJob(j) \/ ProcessJob(j) \/ BackoffEnds(j)
    BY <1>3, JobsStep
<1>4. CASE \/ SetQueue("open", "paused") \/ SetQueue("paused", "open")
           \/ SetQueue("open", "closing") \/ SetQueue("closing", "closed")
           \/ DayPasses \/ RestartReconciler
           \/ \E keep \in (-1 .. MaxDays) \ {0} : \E gone \in SUBSET (1 .. MaxDays) :
                 gone # {} /\ DeleteOldReports(keep, gone)
    BY <1>4, WorldStep
<1>5. CASE UNCHANGED reconciliationVars
    BY <1>5, Kept DEF reconciliationVars, runVars, queueVars, RunsInv
<1> QED BY <1>1, <1>2, <1>3, <1>4, <1>5 DEF ReconciliationNext, Served

-----------------------------------------------------------------------------
(* ControlPanel                                                            *)

\* At the start no process runs.
LEMMA InitPanel == PanelInit => PanelTypeOK
<1> SUFFICES ASSUME PanelInit PROVE PanelTypeOK
    OBVIOUS
<1>1. /\ maintenance \in BOOLEAN /\ window \in BOOLEAN
      /\ answer \in BOOLEAN /\ modeShown \in BOOLEAN
    BY Zenon DEF PanelInit
<1>2. asked \in [Requests -> {"idle", "asked", "ok", "failed"}]
    BY DEF PanelInit
<1> QED BY <1>1, <1>2 DEF PanelInit, PanelTypeOK

\* There are four processes to start.
LEMMA ServicesNamed ==
    /\ DOMAIN Services = 1 .. 4
    /\ Processes = {"api", "socket", "bot", "electron"}
<1>1. DOMAIN Services = 1 .. 4
    BY DEF Services
<1>2. Processes = {Services[1], Services[2], Services[3], Services[4]}
    BY <1>1 DEF Processes
<1> QED BY <1>1, <1>2 DEF Services

\* What dies takes all it knew with it.
LEMMA DieTyped ==
    ASSUME PanelTypeOK, NEW dead, Die(dead), next' \in 1 .. 5,
           ending' \in {"no", "cleaning", "late", "gone"}
    PROVE  PanelTypeOK'
<1> USE DEF PanelTypeOK
<1>1. CASE "electron" \in dead
    BY <1>1 DEF Die, FreshPage
<1>2. CASE "electron" \notin dead
    BY <1>2 DEF Die, requestVars, shownVars
<1> QED BY <1>1, <1>2

\* What listens runs, a bot that is registered is one in its own process, and
\* nothing is shown that nobody sent.
LEMMA PanelTyped == PanelTypeOK /\ [PanelNext]_panelVars => PanelTypeOK'
<1> SUFFICES ASSUME PanelTypeOK, [PanelNext]_panelVars PROVE PanelTypeOK'
    OBVIOUS
<1> USE PanelAssumption DEF launchVars, botVars, shownVars, requestVars
<1>1. CASE StartNext
    BY <1>1, ServicesNamed DEF StartNext, Processes, PanelTypeOK
<1>2. CASE Cleanup
  <2>1. PICK dead : Die(dead)
      BY <1>2 DEF Cleanup
  <2>2. next' \in 1 .. 5 /\ ending' \in {"no", "cleaning", "late", "gone"}
      BY <1>2 DEF Cleanup, PanelTypeOK
  <2> QED BY <2>1, <2>2, DieTyped
<1>3. CASE LauncherExits
    BY <1>3 DEF LauncherExits, PanelTypeOK
<1>4. CASE ElectronEnds
  <2>1. PICK dead : Die(dead)
      BY <1>4 DEF ElectronEnds
  <2>2. next' \in 1 .. 5 /\ ending' \in {"no", "cleaning", "late", "gone"}
      BY <1>4 DEF ElectronEnds, PanelTypeOK
  <2> QED BY <2>1, <2>2, DieTyped
<1>5. ASSUME NEW p \in Processes, ProcessEnds(p) PROVE PanelTypeOK'
    BY <1>5, DieTyped DEF ProcessEnds, PanelTypeOK
<1>6. ASSUME NEW p \in Processes, Listens(p) PROVE PanelTypeOK'
    BY <1>6 DEF Listens, PanelTypeOK
<1>7. ASSUME NEW registers \in BOOLEAN, BotReady(registers) PROVE PanelTypeOK'
    BY <1>7 DEF BotReady, PanelTypeOK
<1>8. CASE EmitBotStatus
    BY <1>8 DEF EmitBotStatus, PanelTypeOK
<1>9. CASE CreateWindow
    BY <1>9 DEF CreateWindow, FreshPage, PanelTypeOK
<1>10. CASE CloseWindow
  <2>1. CASE Darwin
    <3>1. /\ window' = FALSE /\ socketClient' = "off"
          /\ UNCHANGED <<launchVars, up, listening, botVars, maintenance, requestVars,
                         shownVars>>
        BY <1>10, <2>1, Zenon DEF CloseWindow
    <3> QED BY <3>1 DEF PanelTypeOK
  <2>2. CASE ~Darwin
    <3>1. ElectronEnds
        BY <1>10, <2>2, Zenon DEF CloseWindow
    <3> QED BY <1>4, <3>1, Zenon
  <2> QED BY <2>1, <2>2
<1>11. ASSUME NEW on \in BOOLEAN, SetMaintenance(on) PROVE PanelTypeOK'
    BY <1>11 DEF SetMaintenance, SetMaintenanceMode, Mode, PanelTypeOK
<1>12. ASSUME NEW from, NEW to \in {"connecting", "connected"}, Connection(from, to)
       PROVE  PanelTypeOK'
    BY <1>12 DEF Connection, PanelTypeOK
<1>13. ASSUME NEW r \in Requests, Ask(r) \/ Unanswered(r) PROVE PanelTypeOK'
  <2>1. PICK to \in {"asked", "failed"} : asked' = [asked EXCEPT ![r] = to]
      BY <1>13 DEF Ask, Unanswered, Becomes
  <2>2. UNCHANGED <<launchVars, up, listening, botVars, maintenance, window, socketClient,
                    answer, shownVars>>
      BY <1>13, Zenon DEF Ask, Unanswered
  <2> QED BY <2>1, <2>2 DEF PanelTypeOK
<1>14. ASSUME NEW r \in Requests, Serve(r) PROVE PanelTypeOK'
  <2> DEFINE Stops ==
             /\ ShutdownBot("api")
             /\ Becomes(r, IF "api" \in botClient THEN "ok" ELSE "failed")
             /\ UNCHANGED <<maintenance, answer, heard>>
         Toggles ==
             /\ SetMaintenanceMode(~maintenance) /\ answer' = ~maintenance
             /\ Becomes(r, "ok")
             /\ UNCHANGED botVars
         Asks ==
             /\ \E result \in {"ok", "failed"} : Becomes(r, result)
             /\ UNCHANGED <<botVars, maintenance, answer, heard>>
  <2>1. r \in {"stop", "restart"} \/ r = "toggle" \/ r = "status"
      BY DEF Requests
  <2>2. Stops \/ Toggles \/ Asks
    <3>1. CASE r \in {"stop", "restart"}
        BY <1>14, <3>1, Zenon DEF Serve
    <3>2. CASE r = "toggle"
        BY <1>14, <3>2, Zenon DEF Serve
    <3>3. CASE r = "status"
        BY <1>14, <3>3, Zenon DEF Serve
    <3> QED BY <2>1, <3>1, <3>2, <3>3
  <2>3. UNCHANGED <<launchVars, up, listening, window, socketClient, modeShown, statusShown>>
      BY <1>14, Zenon DEF Serve
  <2>4. CASE Stops
      BY <2>3, <2>4 DEF ShutdownBot, Becomes, PanelTypeOK
  <2>5. CASE Toggles
      BY <2>3, <2>5 DEF SetMaintenanceMode, Mode, Becomes, PanelTypeOK
  <2>6. CASE Asks
      BY <2>3, <2>6 DEF Becomes, PanelTypeOK
  <2> QED BY <2>2, <2>4, <2>5, <2>6
<1>15. ASSUME NEW r \in Requests, Shown(r) PROVE PanelTypeOK'
    BY <1>15 DEF Shown, Becomes, PanelTypeOK
<1>16. CASE UNCHANGED panelVars
    BY <1>16 DEF panelVars, PanelTypeOK
<1> QED BY <1>1, <1>2, <1>3, <1>4, <1>5, <1>6, <1>7, <1>8, <1>9, <1>10, <1>11, <1>12,
           <1>13, <1>14, <1>15, <1>16 DEF PanelNext, QuitElectron

-----------------------------------------------------------------------------
(* All of them together.                                                   *)

\* MCAdministration: a step of the composition is one of a part, and of the
\* other parts none.
LEMMA StepOfAPart ==
    ASSUME [Next]_vars
    PROVE  /\ [KeysNext]_keysVars /\ [SessionsNext]_sessionVars
           /\ [TwoFactorNext]_twoFactorVars /\ [GatewaysNext]_gatewayVars
           /\ [HealthNext]_healthVars /\ [ReconciliationNext]_reconciliationVars
           /\ [PanelNext]_panelVars
<1>1. CASE UNCHANGED vars
    BY <1>1 DEF vars
<1>2. CASE InKeys(KeysNext)
    BY <1>2 DEF InKeys
<1>3. CASE InSessions(SessionsNext)
    BY <1>3 DEF InSessions
<1>4. CASE InTwoFactor(TwoFactorNext)
    BY <1>4 DEF InTwoFactor
<1>5. CASE InGateways(GatewaysNext)
    BY <1>5 DEF InGateways
<1>6. CASE InHealth(HealthNext)
    BY <1>6 DEF InHealth
<1>7. CASE InReconciliation(ReconciliationNext)
    BY <1>7 DEF InReconciliation
<1>8. CASE InPanel(PanelNext)
    BY <1>8 DEF InPanel
<1> QED BY <1>1, <1>2, <1>3, <1>4, <1>5, <1>6, <1>7, <1>8 DEF Next

\* The composition that the run checks is each part's own specification: what
\* is proved above of keys, sessions and backup codes holds of it.
THEOREM PartsImplemented == Spec => KeysSpec /\ SessionsSpec /\ TwoFactorSpec
<1>1. Init => KeysInit /\ SessionsInit /\ TwoFactorInit
    BY DEF Init
<1>2. [Next]_vars => /\ [KeysNext]_keysVars /\ [SessionsNext]_sessionVars
                     /\ [TwoFactorNext]_twoFactorVars
    BY StepOfAPart
<1> QED BY <1>1, <1>2, PTL DEF Spec, KeysSpec, SessionsSpec, TwoFactorSpec

\* Every part's state stays in range, for any constants: no code, key or
\* session that was not made, no list over its limit, no job over its attempts,
\* no report of a run that is still on.
THEOREM AdministrationTypeCorrect == Spec => []TypeOK
<1> DEFINE Typed == /\ KeysInv /\ KeysTypeOK /\ Inv /\ SessionsTypeOK
                    /\ TwoFactorTypeOK /\ GatewaysTypeOK /\ TimersInv
                    /\ HealthTypeOK /\ RunsInv /\ PanelTypeOK
<1>1. Init => Typed
    BY KeysTypedAtFirst, InitSessions, InitTwoFactor, InitGateways, InitHealth,
       InitReconciliation, RunsTypes, InitPanel DEF Init
<1>2. Typed /\ [Next]_vars => Typed'
    BY StepOfAPart, KeysTyped, SessionsTyped, TwoFactorTyped, GatewaysTyped, HealthTyped,
       ReconciliationTyped, PanelTyped
<1>3. Typed => TypeOK
    BY RunsTypes DEF TypeOK
<1> QED BY <1>1, <1>2, <1>3, PTL DEF Spec
=============================================================================
