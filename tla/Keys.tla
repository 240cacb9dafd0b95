--------------------------------- MODULE Keys ---------------------------------
(***************************************************************************)
(* The secrets of one process and their rotation: SecretManager,           *)
(* KeyRotationService and the routes that rotate a key.  A secret is known *)
(* by its version: 1 is what loadSecrets found or made when the process    *)
(* began, every rotation makes the next.  Memory changes first, then the   *)
(* rotation is recorded in key_rotation_logs, by a statement of its own.   *)
(* Such a statement is executed or throws, at any time: the data access    *)
(* layer of today has no method for it and always throws.  Of the 2FA      *)
(* check only its answer and the wait for it are here.                     *)
(***************************************************************************)
EXTENDS Integers, FiniteSets, FiniteSetsExt

CONSTANTS
    InEnvironment,  \* the keys process.env gives
    Development,    \* NODE_ENV is "development"
    Grace,          \* JWT_GRACE_PERIOD_DAYS, in ticks
    RotateAfter,    \* 30 days, in ticks
    RotatedKeys,    \* the keys that get rotated
    MaxRotations,   \* bound on rotations asked for
    MaxKeyLoads     \* bound on reloads and restarts

\* rotateGatewayKey treats every gateway's key alike: one stands for them
Rotatable == {"jwt", "session", "ipc", "gateway"}
KeyNames == Rotatable \cup {"previous", "encryption"}

\* rotations are numbered in the order they are asked for
Rotations == 1 .. MaxRotations

ASSUME KeysAssumption ==
    /\ InEnvironment \subseteq KeyNames /\ RotatedKeys \subseteq Rotatable
    /\ Development \in BOOLEAN
    /\ Grace \in Nat /\ RotateAfter \in Nat
    /\ MaxRotations \in Nat /\ MaxKeyLoads \in Nat

VARIABLES
    secrets,     \* version of each key, 0 for none
    newest,      \* highest version of each key so far
    rotated,     \* key of each rotation asked for
    stage,       \* how far it is
    given,       \* the version it made
    order,       \* when: rotatedAt, by rank
    age,         \* ticks since, up to the longest time compared with
    logs,        \* rotations in key_rotation_logs
    cleaning,    \* the rotation a cleanup has read, 0 if none
    reminded,    \* rotationNeeded has been emitted
    keyLoads     \* reloads and restarts so far

keysVars == <<secrets, newest, rotated, stage, given, order, age, logs, cleaning,
              reminded, keyLoads>>
rotationVars == <<rotated, stage, given, order, age>>

Stages == {"idle", "verifying", "saving", "done", "failed", "refused", "lost"}
Oldest == (IF Grace > RotateAfter THEN Grace ELSE RotateAfter) + 1

-----------------------------------------------------------------------------
(* Mutations: plausible bugs in the definitions below; KeysNext uses none. *)

\* a rotation that cannot be recorded is only logged
BugSaveFails(r) ==
    /\ stage[r] = "saving"
    /\ stage' = [stage EXCEPT ![r] = "done"]
    /\ UNCHANGED <<secrets, newest, rotated, given, order, age, cleaning, reminded,
                   keyLoads>>
    /\ logs' \in {logs, logs \cup {r}}

-----------------------------------------------------------------------------
\* loadSecrets over what a map holds: the environment first, then whatever
\* runtime secret is still missing
Loaded(held) ==
    [k \in KeyNames |->
        IF k \in InEnvironment THEN 1
        ELSE IF held[k] # 0 THEN held[k]
        ELSE IF k \in {"ipc", "session", "encryption"} \/ (k = "jwt" /\ Development)
             THEN 1 ELSE 0]

Empty == [k \in KeyNames |-> 0]

\* getSecretManager: the first one to ask loads
KeysInit ==
    /\ secrets = Loaded(Empty)
    /\ newest = [k \in KeyNames |-> 1]
    /\ rotated = [r \in Rotations |-> "jwt"]
    /\ stage = [r \in Rotations |-> "idle"]
    /\ given = [r \in Rotations |-> 0]
    /\ order = [r \in Rotations |-> 0]
    /\ age = [r \in Rotations |-> 0]
    /\ logs = {} /\ cleaning = 0 /\ reminded = FALSE /\ keyLoads = 0

\* setSecret: a JWT secret leaves its predecessor behind
SetSecret(k, v) ==
    secrets' = [j \in KeyNames |->
                   IF j = k THEN v
                   ELSE IF j = "previous" /\ k = "jwt" THEN secrets["jwt"]
                   ELSE secrets[j]]

DeleteSecret(k) == secrets' = [secrets EXCEPT ![k] = 0]

\* rotateGatewayKey is the only rotation that makes a key where there is none
MayRotate(k) == k = "gateway" \/ secrets[k] # 0

\* reloadSecrets: a key of the environment is what it was at the start
ReloadSecrets ==
    /\ keyLoads < MaxKeyLoads /\ keyLoads' = keyLoads + 1
    /\ secrets' = Loaded(secrets)
    /\ UNCHANGED <<newest, rotationVars, logs, cleaning, reminded>>

\* a crash and a start: the map and the requests under way are gone
KeysRestart ==
    /\ keyLoads < MaxKeyLoads /\ keyLoads' = keyLoads + 1
    /\ secrets' = Loaded(Empty)
    /\ stage' = [r \in Rotations |->
                    IF stage[r] \in {"verifying", "saving"} THEN "lost" ELSE stage[r]]
    /\ cleaning' = 0
    /\ UNCHANGED <<newest, rotated, given, order, age, logs, reminded>>

\* a request with a user and a token, or for the IPC token a call
AskRotation(r, k) ==
    /\ stage[r] = "idle" /\ \A q \in 1 .. r - 1 : stage[q] # "idle"
    /\ rotated' = [rotated EXCEPT ![r] = k]
    /\ stage' = [stage EXCEPT ![r] = "verifying"]
    /\ UNCHANGED <<secrets, newest, given, order, age, logs, cleaning, reminded, keyLoads>>

\* verifyUserTOTP says no
TokenRefused(r) ==
    /\ stage[r] = "verifying" /\ rotated[r] # "ipc"
    /\ stage' = [stage EXCEPT ![r] = "refused"]
    /\ UNCHANGED <<secrets, newest, rotated, given, order, age, logs, cleaning, reminded,
                   keyLoads>>

\* rotateJWTSecret, rotateSessionKey, rotateDashboardIPCToken and
\* rotateGatewayKey up to the record
Rotate(r) ==
    LET k == rotated[r]
    IN  /\ stage[r] = "verifying"
        /\ IF ~MayRotate(k)
           THEN /\ stage' = [stage EXCEPT ![r] = "failed"]
                /\ UNCHANGED <<secrets, newest, given, order>>
           ELSE /\ SetSecret(k, newest[k] + 1)
                /\ newest' = [newest EXCEPT ![k] = @ + 1]
                /\ given' = [given EXCEPT ![r] = newest[k] + 1]
                /\ order' = [order EXCEPT ![r] = Max({order[q] : q \in Rotations}) + 1]
                /\ stage' = [stage EXCEPT ![r] = "saving"]
        /\ UNCHANGED <<rotated, age, logs, cleaning, reminded, keyLoads>>

\* saveRotationRecord; forceLogoutAll has no listener
SaveRecord(r) ==
    /\ stage[r] = "saving"
    /\ logs' = logs \cup {r}
    /\ stage' = [stage EXCEPT ![r] = "done"]
    /\ UNCHANGED <<secrets, newest, rotated, given, order, age, cleaning, reminded,
                   keyLoads>>

\* it throws, executed or not, and the caller is told that the rotation failed
SaveFails(r) ==
    /\ stage[r] = "saving"
    /\ logs' \in {logs, logs \cup {r}}
    /\ stage' = [stage EXCEPT ![r] = "failed"]
    /\ UNCHANGED <<secrets, newest, rotated, given, order, age, cleaning, reminded,
                   keyLoads>>

\* getRotationHistory(k, 1): ORDER BY rotatedAt DESC; none if it throws
RotationHistory(k) ==
    LET of == {r \in logs : rotated[r] = k}
    IN  {r \in of : \A q \in of : order[q] <= order[r]}

\* cleanupExpiredJWTSecret reads the log, and goes on when it has the answer
CleanupReads ==
    /\ cleaning = 0
    /\ cleaning' \in RotationHistory("jwt")
    /\ UNCHANGED <<secrets, newest, rotationVars, logs, reminded, keyLoads>>

CleanupEnds ==
    /\ cleaning # 0 /\ cleaning' = 0
    /\ IF age[cleaning] > Grace THEN DeleteSecret("previous") ELSE UNCHANGED secrets
    /\ UNCHANGED <<newest, rotationVars, logs, reminded, keyLoads>>

\* checkRotationNeeded: never rotated, as far as one can tell, or long ago
Needed(k, record) ==
    record = {} \/ (k \in {"jwt", "session"} /\ \E r \in record : age[r] >= RotateAfter)

\* checkAndRotateIfNeeded for one key: an event that nobody listens to
CheckAndRotateIfNeeded(k) ==
    /\ \E record \in {RotationHistory(k), {}} :
           reminded' = (reminded \/ Needed(k, record))
    /\ UNCHANGED <<secrets, newest, rotationVars, logs, cleaning, keyLoads>>

KeysTick ==
    /\ \E r \in Rotations : given[r] # 0 /\ age[r] < Oldest
    /\ age' = [r \in Rotations |->
                  IF given[r] # 0 /\ age[r] < Oldest THEN age[r] + 1 ELSE age[r]]
    /\ UNCHANGED <<secrets, newest, rotated, stage, given, order, logs, cleaning,
                   reminded, keyLoads>>

KeysNext ==
    \/ ReloadSecrets \/ KeysRestart \/ CleanupReads \/ CleanupEnds \/ KeysTick
    \/ \E r \in Rotations :
           \/ \E k \in RotatedKeys : AskRotation(r, k)
           \/ TokenRefused(r) \/ Rotate(r) \/ SaveRecord(r) \/ SaveFails(r)
    \/ \E k \in {"jwt", "session", "ipc"} : CheckAndRotateIfNeeded(k)

KeysSpec == KeysInit /\ [][KeysNext]_keysVars

-----------------------------------------------------------------------------
KeysTypeOK ==
    /\ secrets \in [KeyNames -> Nat] /\ newest \in [KeyNames -> Nat \ {0}]
    /\ rotated \in [Rotations -> Rotatable]
    /\ stage \in [Rotations -> Stages]
    /\ given \in [Rotations -> Nat] /\ order \in [Rotations -> Nat]
    /\ age \in [Rotations -> 0 .. Oldest]
    /\ logs \subseteq Rotations /\ cleaning \in {0} \cup Rotations
    /\ reminded \in BOOLEAN
    /\ keyLoads \in 0 .. MaxKeyLoads

\* A key in use, or a previous JWT secret still accepted, that is not the one
\* of the start has its rotation on record, unless somebody waits for that
\* record or was told that the rotation failed: whatever order rotations,
\* their records, reloads and restarts come in.  KeyRotationService.rotate...
KeysOnRecord ==
    \A k \in KeyNames :
        secrets[k] > 1 =>
            \E r \in Rotations :
                /\ given[r] = secrets[k]
                /\ rotated[r] = IF k = "previous" THEN "jwt" ELSE k
                /\ r \in logs \/ stage[r] \in {"saving", "failed"}
=============================================================================
