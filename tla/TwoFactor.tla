------------------------------- MODULE TwoFactor -------------------------------
(***************************************************************************)
(* TOTPService and the routes over it, for one admin: the row of user_totp *)
(* and the calls that read it, wait, and write.  Backup codes are known by *)
(* the number of the batch they were made in, by the service or by a       *)
(* client; the codes of a list are taken to differ.  Which secret is       *)
(* stored is left out.  The row is encrypted with ENCRYPTION_KEY, which a  *)
(* process makes up if its environment has none.                           *)
(* A statement is executed or throws, at any time: the data access layer   *)
(* of today has no method for it and always throws.                        *)
(*                                                                         *)
(* A call is here from the moment its SELECT is executed: one that is      *)
(* refused, or throws before, has changed nothing, and one that only       *)
(* verifies a token writes lastUsedAt, which nothing reads.                *)
(***************************************************************************)
EXTENDS Integers, FiniteSets, Combinatorics

CONSTANTS
    Callers,       \* calls there can be at a time
    CodesPerBatch, \* generateBackupCodes: 10
    MaxBatches,    \* bound on batches asked for
    EncryptionSet, \* ENCRYPTION_KEY is in the environment
    MaxStarts      \* bound on starts of the process

ASSUME TwoFactorAssumption ==
    /\ CodesPerBatch \in Nat \ {0} /\ MaxBatches \in Nat
    /\ EncryptionSet \in BOOLEAN /\ MaxStarts \in Nat \ {0}
    /\ IsFiniteSet(Callers)

VARIABLES
    enrolled,    \* the row: "none", "on" or "off", its column enabled
    codes,       \* its backup codes
    sealed,      \* the keys its secret and its codes are encrypted with
    masterKey,   \* ENCRYPTION_KEY
    starts,      \* starts of the process
    batches,     \* batches made
    accepted,    \* backup codes accepted since the row got its codes
    doing,       \* what each call waits to write
    seen         \* the list of codes it writes

totpRowVars == <<enrolled, codes, sealed>>
callerVars == <<doing, seen>>
twoFactorVars == <<totpRowVars, masterKey, starts, batches, accepted, callerVars>>

Batches == 1 .. MaxBatches
Batch(b) == {b} \X (1 .. CodesPerBatch)

\* the codes of all batches made
CodesMade == UNION {Batch(b) : b \in 1 .. batches}

\* what a client may send as a list of codes, which is not checked; more than
\* a setup gives out is left out
Lists == {list \in SUBSET CodesMade : Cardinality(list) <= CodesPerBatch}

-----------------------------------------------------------------------------
(* Mutations: plausible bugs in the definitions below; TwoFactorNext uses  *)
(* none.                                                                   *)

\* the list the code was found in is written back
BugSpent(code) == codes

-----------------------------------------------------------------------------
TwoFactorInit ==
    /\ enrolled = "none" /\ codes = {}
    /\ sealed = [secret |-> 0, codes |-> 0]
    /\ masterKey = 1 /\ starts = 1
    /\ batches = 0 /\ accepted = 0
    /\ doing = [c \in Callers |-> "nothing"]
    /\ seen = [c \in Callers |-> {}]

\* the process ends and starts; ensureRuntimeSecrets makes a missing key
TwoFactorRestart ==
    /\ starts < MaxStarts /\ starts' = starts + 1
    /\ masterKey' = IF EncryptionSet THEN masterKey ELSE starts + 1
    /\ doing' = [c \in Callers |-> "nothing"]
    /\ seen' = [c \in Callers |-> {}]
    /\ UNCHANGED <<totpRowVars, batches, accepted>>

\* POST /setup, generateSecret, or a client by itself: nothing is stored
GenerateSecret ==
    /\ batches < MaxBatches /\ batches' = batches + 1
    /\ UNCHANGED <<totpRowVars, masterKey, starts, accepted, callerVars>>

Do(c, what, list) ==
    /\ doing' = [doing EXCEPT ![c] = what]
    /\ seen' = [seen EXCEPT ![c] = list]
    /\ UNCHANGED <<masterKey, starts>>

Return(c) == Do(c, "nothing", {}) /\ UNCHANGED batches

\* decryptData of a column
Decrypts(column) == sealed[column] = masterKey

\* getTOTPData
TOTPEnabled == enrolled = "on"

\* verifyUserTOTP: with the secret of the row a token can be right, by the
\* admin who has it
Verified == TOTPEnabled /\ Decrypts("secret")

\* POST /enable: any secret, a token right for it, and any codes
EnableTOTP(c, list) ==
    /\ doing[c] = "nothing"
    /\ Do(c, "enabling", list)
    /\ UNCHANGED <<totpRowVars, batches, accepted>>

\* POST /disable
Disable(c) ==
    /\ doing[c] = "nothing" /\ Verified
    /\ Do(c, "disabling", {})
    /\ UNCHANGED <<totpRowVars, batches, accepted>>

\* POST /backup-codes/regenerate
Regenerate(c) ==
    /\ doing[c] = "nothing" /\ Verified
    /\ batches < MaxBatches /\ batches' = batches + 1
    /\ Do(c, "regenerating", Batch(batches + 1))
    /\ UNCHANGED <<totpRowVars, accepted>>

\* the list without the code that was found in it
Spent(code) == codes \ {code}

\* verifyBackupCode
VerifyBackupCode(c, code) ==
    /\ doing[c] = "nothing" /\ TOTPEnabled /\ Decrypts("codes")
    /\ code \in codes
    /\ Do(c, "consuming", Spent(code))
    /\ UNCHANGED <<totpRowVars, batches, accepted>>

\* INSERT ... ON DUPLICATE KEY UPDATE
SaveEnabled(list) ==
    /\ enrolled' = "on" /\ codes' = list
    /\ sealed' = [secret |-> masterKey, codes |-> masterKey]
    /\ accepted' = 0

\* disableTOTP's UPDATE
DisableTOTP ==
    /\ enrolled' = "off"
    /\ UNCHANGED <<codes, sealed, accepted>>

\* regenerateBackupCodes' UPDATE
RegenerateBackupCodes(list) ==
    /\ codes' = list /\ sealed' = [sealed EXCEPT !.codes = masterKey]
    /\ accepted' = 0
    /\ UNCHANGED enrolled

\* verifyBackupCode's UPDATE: its list, whatever is there now
SaveCodes(list) ==
    /\ codes' = list /\ sealed' = [sealed EXCEPT !.codes = masterKey]
    /\ UNCHANGED enrolled

\* the statement a call waits for; told is what its caller hears
Written(c, told) ==
    \/ doing[c] = "enabling" /\ SaveEnabled(seen[c])
    \/ doing[c] = "disabling" /\ DisableTOTP
    \/ doing[c] = "regenerating" /\ RegenerateBackupCodes(seen[c])
    \/ /\ doing[c] = "consuming" /\ SaveCodes(seen[c])
       /\ accepted' = IF told THEN accepted + 1 ELSE accepted

CallSucceeds(c) == Written(c, TRUE) /\ Return(c)

\* it throws, executed or not: the caller is told that nothing was done
CallFails(c) ==
    /\ doing[c] # "nothing"
    /\ Written(c, FALSE) \/ UNCHANGED <<totpRowVars, accepted>>
    /\ Return(c)

TwoFactorNext ==
    \/ TwoFactorRestart \/ GenerateSecret
    \/ \E c \in Callers :
           \/ \E list \in Lists : EnableTOTP(c, list)
           \/ Disable(c) \/ Regenerate(c)
           \/ \E b \in Batches : \E code \in Batch(b) : VerifyBackupCode(c, code)
           \/ CallSucceeds(c) \/ CallFails(c)

TwoFactorSpec == TwoFactorInit /\ [][TwoFactorNext]_twoFactorVars

-----------------------------------------------------------------------------
TwoFactorTypeOK ==
    /\ enrolled \in {"none", "on", "off"}
    /\ codes \subseteq CodesMade
    /\ sealed \in [secret : 0 .. masterKey, codes : 0 .. masterKey]
    /\ masterKey \in 1 .. starts /\ starts \in 1 .. MaxStarts
    /\ batches \in 0 .. MaxBatches
    /\ accepted \in Nat
    /\ doing \in [Callers -> {"nothing", "enabling", "disabling", "regenerating", "consuming"}]
    /\ seen \in [Callers -> SUBSET CodesMade]

\* A code is spent by the write of a list that was read before, so that calls
\* at a time let one another's codes return; but not without end.  Of n calls
\* that hold a list of m codes each, one can bring m - 1 back when the others
\* have come to the end of theirs, and so on: the codes of a batch are accepted
\* as often as that allows and no more, whatever fails between.
\* TOTPService.verifyBackupCode, regenerateBackupCodes, enableTOTP.
BackupCodesRunOut ==
    accepted < choose(CodesPerBatch + Cardinality(Callers), CodesPerBatch)
=============================================================================
