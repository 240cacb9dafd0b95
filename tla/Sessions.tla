------------------------------- MODULE Sessions -------------------------------
(***************************************************************************)
(* SessionManager and the routes over it: rows of admin_sessions, tokens   *)
(* signed with the session key of the process, and calls of verifySession  *)
(* that overlap with everything that revokes a session.  A session is      *)
(* known by the order of its creation.  Its ages are counted in ticks up   *)
(* to the longest time compared with; an answer takes less than a tick.    *)
(* A statement is executed or throws, at any time: the data access layer   *)
(* of today has no method for it and always throws.                        *)
(***************************************************************************)
EXTENDS Integers, Sequences, FiniteSets

CONSTANTS
    MaxSessions,   \* bound on sessions ever created
    MaxVerifies,   \* bound on calls of verifySession
    Users,         \* the admins
    SessionAge,    \* DEFAULT_MAX_AGE, in ticks
    IdleTimeout,   \* DEFAULT_IDLE_TIMEOUT, in ticks
    MaxSigningKeys \* bound on session keys

Sessions == 1 .. MaxSessions
Verifies == 1 .. MaxVerifies

ASSUME SessionsAssumption ==
    /\ MaxSessions \in Nat /\ MaxVerifies \in Nat
    /\ SessionAge \in Nat /\ IdleTimeout \in Nat
    /\ MaxSigningKeys \in Nat \ {0}

VARIABLES
    sessions,     \* rows of admin_sessions
    created,      \* sessions ever created: owners by number
    twoFactor,    \* sessions with twoFactorPassed
    sessionAge, idle, \* ticks since issuedAt, lastActivityAt
    signedWith,   \* the key each token was signed with
    signingKey,   \* SESSION_SIGNING_KEY
    verifying,    \* the session of each verifySession, 0 before
    verify,       \* how far the call is
    late          \* calls begun when the session's row was gone

sessionVars == <<sessions, created, twoFactor, sessionAge, idle, signedWith,
                 signingKey, verifying, verify, late>>
rowVars == <<sessions, twoFactor, sessionAge, idle>>
tokenVars == <<created, signedWith, signingKey>>
callVars == <<verifying, verify, late>>

VerifySteps == {"none", "reading", "updating", "revoking", "returned", "null"}

-----------------------------------------------------------------------------
(* Mutations: plausible bugs in the definitions below; SessionsNext uses   *)
(* none.                                                                   *)

\* the activity is written with an upsert
BugUpdateActivity(s) ==
    /\ idle' = [idle EXCEPT ![s] = 0]
    /\ sessions' = sessions \cup {s}
    /\ UNCHANGED <<twoFactor, sessionAge>>

-----------------------------------------------------------------------------
Made == DOMAIN created

SessionsInit ==
    /\ sessions = {} /\ created = <<>> /\ twoFactor = {}
    /\ sessionAge = [s \in Sessions |-> 0] /\ idle = [s \in Sessions |-> 0]
    /\ signedWith = [s \in Sessions |-> 0] /\ signingKey = 1
    /\ verifying = [v \in Verifies |-> 0]
    /\ verify = [v \in Verifies |-> "none"]
    /\ late = {}

\* saveSession: an INSERT
SaveSession(s, passed) ==
    /\ sessions' = sessions \cup {s}
    /\ twoFactor' = IF passed THEN twoFactor \cup {s} ELSE twoFactor

\* the token is made with it; requireTwoFactor leaves the 2FA to come
CreateSession(u, requireTwoFactor) ==
    LET s == Cardinality(Made) + 1
    IN  /\ s \in Sessions
        /\ created' = Append(created, u)
        /\ SaveSession(s, ~requireTwoFactor)
        /\ signedWith' = [signedWith EXCEPT ![s] = signingKey]
        /\ UNCHANGED <<sessionAge, idle, signingKey, callVars>>

\* rotateSessionKey: setSecret
NewSigningKey ==
    /\ signingKey < MaxSigningKeys /\ signingKey' = signingKey + 1
    /\ UNCHANGED <<rowVars, created, signedWith, callVars>>

\* DELETE: the columns go with the row
Delete(gone) ==
    /\ sessions' = sessions \ gone
    /\ twoFactor' = twoFactor \ gone
    /\ sessionAge' = [s \in Sessions |-> IF s \in gone THEN 0 ELSE sessionAge[s]]
    /\ idle' = [s \in Sessions |-> IF s \in gone THEN 0 ELSE idle[s]]

Expired(s) == sessionAge[s] >= SessionAge

\* signSessionId, verifyTokenSignature: by the key of now
SignatureValid(s) == signedWith[s] = signingKey

\* verifySession up to its first statement
StartVerify(v, s) ==
    /\ verify[v] = "none" /\ \A w \in 1 .. v - 1 : verify[w] # "none"
    /\ verifying' = [verifying EXCEPT ![v] = s]
    /\ verify' = [verify EXCEPT ![v] = IF SignatureValid(s) THEN "reading"
                                       ELSE "null"]
    /\ late' = IF s \in sessions THEN late ELSE late \cup {v}
    /\ UNCHANGED <<rowVars, tokenVars>>

Goes(v, to) == verify' = [verify EXCEPT ![v] = to] /\ UNCHANGED <<verifying, late>>

\* getSession, then the idle timeout of the row it has read
GetSession(v) ==
    LET s == verifying[v]
    IN  /\ verify[v] = "reading"
        /\ Goes(v, IF s \notin sessions \/ Expired(s) THEN "null"
                   ELSE IF idle[s] > IdleTimeout THEN "revoking" ELSE "updating")
        /\ UNCHANGED <<rowVars, tokenVars>>

\* an UPDATE: of nothing when the row is gone
UpdateActivity(s) ==
    /\ idle' = IF s \in sessions THEN [idle EXCEPT ![s] = 0] ELSE idle
    /\ UNCHANGED <<sessions, twoFactor, sessionAge>>

VerifyEnds(v) ==
    /\ verify[v] = "updating"
    /\ UpdateActivity(verifying[v])
    /\ Goes(v, "returned")
    /\ UNCHANGED tokenVars

RevokeIdle(v) ==
    /\ verify[v] = "revoking"
    /\ Delete({verifying[v]})
    /\ Goes(v, "null")
    /\ UNCHANGED tokenVars

\* a statement throws: no session, whatever the statement has done
VerifyThrows(v) ==
    /\ verify[v] \in {"reading", "updating", "revoking"}
    /\ \/ UNCHANGED rowVars
       \/ verify[v] = "updating" /\ UpdateActivity(verifying[v])
       \/ verify[v] = "revoking" /\ Delete({verifying[v]})
    /\ Goes(v, "null")
    /\ UNCHANGED tokenVars

\* updateTwoFactorStatus
UpdateTwoFactorStatus(s, passed) ==
    /\ s \in sessions
    /\ twoFactor' = IF passed THEN twoFactor \cup {s} ELSE twoFactor \ {s}
    /\ UNCHANGED <<sessions, sessionAge, idle, tokenVars, callVars>>

Revoke(gone) == gone # {} /\ Delete(gone) /\ UNCHANGED <<tokenVars, callVars>>

\* the route keeps an admin from naming the session of the request itself,
\* and from no other
RevokeSession(s) == s \in sessions /\ Revoke({s})

\* all sessions of the admin but the current one, if the request has one
RevokeAllSessions(u, except) ==
    Revoke({s \in sessions : created[s] = u} \ {except})

CleanupExpiredSessions == Revoke({s \in sessions : sessionAge[s] > SessionAge})

SessionsTick ==
    /\ \E s \in sessions : sessionAge[s] <= SessionAge \/ idle[s] <= IdleTimeout
    /\ sessionAge' = [s \in Sessions |->
            IF s \in sessions /\ sessionAge[s] <= SessionAge THEN sessionAge[s] + 1
            ELSE sessionAge[s]]
    /\ idle' = [s \in Sessions |->
            IF s \in sessions /\ idle[s] <= IdleTimeout THEN idle[s] + 1 ELSE idle[s]]
    /\ UNCHANGED <<sessions, twoFactor, tokenVars, callVars>>

SessionsNext ==
    \/ \E u \in Users, need \in BOOLEAN : CreateSession(u, need)
    \/ NewSigningKey \/ CleanupExpiredSessions \/ SessionsTick
    \/ \E s \in Made :
           \/ RevokeSession(s)
           \/ \E passed \in BOOLEAN : UpdateTwoFactorStatus(s, passed)
           \/ \E v \in Verifies : StartVerify(v, s)
    \/ \E u \in Users, except \in Made \cup {0} : RevokeAllSessions(u, except)
    \/ \E v \in Verifies :
           GetSession(v) \/ VerifyEnds(v) \/ RevokeIdle(v) \/ VerifyThrows(v)

SessionsSpec == SessionsInit /\ [][SessionsNext]_sessionVars

-----------------------------------------------------------------------------
SessionsTypeOK ==
    /\ sessions \subseteq Made /\ twoFactor \subseteq Made /\ Made \subseteq Sessions
    /\ \A s \in Made : created[s] \in Users
    /\ sessionAge \in [Sessions -> 0 .. SessionAge + 1]
    /\ idle \in [Sessions -> 0 .. IdleTimeout + 1]
    /\ signedWith \in [Sessions -> 0 .. signingKey] /\ signingKey \in 1 .. MaxSigningKeys
    /\ verifying \in [Verifies -> {0} \cup Made]
    /\ verify \in [Verifies -> VerifySteps]
    /\ late \subseteq Verifies

\* Revoked is revoked: a session whose row is gone, revoked by an admin, by a
\* timeout or by the cleanup, is returned to no call begun after that, though
\* calls begun before it are still on their way and write their activity.
\* SessionManager.verifySession, updateActivity, revokeSession.
RevokedStaysRevoked == \A v \in late : verify[v] # "returned"
=============================================================================
