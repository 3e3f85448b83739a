------------------------------- MODULE AuthLogin -------------------------------
(***************************************************************************)
(* The auth service (src/apps/auth/src): login, TOTP verification and      *)
(* password change of one account, by requests that run concurrently.      *)
(*                                                                         *)
(* A request reads the account row once and decides on what it read; each  *)
(* SQL statement it sends afterwards is an action of its own, except that  *)
(* the two of recordSuccess are one transaction.  bcrypt and the signing   *)
(* of tokens lie between the statements.  A request that is rejected       *)
(* without a statement changes nothing and is left out, and so is the      *)
(* expiry of tokens: a client need never use one.                          *)
(***************************************************************************)
EXTENDS Naturals, FiniteSets

CONSTANTS
    Calls,           \* requests the service handles at the same time (bound)
    Secrets,         \* TOTP secrets (more than Calls; reused when forgotten)
    Null,            \* SQL NULL
    TwoFactor,       \* is the user type in TWO_FACTOR_REQUIRED_TYPES?
    Production,      \* NODE_ENV = "production": TOTP codes are compared
    LoseAnswers,     \* may the answer of a two-factor login get lost?
    AdminStatuses,   \* statuses an administrator sets by hand
    InitFailCounts,  \* fail_count of the row as the model starts: 0, NULL
    MAX_FAIL_COUNT

Statuses == {"ACTIVE", "LOCKED", "PENDING", "IN_ACTIVE", "DELETE"}

ASSUME CallsAssumption == IsFiniteSet(Calls)
ASSUME NullAssumption == Null \notin Secrets \cup Statuses \cup Nat
ASSUME SwitchesAssumption == {TwoFactor, Production, LoseAnswers} \subseteq BOOLEAN
ASSUME AdminAssumption == AdminStatuses \subseteq Statuses
ASSUME FailCountsAssumption == InitFailCounts \subseteq {0, Null}
ASSUME LimitAssumption == MAX_FAIL_COUNT \in Nat \ {0}

VARIABLES
    account,   \* the row of tb_account
    entry,     \* the last row of tb_login_history; rows are only added
    pc,        \* pc[c]: the next statement or the answer of request c
    seen,      \* seen[c]: the row as request c read it, Null between requests
    url,       \* url[c]: the secret in the tOtpUrl request c will answer
    held,      \* kinds of token clients have been given
    enrolled,  \* secrets whose QR code a client has been shown
    fails      \* history: wrong passwords counted since the last reset

vars == <<account, entry, pc, seen, url, held, enrolled, fails>>

Accounts == [status : Statuses \cup {Null}, failCount : Nat \cup {Null},
             lastLogin : BOOLEAN,        \* is last_login_at set?
             otp : Secrets \cup {Null},  \* otp_secret_key
             expired : BOOLEAN]          \* 90 days since the last change?

Entries == [success : BOOLEAN, failCount : Nat, status : Statuses \cup {Null}]

Steps == {"idle", "increment", "lock", "recordFailure", "resetFailCount",
          "updateOtp", "challenge", "recordSuccess", "tokens",
          "updatePassword"}

TypeOK ==
    /\ account \in Accounts
    /\ entry \in Entries \cup {Null}
    /\ pc \in [Calls -> Steps]
    /\ seen \in [Calls -> Accounts \cup {Null}]
    /\ url \in [Calls -> Secrets \cup {Null}]
    /\ held \subseteq {"2fa", "password_change", "access"}
    /\ enrolled \subseteq Secrets
    /\ fails \in 0 .. MAX_FAIL_COUNT

-------------------------------------------------------------------------------

\* failCount ?? 0
Count(row) == IF row.failCount = Null THEN 0 ELSE row.failCount

\* Mutant: the count is not looked at before the password.
LockedOut_StatusOnly(row) == row.status = "LOCKED"

LockedOut(row) == row.status = "LOCKED" \/ Count(row) >= MAX_FAIL_COUNT

\* validateAccountStatus lets the row pass.
Admitted(row) == row.status \in {Null, "ACTIVE"}

LocksNow(row) == Count(row) + 1 >= MAX_FAIL_COUNT

\* Mutant: the history row repeats fail_count as it is, NULL included.
FailureEntry_Raw(row) ==
    IF LockedOut(row)
    THEN [success |-> FALSE, failCount |-> row.failCount, status |-> "LOCKED"]
    ELSE [success |-> FALSE, failCount |-> Count(row) + 1,
          status |-> IF LocksNow(row) THEN "LOCKED" ELSE row.status]

\* What recordFailure writes, from handleLockedLogin and handleFailedLogin.
FailureEntry(row) ==
    IF LockedOut(row)
    THEN [success |-> FALSE, status |-> "LOCKED",
          failCount |-> IF row.failCount = Null THEN MAX_FAIL_COUNT
                                                ELSE row.failCount]
    ELSE [success |-> FALSE, failCount |-> Count(row) + 1,
          status |-> IF LocksNow(row) THEN "LOCKED" ELSE row.status]

NeedsRegistration(row) == row.otp = Null \/ ~row.lastLogin

\* generateSecret never returns one that is in the row or being sent; one
\* that was shown in the past may be taken for a new one.
Fresh(s) == s # account.otp /\ \A c \in Calls : url[c] # s

Init ==
    /\ account \in [status : {Null, "ACTIVE"}, failCount : InitFailCounts,
                    lastLogin : BOOLEAN, otp : Secrets \cup {Null},
                    expired : {FALSE}]
    /\ enrolled = {account.otp} \ {Null}
    /\ entry = Null
    /\ pc = [c \in Calls |-> "idle"]
    /\ seen = [c \in Calls |-> Null]
    /\ url = [c \in Calls |-> Null]
    /\ held = {}
    /\ fails = 0

Goto(c, step) == pc' = [pc EXCEPT ![c] = step]
Done(c) == Goto(c, "idle") /\ seen' = [seen EXCEPT ![c] = Null]

-------------------------------------------------------------------------------
(* POST /auth/login, up to the first statement after the row was read.     *)

Reads(c) == pc[c] = "idle" /\ seen' = [seen EXCEPT ![c] = account]

LoginLockedOut(c) ==
    /\ Reads(c)
    /\ LockedOut(account)
    /\ Goto(c, IF account.status = "LOCKED" THEN "recordFailure" ELSE "lock")
    /\ UNCHANGED <<account, entry, url, held, enrolled, fails>>

LoginAdmitted(c) == Reads(c) /\ ~LockedOut(account) /\ Admitted(account)

LoginWrongPassword(c) ==
    /\ LoginAdmitted(c)
    /\ Goto(c, "increment")
    /\ UNCHANGED <<account, entry, url, held, enrolled, fails>>

\* signPasswordChangeToken; the error carries the token.
LoginExpired(c) ==
    /\ pc[c] = "idle"
    /\ ~LockedOut(account)
    /\ Admitted(account)
    /\ account.expired
    /\ held' = held \cup {"password_change"}
    /\ UNCHANGED <<account, entry, pc, seen, url, enrolled, fails>>

LoginRightPassword(c) ==
    /\ LoginAdmitted(c)
    /\ ~account.expired
    /\ Goto(c, IF TwoFactor THEN "resetFailCount" ELSE "recordSuccess")
    /\ UNCHANGED <<account, entry, url, held, enrolled, fails>>

-------------------------------------------------------------------------------
(* The statements.                                                         *)

\* Mutant: the failure is recorded first, and the account never locked.
IncrementFailCount_NoLock(c) ==
    /\ pc[c] = "increment"
    /\ account' = [account EXCEPT !.failCount = IF @ = Null THEN Null ELSE @ + 1]
    /\ fails' = IF fails < MAX_FAIL_COUNT THEN fails + 1 ELSE fails
    /\ Goto(c, "recordFailure")
    /\ UNCHANGED <<entry, seen, url, held, enrolled>>

\* fail_count + 1 is NULL when fail_count is.
IncrementFailCount(c) ==
    /\ pc[c] = "increment"
    /\ account' = [account EXCEPT !.failCount = IF @ = Null THEN Null ELSE @ + 1]
    /\ fails' = IF fails < MAX_FAIL_COUNT THEN fails + 1 ELSE fails
    /\ Goto(c, IF LocksNow(seen[c]) THEN "lock" ELSE "recordFailure")
    /\ UNCHANGED <<entry, seen, url, held, enrolled>>

LockAccount(c) ==
    /\ pc[c] = "lock"
    /\ account' = [account EXCEPT !.status = "LOCKED"]
    /\ Goto(c, "recordFailure")
    /\ UNCHANGED <<entry, seen, url, held, enrolled, fails>>

RecordFailure(c) ==
    /\ pc[c] = "recordFailure"
    /\ entry' = FailureEntry(seen[c])
    /\ Done(c)
    /\ UNCHANGED <<account, url, held, enrolled, fails>>

\* resetFailCount, then signTwoFactorToken.
ResetFailCount(c) ==
    /\ pc[c] = "resetFailCount"
    /\ account' = [account EXCEPT !.failCount = 0]
    /\ fails' = 0
    /\ Goto(c, IF NeedsRegistration(seen[c]) THEN "updateOtp" ELSE "challenge")
    /\ url' = [url EXCEPT ![c] = Null]
    /\ UNCHANGED <<entry, seen, held, enrolled>>

\* Mutant: the registration URL is answered only when the row had no secret at all,
\* while a new one is stored in both cases.
UpdateOtpSecretKey_SilentRenewal(c) ==
    /\ pc[c] = "updateOtp"
    /\ \E s \in Secrets :
          /\ Fresh(s)
          /\ account' = [account EXCEPT !.otp = s]
          /\ url' = [url EXCEPT ![c] = IF seen[c].otp = Null THEN s ELSE Null]
          /\ enrolled' = enrolled \ {s}
    /\ Goto(c, "challenge")
    /\ UNCHANGED <<entry, seen, held, fails>>

UpdateOtpSecretKey(c) ==
    /\ pc[c] = "updateOtp"
    /\ \E s \in Secrets :
          /\ Fresh(s)
          /\ account' = [account EXCEPT !.otp = s]
          /\ url' = [url EXCEPT ![c] = s]
          /\ enrolled' = enrolled \ {s}
    /\ Goto(c, "challenge")
    /\ UNCHANGED <<entry, seen, held, fails>>

\* The client gets the 2FA token and, if there is one, shows the QR code.
Challenge(c) ==
    /\ pc[c] = "challenge"
    /\ held' = held \cup {"2fa"}
    /\ enrolled' = enrolled \cup ({url[c]} \ {Null})
    /\ url' = [url EXCEPT ![c] = Null]
    /\ Done(c)
    /\ UNCHANGED <<account, entry, fails>>

\* POST /auth/2fa/verify with a code the service accepts.
VerifyTwoFactor(c) ==
    /\ "2fa" \in held
    /\ Reads(c)
    /\ account.otp # Null
    /\ Production => account.otp \in enrolled
    /\ Goto(c, "recordSuccess")
    /\ UNCHANGED <<account, entry, url, held, enrolled, fails>>

\* One transaction; the status is the one read at the start.
RecordSuccess(c) ==
    /\ pc[c] = "recordSuccess"
    /\ account' = [account EXCEPT !.failCount = 0, !.lastLogin = TRUE]
    /\ entry' = [success |-> TRUE, failCount |-> 0, status |-> seen[c].status]
    /\ fails' = 0
    /\ Goto(c, "tokens")
    /\ UNCHANGED <<seen, url, held, enrolled>>

Tokens(c) ==
    /\ pc[c] = "tokens"
    /\ held' = held \cup {"access"}
    /\ Done(c)
    /\ UNCHANGED <<account, entry, url, enrolled, fails>>

\* POST /auth/refresh.  verifyToken looks at the signature and the expiry, not
\* at the type: refreshTokens takes every token of the service.
Refresh(c) ==
    /\ held # {}
    /\ Reads(c)
    /\ Goto(c, "tokens")
    /\ UNCHANGED <<account, entry, url, held, enrolled, fails>>

\* POST /auth/password with the password of the row that was read.
ChangePassword(c) ==
    /\ held \cap {"password_change", "access"} # {}
    /\ Reads(c)
    /\ Goto(c, "updatePassword")
    /\ UNCHANGED <<account, entry, url, held, enrolled, fails>>

UpdatePassword(c) ==
    /\ pc[c] = "updatePassword"
    /\ account' = [account EXCEPT !.expired = FALSE]
    /\ Done(c)
    /\ UNCHANGED <<entry, url, held, enrolled, fails>>

-------------------------------------------------------------------------------
(* The environment.                                                        *)

\* The process stops, a statement fails, or the answer never arrives.
Abort(c) ==
    /\ pc[c] # "idle"
    /\ pc[c] = "challenge" => LoseAnswers
    /\ Done(c)
    /\ url' = [url EXCEPT ![c] = Null]
    /\ UNCHANGED <<account, entry, held, enrolled, fails>>

PasswordAges ==
    /\ ~account.expired
    /\ account' = [account EXCEPT !.expired = TRUE]
    /\ UNCHANGED <<entry, pc, seen, url, held, enrolled, fails>>

\* An administrator; making an account ACTIVE clears the count.
AdminSetsStatus(s) ==
    /\ account' = [account EXCEPT !.status = s,
                                  !.failCount = IF s = "ACTIVE" THEN 0 ELSE @]
    /\ fails' = IF s = "ACTIVE" THEN 0 ELSE fails
    /\ UNCHANGED <<entry, pc, seen, url, held, enrolled>>

Next ==
    \/ \E c \in Calls :
          \/ LoginLockedOut(c) \/ LoginWrongPassword(c)
          \/ LoginExpired(c) \/ LoginRightPassword(c)
          \/ IncrementFailCount(c) \/ LockAccount(c) \/ RecordFailure(c)
          \/ ResetFailCount(c) \/ UpdateOtpSecretKey(c) \/ Challenge(c)
          \/ VerifyTwoFactor(c) \/ RecordSuccess(c) \/ Tokens(c)
          \/ Refresh(c) \/ ChangePassword(c) \/ UpdatePassword(c)
          \/ Abort(c)
    \/ PasswordAges
    \/ \E s \in AdminStatuses : AdminSetsStatus(s)

Spec == Init /\ [][Next]_vars

-------------------------------------------------------------------------------
(* Properties.                                                             *)

\* Every request compares the count it read with the limit
\* (auth.service.ts:55) and counts later, without looking again: the count
\* passes the limit by at most the requests that were already past that
\* comparison.
FailCountBounded == Count(account) < MAX_FAIL_COUNT + Cardinality(Calls)

\* handleFailedLogin and handleLockedLogin write the lock before the history
\* row that speaks of it, so that wherever they are interrupted no row claims
\* a lock that never was.  (Only an administrator unlocks: for AdminStatuses
\* without other statuses than LOCKED.)
AuditedLockIsReal ==
    entry # Null /\ entry.status = "LOCKED" => account.status = "LOCKED"

\* However registrations overlap (auth.service.ts:281), the secret that ends
\* up in the row is one whose QR code some client has been shown or is about
\* to be: nobody is asked for a code that no authenticator can produce.
\* (When no two-factor answer is lost.)
SecretIsShown ==
    account.otp # Null =>
        \/ account.otp \in enrolled
        \/ \E c \in Calls : pc[c] = "challenge" /\ url[c] = account.otp

\* "fail_count + 1, and LOCKED from 5 on" (design document, 91): once as many
\* wrong passwords as the limit have been counted, and no request is under
\* way, the account is locked.  It need not be: a count that was computed from
\* the row read before the password was compared may be too low.
FailuresLock ==
    fails = MAX_FAIL_COUNT /\ (\A c \in Calls : pc[c] = "idle")
        => account.status = "LOCKED"
===============================================================================
