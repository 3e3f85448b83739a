--------------------------- MODULE AuthLoginProofs ----------------------------
(***************************************************************************)
(* Proofs about AuthLogin, for every number of concurrent requests, every  *)
(* limit and every setting of the switches.                                *)
(***************************************************************************)
EXTENDS AuthLogin, FiniteSetTheorems, TLAPS

(* The row a request works with is there as long as the request is.        *)
SeenIsARow == \A c \in Calls : pc[c] # "idle" => seen[c] \in Accounts

TypeInv == TypeOK /\ SeenIsARow

USE CallsAssumption, NullAssumption, SwitchesAssumption, AdminAssumption,
    FailCountsAssumption, LimitAssumption

\* What a request records of a failure is a history row.
LEMMA FailureEntryType ==
    ASSUME NEW row \in Accounts
    PROVE  FailureEntry(row) \in Entries
BY DEF FailureEntry, Entries, Accounts, Statuses, Count, LocksNow, LockedOut

LEMMA TypeInit == Init => TypeInv
<1> SUFFICES ASSUME Init PROVE TypeInv
    OBVIOUS
<1>1. account \in Accounts
    <2>1. {Null, "ACTIVE"} \subseteq Statuses \cup {Null}
        BY DEF Statuses
    <2>2. InitFailCounts \subseteq Nat \cup {Null}
        OBVIOUS
    <2>3. {FALSE} \subseteq BOOLEAN
        OBVIOUS
    <2> QED
        BY <2>1, <2>2, <2>3 DEF Init, Accounts
<1>2. enrolled \subseteq Secrets
    BY <1>1 DEF Init, Accounts
<1> QED
    BY <1>1, <1>2 DEF Init, TypeInv, TypeOK, SeenIsARow, Steps

LEMMA TypeStep == TypeInv /\ [Next]_vars => TypeInv'
<1> SUFFICES ASSUME TypeInv, [Next]_vars PROVE TypeInv'
    OBVIOUS
<1> USE DEF TypeInv, TypeOK, SeenIsARow
<1>1. ASSUME NEW c \in Calls, LoginLockedOut(c) PROVE TypeInv'
    BY <1>1 DEF LoginLockedOut, Reads, Goto, Steps
<1>2. ASSUME NEW c \in Calls, LoginWrongPassword(c) PROVE TypeInv'
    BY <1>2 DEF LoginWrongPassword, LoginAdmitted, Reads, Goto, Steps
<1>3. ASSUME NEW c \in Calls, LoginExpired(c) PROVE TypeInv'
    BY <1>3 DEF LoginExpired
<1>4. ASSUME NEW c \in Calls, LoginRightPassword(c) PROVE TypeInv'
    BY <1>4 DEF LoginRightPassword, LoginAdmitted, Reads, Goto, Steps
<1>5. ASSUME NEW c \in Calls, IncrementFailCount(c) PROVE TypeInv'
    BY <1>5 DEF IncrementFailCount, Goto, Steps, Accounts
<1>6. ASSUME NEW c \in Calls, LockAccount(c) PROVE TypeInv'
    BY <1>6 DEF LockAccount, Goto, Steps, Accounts, Statuses
<1>7. ASSUME NEW c \in Calls, RecordFailure(c) PROVE TypeInv'
    BY <1>7, FailureEntryType DEF RecordFailure, Done, Goto, Steps
<1>8. ASSUME NEW c \in Calls, ResetFailCount(c) PROVE TypeInv'
    BY <1>8 DEF ResetFailCount, Goto, Steps, Accounts
<1>9. ASSUME NEW c \in Calls, UpdateOtpSecretKey(c) PROVE TypeInv'
    BY <1>9 DEF UpdateOtpSecretKey, Goto, Steps, Accounts
<1>10. ASSUME NEW c \in Calls, Challenge(c) PROVE TypeInv'
    BY <1>10 DEF Challenge, Done, Goto, Steps
<1>11. ASSUME NEW c \in Calls, VerifyTwoFactor(c) PROVE TypeInv'
    BY <1>11 DEF VerifyTwoFactor, Reads, Goto, Steps
<1>12. ASSUME NEW c \in Calls, RecordSuccess(c) PROVE TypeInv'
    <2>1. account' \in Accounts
        BY <1>12 DEF RecordSuccess, Accounts
    <2>2. seen[c].status \in Statuses \cup {Null}
        BY <1>12 DEF RecordSuccess, Accounts
    <2>3. entry' \in Entries
        BY <1>12, <2>2 DEF RecordSuccess, Entries
    <2> QED
        BY <1>12, <2>1, <2>3 DEF RecordSuccess, Goto, Steps
<1>13. ASSUME NEW c \in Calls, Tokens(c) PROVE TypeInv'
    BY <1>13 DEF Tokens, Done, Goto, Steps
<1>14. ASSUME NEW c \in Calls, Refresh(c) \/ ChangePassword(c) PROVE TypeInv'
    <2>1. CASE Refresh(c)
        BY <2>1 DEF Refresh, Reads, Goto, Steps
    <2>2. CASE ChangePassword(c)
        BY <2>2 DEF ChangePassword, Reads, Goto, Steps
    <2> QED
        BY <1>14, <2>1, <2>2
<1>15. ASSUME NEW c \in Calls, UpdatePassword(c) PROVE TypeInv'
    <2>1. account' \in Accounts
        BY <1>15 DEF UpdatePassword, Accounts
    <2>2. /\ pc' \in [Calls -> Steps] /\ seen' \in [Calls -> Accounts \cup {Null}]
          /\ UNCHANGED <<entry, url, held, enrolled, fails>>
        BY <1>15 DEF UpdatePassword, Done, Goto, Steps
    <2>3. \A d \in Calls : pc'[d] # "idle" => seen'[d] \in Accounts
        BY <1>15 DEF UpdatePassword, Done, Goto
    <2> QED
        BY <2>1, <2>2, <2>3
<1>16. ASSUME NEW c \in Calls, Abort(c) PROVE TypeInv'
    BY <1>16 DEF Abort, Done, Goto, Steps
<1>17. CASE PasswordAges
    BY <1>17 DEF PasswordAges, Accounts
<1>18. ASSUME NEW s \in AdminStatuses, AdminSetsStatus(s) PROVE TypeInv'
    <2>1. account' \in Accounts
        <3>1. s \in Statuses
            OBVIOUS
        <3> QED
            BY <1>18, <3>1 DEF AdminSetsStatus, Accounts
    <2> QED
        BY <1>18, <2>1 DEF AdminSetsStatus
<1>19. CASE UNCHANGED vars
    BY <1>19 DEF vars
<1> QED
    BY <1>1, <1>2, <1>3, <1>4, <1>5, <1>6, <1>7, <1>8, <1>9, <1>10, <1>11,
       <1>12, <1>13, <1>14, <1>15, <1>16, <1>17, <1>18, <1>19 DEF Next

\* The variables keep the types TypeOK gives them: among others fail_count
\* stays a number or NULL, and a history row never holds a NULL count.
THEOREM TypeCorrect == Spec => []TypeOK
<1>1. Spec => []TypeInv
    BY TypeInit, TypeStep, PTL DEF Spec
<1> QED
    BY <1>1, PTL DEF TypeInv

-------------------------------------------------------------------------------
(* The bound on the count.  A request that has compared the count and not  *)
(* yet added to it is one more that is to come, and there are never more   *)
(* of them than requests.                                                  *)

Pending == {c \in Calls : pc[c] = "increment"}

BoundInv == Count(account) + Cardinality(Pending)
                < MAX_FAIL_COUNT + Cardinality(Calls)

LEMMA PendingFinite ==
    /\ IsFiniteSet(Pending)
    /\ Cardinality(Pending) \in Nat
    /\ Cardinality(Calls) \in Nat
    /\ Cardinality(Pending) <= Cardinality(Calls)
<1>1. Pending \subseteq Calls
    BY DEF Pending
<1> QED
    BY <1>1, FS_Subset, FS_CardinalityType

LEMMA CountType == ASSUME NEW row \in Accounts PROVE Count(row) \in Nat
BY DEF Count, Accounts

\* A step after which neither the count nor the requests to come are more.
LEMMA BoundKept ==
    ASSUME TypeInv, TypeInv', BoundInv,
           Count(account)' <= Count(account), Pending' \subseteq Pending
    PROVE  BoundInv'
<1>1. IsFiniteSet(Pending) /\ Cardinality(Pending) \in Nat
    BY PendingFinite
<1>2. Cardinality(Pending') \in Nat /\ Cardinality(Pending') <= Cardinality(Pending)
    BY <1>1, FS_Subset, FS_CardinalityType
<1>3. Count(account) \in Nat /\ Count(account)' \in Nat
    BY CountType DEF TypeInv, TypeOK
<1> QED
    BY <1>1, <1>2, <1>3, PendingFinite DEF BoundInv

LEMMA BoundInit == Init => BoundInv
<1> SUFFICES ASSUME Init PROVE BoundInv
    OBVIOUS
<1>1. Pending = {}
    BY DEF Init, Pending
<1>2. Count(account) = 0
    BY DEF Init, Count
<1> QED
    BY <1>1, <1>2, FS_EmptySet, PendingFinite DEF BoundInv

LEMMA BoundStep == TypeInv /\ TypeInv' /\ BoundInv /\ [Next]_vars => BoundInv'
<1> SUFFICES ASSUME TypeInv, TypeInv', BoundInv, [Next]_vars PROVE BoundInv'
    OBVIOUS
<1>t. Count(account) \in Nat /\ pc \in [Calls -> Steps]
    BY CountType DEF TypeInv, TypeOK
<1>1. ASSUME NEW c \in Calls, LoginWrongPassword(c) PROVE BoundInv'
    <2>1. Count(account) < MAX_FAIL_COUNT /\ Count(account)' = Count(account)
        BY <1>1, <1>t DEF LoginWrongPassword, LoginAdmitted, LockedOut
    <2>2. /\ Cardinality(Pending') \in Nat
          /\ Cardinality(Pending') <= Cardinality(Calls)
        <3>1. Pending' \subseteq Calls
            BY DEF Pending
        <3> QED
            BY <3>1, FS_Subset, FS_CardinalityType
    <2> QED
        BY <2>1, <2>2, <1>t, PendingFinite DEF BoundInv
<1>2. ASSUME NEW c \in Calls, IncrementFailCount(c) PROVE BoundInv'
    <2>1. Count(account)' <= Count(account) + 1
        BY <1>2, <1>t DEF IncrementFailCount, Count, TypeInv, TypeOK, Accounts
    <2>2. c \in Pending /\ Pending' = Pending \ {c}
        BY <1>2, <1>t DEF IncrementFailCount, Pending, Goto
    <2>3. Cardinality(Pending') = Cardinality(Pending) - 1
        BY <2>2, PendingFinite, FS_RemoveElement
    <2>4. Count(account)' \in Nat
        BY CountType DEF TypeInv, TypeOK
    <2> QED
        BY <2>1, <2>3, <2>4, <1>t, PendingFinite DEF BoundInv
<1>3. ASSUME NEW c \in Calls,
             \/ LoginLockedOut(c) \/ LoginExpired(c) \/ LoginRightPassword(c)
             \/ RecordFailure(c) \/ UpdateOtpSecretKey(c) \/ Challenge(c)
             \/ VerifyTwoFactor(c) \/ Refresh(c) \/ Tokens(c) \/ ChangePassword(c)
             \/ UpdatePassword(c) \/ Abort(c) \/ LockAccount(c)
      PROVE  BoundInv'
    <2>1. account'.failCount = account.failCount
        BY <1>3 DEF LoginLockedOut, LoginExpired, LoginRightPassword,
           RecordFailure, UpdateOtpSecretKey, Challenge, VerifyTwoFactor, Refresh, Tokens,
           ChangePassword, UpdatePassword, Abort, LockAccount,
           TypeInv, TypeOK, Accounts
    <2>2. \A d \in Calls : pc'[d] = "increment" => pc[d] = "increment"
        BY <1>3, <1>t DEF LoginLockedOut, LoginExpired, LoginRightPassword,
           LoginAdmitted, Reads,
           RecordFailure, UpdateOtpSecretKey, Challenge, VerifyTwoFactor, Refresh, Tokens,
           ChangePassword, UpdatePassword, Abort, LockAccount, Goto, Done
    <2>3. Pending' \subseteq Pending
        BY <2>2 DEF Pending
    <2>4. Count(account)' <= Count(account)
        BY <2>1, <1>t DEF Count
    <2> QED
        BY <2>3, <2>4, BoundKept
<1>4. ASSUME NEW c \in Calls, ResetFailCount(c) \/ RecordSuccess(c) PROVE BoundInv'
    <2>1. account'.failCount = 0
        <3>1. account \in Accounts
            BY DEF TypeInv, TypeOK
        <3>2. \/ account' = [account EXCEPT !.failCount = 0]
              \/ account' = [account EXCEPT !.failCount = 0, !.lastLogin = TRUE]
            BY <1>4 DEF ResetFailCount, RecordSuccess
        <3> QED
            BY <3>1, <3>2 DEF Accounts
    <2>2. \A d \in Calls : pc'[d] = "increment" => pc[d] = "increment"
        BY <1>4, <1>t DEF ResetFailCount, RecordSuccess, Goto
    <2>3. Pending' \subseteq Pending
        BY <2>2 DEF Pending
    <2>4. Count(account)' <= Count(account)
        BY <2>1, <1>t DEF Count
    <2> QED
        BY <2>3, <2>4, BoundKept
<1>5. CASE PasswordAges
    <2>1. account'.failCount = account.failCount /\ pc' = pc
        BY <1>5 DEF PasswordAges, TypeInv, TypeOK, Accounts
    <2> QED
        BY <2>1, <1>t, BoundKept DEF Count, Pending
<1>6. ASSUME NEW s \in AdminStatuses, AdminSetsStatus(s) PROVE BoundInv'
    <2>1. account'.failCount \in {0, account.failCount} /\ pc' = pc
        BY <1>6 DEF AdminSetsStatus, TypeInv, TypeOK, Accounts
    <2>2. Count(account)' <= Count(account)
        BY <2>1, <1>t DEF Count
    <2> QED
        BY <2>1, <2>2, BoundKept DEF Pending
<1>7. CASE UNCHANGED vars
    BY <1>7, <1>t, BoundKept DEF vars, Count, Pending
<1> QED
    BY <1>1, <1>2, <1>3, <1>4, <1>5, <1>6, <1>7 DEF Next

\* However many requests fail at the same time, fail_count passes the limit
\* by less than their number, because each compares before it counts
\* (auth.service.ts:55, 225).
THEOREM CountIsBounded == Spec => []FailCountBounded
<1>1. BoundInv /\ TypeInv => FailCountBounded
    <2> SUFFICES ASSUME BoundInv, TypeInv PROVE FailCountBounded
        OBVIOUS
    <2>1. Count(account) \in Nat
        BY CountType DEF TypeInv, TypeOK
    <2> QED
        BY <2>1, PendingFinite DEF BoundInv, FailCountBounded
<1>2. Spec => [](TypeInv /\ BoundInv)
    BY TypeInit, TypeStep, BoundInit, BoundStep, PTL DEF Spec
<1> QED
    BY <1>1, <1>2, PTL

-------------------------------------------------------------------------------
(* The lock and the history.  Nothing but an administrator takes a lock    *)
(* back, so it is enough that a request about to record one has seen it in *)
(* the row or has set it.                                                  *)

AuditInv ==
    /\ AuditedLockIsReal
    /\ \A c \in Calls :
          /\ pc[c] # "idle" /\ seen[c].status = "LOCKED"
                => account.status = "LOCKED"
          /\ pc[c] = "increment" => ~LockedOut(seen[c])
          /\ pc[c] = "recordFailure" /\ FailureEntry(seen[c]).status = "LOCKED"
                => account.status = "LOCKED"

LEMMA AuditInit == Init => AuditInv
BY DEF Init, AuditInv, AuditedLockIsReal

\* A step that keeps the lock and starts no request other than one whose
\* snapshot is the row itself.
LEMMA AuditKept ==
    ASSUME AuditInv, NEW c \in Calls, TypeInv, TypeInv',
           account.status = "LOCKED" => account'.status = "LOCKED",
           entry' = entry,
           \A d \in Calls \ {c} : pc'[d] = pc[d] /\ seen'[d] = seen[d],
           pc'[c] # "idle" => seen'[c] = seen[c] /\ pc[c] # "idle",
           pc'[c] # "increment",
           pc'[c] = "recordFailure" /\ FailureEntry(seen[c]).status = "LOCKED"
               => account'.status = "LOCKED"
    PROVE  AuditInv'
<1>1. AuditedLockIsReal'
    BY DEF AuditInv, AuditedLockIsReal
<1>2. ASSUME NEW d \in Calls
      PROVE  /\ pc'[d] # "idle" /\ seen'[d].status = "LOCKED"
                   => account'.status = "LOCKED"
             /\ pc'[d] = "increment" => ~LockedOut(seen'[d])
             /\ pc'[d] = "recordFailure" /\ FailureEntry(seen'[d]).status = "LOCKED"
                   => account'.status = "LOCKED"
    <2>1. CASE d = c
        BY <2>1 DEF AuditInv
    <2>2. CASE d # c
        <3>1. pc'[d] = pc[d] /\ seen'[d] = seen[d]
            BY <2>2
        <3> QED
            BY <3>1 DEF AuditInv
    <2> QED
        BY <2>1, <2>2
<1> QED
    BY <1>1, <1>2 DEF AuditInv, FailureEntry, LockedOut, LocksNow, Count

\* The same for a step that starts request c.
LEMMA AuditStarted ==
    ASSUME AuditInv, NEW c \in Calls, TypeInv, Reads(c),
           UNCHANGED <<account, entry>>,
           \A d \in Calls \ {c} : pc'[d] = pc[d],
           pc'[c] = "increment" => ~LockedOut(account),
           pc'[c] = "recordFailure" => account.status = "LOCKED"
    PROVE  AuditInv'
<1>1. seen'[c] = account /\ \A d \in Calls \ {c} : seen'[d] = seen[d]
    BY DEF Reads, TypeInv, TypeOK
<1>2. AuditedLockIsReal'
    BY DEF AuditInv, AuditedLockIsReal
<1>3. ASSUME NEW d \in Calls
      PROVE  /\ pc'[d] # "idle" /\ seen'[d].status = "LOCKED"
                   => account'.status = "LOCKED"
             /\ pc'[d] = "increment" => ~LockedOut(seen'[d])
             /\ pc'[d] = "recordFailure" /\ FailureEntry(seen'[d]).status = "LOCKED"
                   => account'.status = "LOCKED"
    <2>1. CASE d = c
        BY <2>1, <1>1
    <2>2. CASE d # c
        <3>1. pc'[d] = pc[d] /\ seen'[d] = seen[d]
            BY <1>1, <2>2
        <3> QED
            BY <3>1 DEF AuditInv
    <2> QED
        BY <2>1, <2>2
<1> QED
    BY <1>2, <1>3 DEF AuditInv, FailureEntry, LockedOut, LocksNow, Count

LEMMA AuditStep ==
    ASSUME AdminStatuses \subseteq {"LOCKED"}
    PROVE  TypeInv /\ TypeInv' /\ AuditInv /\ [Next]_vars => AuditInv'
<1> SUFFICES ASSUME TypeInv, TypeInv', AuditInv, [Next]_vars PROVE AuditInv'
    OBVIOUS
<1>t. /\ account \in Accounts /\ pc \in [Calls -> Steps]
      /\ seen \in [Calls -> Accounts \cup {Null}]
    BY DEF TypeInv, TypeOK
<1>1. ASSUME NEW c \in Calls,
             \/ LoginLockedOut(c) \/ LoginWrongPassword(c) \/ LoginRightPassword(c)
             \/ VerifyTwoFactor(c) \/ Refresh(c) \/ ChangePassword(c)
      PROVE  AuditInv'
    <2>1. Reads(c) /\ UNCHANGED <<account, entry>>
        BY <1>1 DEF LoginLockedOut, LoginWrongPassword, LoginRightPassword,
           LoginAdmitted, VerifyTwoFactor, Refresh, ChangePassword
    <2>2. /\ \A d \in Calls \ {c} : pc'[d] = pc[d]
          /\ pc'[c] = "increment" => ~LockedOut(account)
          /\ pc'[c] = "recordFailure" => account.status = "LOCKED"
        BY <1>1, <1>t DEF LoginLockedOut, LoginWrongPassword, LoginRightPassword,
           LoginAdmitted, VerifyTwoFactor, Refresh, ChangePassword, Goto
    <2> QED
        BY <2>1, <2>2, AuditStarted
<1>2. ASSUME NEW c \in Calls, IncrementFailCount(c) PROVE AuditInv'
    <2>1. account'.status = account.status
        BY <1>2, <1>t DEF IncrementFailCount, Accounts
    <2>2. pc'[c] = "recordFailure" => ~LocksNow(seen[c])
        BY <1>2, <1>t DEF IncrementFailCount, Goto
    <2>3. ~LockedOut(seen[c]) /\ (seen[c].status = "LOCKED" => account.status = "LOCKED")
        BY <1>2 DEF IncrementFailCount, AuditInv
    <2>4. pc'[c] = "recordFailure" => FailureEntry(seen[c]).status = seen[c].status
        BY <2>2, <2>3 DEF FailureEntry
    <2>5. /\ entry' = entry /\ seen' = seen /\ pc[c] # "idle" /\ pc'[c] # "increment"
          /\ \A d \in Calls \ {c} : pc'[d] = pc[d]
        BY <1>2, <1>t DEF IncrementFailCount, Goto
    <2> QED
        BY <2>1, <2>3, <2>4, <2>5, AuditKept
<1>3. ASSUME NEW c \in Calls, LockAccount(c) PROVE AuditInv'
    <2>1. account'.status = "LOCKED"
        BY <1>3, <1>t DEF LockAccount, Accounts
    <2>2. /\ entry' = entry /\ seen' = seen /\ pc[c] # "idle" /\ pc'[c] # "increment"
          /\ \A d \in Calls \ {c} : pc'[d] = pc[d]
        BY <1>3, <1>t DEF LockAccount, Goto
    <2> QED
        BY <2>1, <2>2, AuditKept
<1>4. ASSUME NEW c \in Calls,
             \/ ResetFailCount(c) \/ UpdateOtpSecretKey(c) \/ Challenge(c)
             \/ Tokens(c) \/ UpdatePassword(c) \/ Abort(c)
      PROVE  AuditInv'
    <2>1. account'.status = account.status
        BY <1>4, <1>t DEF ResetFailCount, UpdateOtpSecretKey, Challenge, Tokens,
           UpdatePassword, Abort, Accounts
    <2>2. /\ entry' = entry
          /\ pc'[c] # "idle" => seen' = seen /\ pc[c] # "idle"
          /\ pc'[c] # "increment" /\ pc'[c] # "recordFailure"
          /\ \A d \in Calls \ {c} : pc'[d] = pc[d] /\ seen'[d] = seen[d]
        BY <1>4, <1>t DEF ResetFailCount, UpdateOtpSecretKey, Challenge, Tokens,
           UpdatePassword, Abort, Goto, Done
    <2> QED
        BY <2>1, <2>2, AuditKept
<1>5. ASSUME NEW c \in Calls, RecordFailure(c) \/ RecordSuccess(c) PROVE AuditInv'
    <2>1. account'.status = account.status
        BY <1>5, <1>t DEF RecordFailure, RecordSuccess, Accounts
    <2>2. entry'.status = "LOCKED" => account.status = "LOCKED"
        BY <1>5 DEF RecordFailure, RecordSuccess, AuditInv
    <2>3. AuditedLockIsReal'
        BY <2>1, <2>2 DEF AuditedLockIsReal
    <2>4. \A d \in Calls : pc'[d] \in {"idle", "tokens"} \/ pc'[d] = pc[d]
        BY <1>5, <1>t DEF RecordFailure, RecordSuccess, Goto, Done
    <2>5. \A d \in Calls : pc'[d] # "idle" => pc[d] # "idle" /\ seen'[d] = seen[d]
        BY <1>5, <1>t DEF RecordFailure, RecordSuccess, Goto, Done
    <2> QED
        BY <2>1, <2>3, <2>4, <2>5
        DEF AuditInv, FailureEntry, LockedOut, LocksNow, Count
<1>6. ASSUME NEW c \in Calls, LoginExpired(c) PROVE AuditInv'
    BY <1>6 DEF LoginExpired, AuditInv, AuditedLockIsReal, FailureEntry,
       LockedOut, LocksNow, Count
<1>7. CASE PasswordAges \/ \E s \in AdminStatuses : AdminSetsStatus(s)
    <2>1. account.status = "LOCKED" => account'.status = "LOCKED"
        BY <1>7, <1>t DEF PasswordAges, AdminSetsStatus, Accounts
    <2>2. UNCHANGED <<entry, pc, seen>>
        BY <1>7 DEF PasswordAges, AdminSetsStatus
    <2> QED
        BY <2>1, <2>2 DEF AuditInv, AuditedLockIsReal, FailureEntry, LockedOut,
           LocksNow, Count
<1>8. CASE UNCHANGED vars
    BY <1>8 DEF vars, AuditInv, AuditedLockIsReal, FailureEntry, LockedOut,
       LocksNow, Count
<1> QED
    BY <1>1, <1>2, <1>3, <1>4, <1>5, <1>6, <1>7, <1>8 DEF Next

\* As long as no administrator lifts a lock, a history row with the status
\* LOCKED speaks of an account that is locked: recordFailure comes after
\* lockAccount wherever the status written is not the one that was read, and
\* a crash between the two loses the row, never the lock.
THEOREM LockIsAudited ==
    ASSUME AdminStatuses \subseteq {"LOCKED"}
    PROVE  Spec => []AuditedLockIsReal
<1>1. TypeInv /\ TypeInv' /\ AuditInv /\ [Next]_vars => AuditInv'
    BY AuditStep
<1>2. Spec => [](TypeInv /\ AuditInv)
    BY <1>1, TypeInit, TypeStep, AuditInit, PTL DEF Spec
<1>3. AuditInv => AuditedLockIsReal
    BY DEF AuditInv
<1> QED
    BY <1>2, <1>3, PTL

-------------------------------------------------------------------------------
(* The secret in the row and the QR codes shown.                           *)

\* A step after which the row's secret is the same and no request that was
\* about to show one has stopped doing so.
LEMMA ShownKept ==
    ASSUME SecretIsShown,
           account'.otp = account.otp, enrolled \subseteq enrolled',
           \A c \in Calls : pc[c] = "challenge"
               => \/ pc'[c] = "challenge" /\ url'[c] = url[c]
                  \/ url[c] # Null => url[c] \in enrolled'
    PROVE  SecretIsShown'
BY DEF SecretIsShown

LEMMA ShownInit == Init => SecretIsShown
BY DEF Init, SecretIsShown

LEMMA ShownStep ==
    ASSUME ~LoseAnswers
    PROVE  TypeInv /\ SecretIsShown /\ [Next]_vars => SecretIsShown'
<1> SUFFICES ASSUME TypeInv, SecretIsShown, [Next]_vars PROVE SecretIsShown'
    OBVIOUS
<1>t. /\ account \in Accounts /\ pc \in [Calls -> Steps]
      /\ url \in [Calls -> Secrets \cup {Null}]
    BY DEF TypeInv, TypeOK
<1>1. ASSUME NEW c \in Calls, UpdateOtpSecretKey(c) PROVE SecretIsShown'
    <2>1. account'.otp = url'[c] /\ pc'[c] = "challenge"
        BY <1>1, <1>t DEF UpdateOtpSecretKey, Goto, Accounts
    <2> QED
        BY <2>1 DEF SecretIsShown
<1>2. ASSUME NEW c \in Calls, Challenge(c) PROVE SecretIsShown'
    <2>1. /\ account' = account /\ enrolled \subseteq enrolled'
          /\ url[c] # Null => url[c] \in enrolled'
          /\ \A d \in Calls \ {c} : pc'[d] = pc[d] /\ url'[d] = url[d]
        BY <1>2, <1>t DEF Challenge, Done, Goto
    <2> QED
        BY <2>1, ShownKept
<1>3. ASSUME NEW c \in Calls,
             \/ LoginLockedOut(c) \/ LoginWrongPassword(c) \/ LoginExpired(c)
             \/ LoginRightPassword(c) \/ IncrementFailCount(c) \/ LockAccount(c)
             \/ RecordFailure(c) \/ ResetFailCount(c) \/ VerifyTwoFactor(c) \/ Refresh(c)
             \/ RecordSuccess(c) \/ Tokens(c) \/ ChangePassword(c)
             \/ UpdatePassword(c) \/ Abort(c)
      PROVE  SecretIsShown'
    <2>1. account'.otp = account.otp /\ enrolled' = enrolled
        BY <1>3, <1>t DEF LoginLockedOut, LoginWrongPassword, LoginExpired,
           LoginRightPassword, IncrementFailCount, LockAccount, RecordFailure,
           ResetFailCount, VerifyTwoFactor, Refresh, RecordSuccess, Tokens,
           ChangePassword, UpdatePassword, Abort, Accounts
    <2>2. \A d \in Calls : pc[d] = "challenge"
              => pc'[d] = "challenge" /\ url'[d] = url[d]
        BY <1>3, <1>t DEF LoginLockedOut, LoginWrongPassword, LoginExpired,
           LoginRightPassword, LoginAdmitted, Reads, IncrementFailCount,
           LockAccount, RecordFailure, ResetFailCount, VerifyTwoFactor, Refresh,
           RecordSuccess, Tokens, ChangePassword, UpdatePassword, Abort,
           Goto, Done
    <2> QED
        BY <2>1, <2>2, ShownKept
<1>4. CASE PasswordAges \/ \E s \in AdminStatuses : AdminSetsStatus(s)
    <2>1. account'.otp = account.otp /\ UNCHANGED <<pc, url, enrolled>>
        BY <1>4, <1>t DEF PasswordAges, AdminSetsStatus, Accounts
    <2> QED
        BY <2>1, ShownKept
<1>5. CASE UNCHANGED vars
    BY <1>5, ShownKept DEF vars
<1> QED
    BY <1>1, <1>2, <1>3, <1>4, <1>5 DEF Next

\* However many first logins overlap (auth.service.ts:281), and whatever is
\* verified in between: when no answer is lost, the secret in the row is one
\* that was shown to a client or will be.
THEOREM SecretsAreShown ==
    ASSUME ~LoseAnswers
    PROVE  Spec => []SecretIsShown
<1>1. TypeInv /\ SecretIsShown /\ [Next]_vars => SecretIsShown'
    BY ShownStep
<1> QED
    BY <1>1, TypeInit, TypeStep, ShownInit, PTL DEF Spec

-------------------------------------------------------------------------------
(* What stays true of the lock where FailuresLock fails.                   *)

\* When as many wrong passwords as the limit have been counted, the account is
\* closed to logins, whatever its status says: by its count (auth.service.ts:55),
\* if that is not NULL.  What late counts lose is the status, not the lock-out.
LimitLocksOut ==
    fails = MAX_FAIL_COUNT /\ account.failCount # Null => LockedOut(account)

\* The count in the row is never behind the failures counted.
CountedAll == account.failCount # Null => fails <= account.failCount

LEMMA CountedInit == Init => CountedAll
<1> SUFFICES ASSUME Init PROVE CountedAll
    OBVIOUS
<1>1. account.failCount \in {0, Null} /\ fails = 0
    BY DEF Init
<1> QED
    BY <1>1 DEF CountedAll

LEMMA CountedStep == TypeInv /\ CountedAll /\ [Next]_vars => CountedAll'
<1> SUFFICES ASSUME TypeInv, CountedAll, [Next]_vars PROVE CountedAll'
    OBVIOUS
<1>t. /\ account \in Accounts /\ account.failCount \in Nat \cup {Null}
      /\ fails \in Nat /\ fails <= MAX_FAIL_COUNT
    BY DEF TypeInv, TypeOK, Accounts
<1>1. ASSUME NEW c \in Calls, IncrementFailCount(c) PROVE CountedAll'
    <2>1. /\ account'.failCount = IF account.failCount = Null THEN Null
                                  ELSE account.failCount + 1
          /\ fails' = IF fails < MAX_FAIL_COUNT THEN fails + 1 ELSE fails
        BY <1>1, <1>t DEF IncrementFailCount, Accounts
    <2>2. CASE account.failCount = Null
        BY <2>1, <2>2 DEF CountedAll
    <2>3. CASE account.failCount # Null
        BY <1>t, <2>1, <2>3 DEF CountedAll
    <2> QED
        BY <2>2, <2>3
<1>2. ASSUME NEW c \in Calls, ResetFailCount(c) \/ RecordSuccess(c) PROVE CountedAll'
    <2>1. \/ account' = [account EXCEPT !.failCount = 0]
          \/ account' = [account EXCEPT !.failCount = 0, !.lastLogin = TRUE]
        BY <1>2 DEF ResetFailCount, RecordSuccess
    <2>2. account'.failCount = 0 /\ fails' = 0
        BY <1>2, <1>t, <2>1 DEF ResetFailCount, RecordSuccess, Accounts
    <2> QED
        BY <2>2 DEF CountedAll
<1>3. ASSUME NEW c \in Calls,
             \/ LoginLockedOut(c) \/ LoginWrongPassword(c) \/ LoginExpired(c)
             \/ LoginRightPassword(c) \/ LockAccount(c) \/ RecordFailure(c)
             \/ UpdateOtpSecretKey(c) \/ Challenge(c) \/ VerifyTwoFactor(c) \/ Refresh(c)
             \/ Tokens(c) \/ ChangePassword(c) \/ UpdatePassword(c) \/ Abort(c)
      PROVE  CountedAll'
    <2>1. fails' = fails /\ account'.failCount = account.failCount
        BY <1>3, <1>t DEF LoginLockedOut, LoginWrongPassword, LoginExpired,
           LoginRightPassword, LoginAdmitted, LockAccount, RecordFailure,
           UpdateOtpSecretKey, Challenge, VerifyTwoFactor, Refresh, Tokens,
           ChangePassword, UpdatePassword, Abort, Accounts
    <2> QED
        BY <2>1 DEF CountedAll
<1>4. ASSUME NEW s \in AdminStatuses, AdminSetsStatus(s) PROVE CountedAll'
    <2>1. \/ account'.failCount = 0 /\ fails' = 0
          \/ account'.failCount = account.failCount /\ fails' = fails
        BY <1>4, <1>t DEF AdminSetsStatus, Accounts
    <2> QED
        BY <2>1 DEF CountedAll
<1>5. CASE PasswordAges
    <2>1. fails' = fails /\ account'.failCount = account.failCount
        BY <1>5, <1>t DEF PasswordAges, Accounts
    <2> QED
        BY <2>1 DEF CountedAll
<1>6. CASE UNCHANGED vars
    BY <1>6 DEF vars, CountedAll
<1> QED
    BY <1>1, <1>2, <1>3, <1>4, <1>5, <1>6 DEF Next

\* The limit closes the account to every later login, however many requests
\* compared the count before they added to it (auth.service.ts:68, 225): the
\* addition is made by the database, so the count loses none of them.
THEOREM LimitIsKept == Spec => []LimitLocksOut
<1>1. TypeInv /\ CountedAll => LimitLocksOut
    <2> SUFFICES ASSUME TypeInv, CountedAll, fails = MAX_FAIL_COUNT, account.failCount # Null
                 PROVE  LockedOut(account)
        BY DEF LimitLocksOut
    <2>1. account.failCount \in Nat /\ MAX_FAIL_COUNT <= account.failCount
        BY DEF TypeInv, TypeOK, Accounts, CountedAll
    <2> QED
        BY <2>1 DEF LockedOut, Count
<1>2. Spec => [](TypeInv /\ CountedAll)
    BY TypeInit, TypeStep, CountedInit, CountedStep, PTL DEF Spec
<1> QED
    BY <1>1, <1>2, PTL

===============================================================================
