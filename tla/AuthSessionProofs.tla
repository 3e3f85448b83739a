--------------------------- MODULE AuthSessionProofs ---------------------------
(***************************************************************************)
(* Proofs about AuthSession, for any number of tabs and users.             *)
(***************************************************************************)
EXTENDS AuthSession, TLAPS

\* The mount effect of a tab has at most one refresh under way, and while it
\* has one the tab is loading: nobody is logged in there or is about to be.
Loading ==
    \A t \in Tabs :
        /\ \A r, q \in refreshing[t] : r.kind = "init" /\ q.kind = "init" => r = q
        /\ \A r \in refreshing[t] : r.kind = "init" => page[t] = "loading"
        /\ page[t] = "loading" =>
              ~isAuthenticated[t] /\ submitted[t] = None /\ verifying[t] = None

RenewalInv == TypeOK /\ Loading /\ SessionIsRenewed

-------------------------------------------------------------------------------

LEMMA TypeInit == Init => TypeOK
BY DEF Init, TypeOK

LEMMA TypeStep == TypeOK /\ [Next]_vars => TypeOK'
<1> SUFFICES ASSUME TypeOK, [Next]_vars
             PROVE  TypeOK'
    OBVIOUS
<1> USE DEF TypeOK
<1>1. ASSUME NEW t \in Tabs, Mount(t)
      PROVE  TypeOK'
    <2>1. CASE store # None /\ valid
        <3>1. store \in Users
            BY <2>1
        <3>2. /\ user' = [user EXCEPT ![t] = store]
              /\ isAuthenticated' = [isAuthenticated EXCEPT ![t] = TRUE]
              /\ timer' = [timer EXCEPT ![t] = TRUE]
              /\ page' = [page EXCEPT ![t] = "ready"]
              /\ refreshing' = [refreshing EXCEPT ![t] = {}]
            BY <1>1, <2>1 DEF Mount, Enter
        <3>3. /\ submitted' = [submitted EXCEPT ![t] = None]
              /\ verifying' = [verifying EXCEPT ![t] = None]
              /\ twoFactorToken' = [twoFactorToken EXCEPT ![t] = None]
              /\ formGone' = [formGone EXCEPT ![t] = submitted'[t] # None]
              /\ UNCHANGED <<store, valid, twoFactor, savedToken, loggedOut>>
            BY <1>1 DEF Mount, LeaveLoginPage
        <3> QED
            BY <3>1, <3>2, <3>3
    <2>2. CASE store = None
        BY <1>1, <2>2 DEF Mount, LeaveLoginPage
    <2>3. CASE store # None /\ ~valid
        <3>1. {[kind |-> "init", user |-> store]} \subseteq Refreshes
            BY <2>3 DEF Refreshes
        <3>2. refreshing' \in [Tabs -> SUBSET Refreshes]
            BY <1>1, <2>3, <3>1 DEF Mount
        <3> QED
            BY <1>1, <2>3, <3>2 DEF Mount, LeaveLoginPage
    <2> QED
        BY <2>1, <2>2, <2>3
<1>2. ASSUME NEW t \in Tabs, NEW r \in Refreshes, InitRefreshed(t, r)
      PROVE  TypeOK'
    BY <1>2 DEF InitRefreshed, SaveTokens, Enter, Refreshes, LeaveLoginPage
<1>3. ASSUME NEW t \in Tabs, NEW r \in Refreshes, InitRefused(t, r)
      PROVE  TypeOK'
    BY <1>3 DEF InitRefused, ClearTokens, loginVars
<1>4. ASSUME NEW t \in Tabs, TimerFires(t)
      PROVE  TypeOK'
    <2>1. CASE store = None
        BY <1>4, <2>1
        DEF TimerFires, NothingToRefresh, HandleLogout, ClearTokens, loginVars
    <2>2. CASE store # None
        <3>1. [kind |-> "timer", user |-> store] \in Refreshes
            BY <2>2 DEF Refreshes
        <3>2. refreshing' \in [Tabs -> SUBSET Refreshes]
            BY <1>4, <2>2, <3>1 DEF TimerFires
        <3> QED
            BY <1>4, <2>2, <3>2 DEF TimerFires, loginVars
    <2> QED
        BY <2>1, <2>2
<1>5. ASSUME NEW t \in Tabs, NEW r \in Refreshes, Refreshed(t, r)
      PROVE  TypeOK'
    BY <1>5 DEF Refreshed, Rearmed, SaveTokens, Refreshes, loginVars
<1>6. ASSUME NEW t \in Tabs, NEW r \in Refreshes, Refused(t, r)
      PROVE  TypeOK'
    BY <1>6 DEF Refused, HandleLogout, ClearTokens, loginVars
<1>7. ASSUME NEW t \in Tabs, NEW u \in Users, Submit(t, u)
      PROVE  TypeOK'
    BY <1>7 DEF Submit, sessionVars
<1>8. ASSUME NEW t \in Tabs, HandleLogin(t)
      PROVE  TypeOK'
    BY <1>8 DEF HandleLogin, SaveTokens, Enter, LeaveLoginPage
<1>9. ASSUME NEW t \in Tabs, Challenge(t) \/ LoginFails(t)
      PROVE  TypeOK'
    <2>1. CASE Challenge(t)
        <3>1. submitted[t] \in Users /\ savedToken' = submitted[t]
            BY <2>1 DEF Challenge
        <3> QED
            BY <2>1, <3>1 DEF Challenge, sessionVars
    <2>2. CASE LoginFails(t)
        BY <2>2 DEF LoginFails, sessionVars
    <2> QED
        BY <1>9, <2>1, <2>2
<1>10. ASSUME NEW t \in Tabs, VerifyOtp(t) \/ VerifyFails(t) \/ HandleBack(t)
       PROVE  TypeOK'
    BY <1>10 DEF VerifyOtp, VerifyFails, HandleBack, Challenged, sessionVars
<1>11. ASSUME NEW t \in Tabs, Verified(t)
       PROVE  TypeOK'
    BY <1>11 DEF Verified, SaveTokens, Enter, LeaveLoginPage
<1>12. ASSUME NEW t \in Tabs, Logout(t)
       PROVE  TypeOK'
    BY <1>12 DEF Logout, HandleLogout, ClearTokens, loginVars
<1>13. CASE TokensExpire
    BY <1>13 DEF TokensExpire, tabVars, loginVars
<1>14. CASE UNCHANGED vars
    BY <1>14 DEF vars, tabVars, loginVars
<1> QED
    BY <1>1, <1>2, <1>3, <1>4, <1>5, <1>6, <1>7, <1>8, <1>9, <1>10, <1>11, <1>12,
       <1>13, <1>14
    DEF Next

\* Users, tabs, timers and refreshes keep their types in every order of timers,
\* answers, reloads, logins and logouts (AuthContext.tsx:45-188): in particular
\* no refresh is ever sent without a token.
THEOREM TypeCorrect == Spec => []TypeOK
<1> QED
    BY TypeInit, TypeStep, PTL DEF Spec

-------------------------------------------------------------------------------

LEMMA RenewalInit == Init => RenewalInv
BY TypeInit DEF Init, RenewalInv, Loading, SessionIsRenewed

\* What the two conjuncts of RenewalInv say of one tab.
TabLoading(t) ==
    /\ \A r, q \in refreshing[t] : r.kind = "init" /\ q.kind = "init" => r = q
    /\ \A r \in refreshing[t] : r.kind = "init" => page[t] = "loading"
    /\ page[t] = "loading" =>
          ~isAuthenticated[t] /\ submitted[t] = None /\ verifying[t] = None

TabRenewed(t) ==
    isAuthenticated[t] => timer[t] \/ \E r \in refreshing[t] : r.kind = "timer"

\* A step of one tab keeps what holds of the others.
LEMMA OneTab ==
    ASSUME RenewalInv, TypeOK', NEW t \in Tabs,
           \A s \in Tabs \ {t} : /\ page'[s] = page[s]
                                 /\ isAuthenticated'[s] = isAuthenticated[s]
                                 /\ timer'[s] = timer[s]
                                 /\ refreshing'[s] = refreshing[s]
                                 /\ submitted'[s] = submitted[s]
                                 /\ verifying'[s] = verifying[s],
           TabLoading(t)', TabRenewed(t)'
    PROVE  RenewalInv'
<1>1. ASSUME NEW s \in Tabs \ {t}
      PROVE  TabLoading(s)' /\ TabRenewed(s)'
    BY DEF RenewalInv, Loading, SessionIsRenewed, TabLoading, TabRenewed
<1> QED
    BY <1>1 DEF RenewalInv, Loading, SessionIsRenewed, TabLoading, TabRenewed

LEMMA RenewalStep ==
    ASSUME ~EagerLogin, RenewalInv, [Next]_vars
    PROVE  RenewalInv'
<1>1. TypeOK /\ TypeOK'
    BY TypeStep DEF RenewalInv
<1>2. \A t \in Tabs : TabLoading(t) /\ TabRenewed(t)
    BY DEF RenewalInv, Loading, SessionIsRenewed, TabLoading, TabRenewed
<1> USE DEF TypeOK
<1>3. ASSUME NEW t \in Tabs, Mount(t)
      PROVE  RenewalInv'
    <2>1. TabLoading(t)' /\ TabRenewed(t)'
        BY <1>1, <1>3 DEF Mount, Enter, TabLoading, TabRenewed
    <2> QED
        BY <1>1, <1>3, <2>1, OneTab DEF Mount, Enter
<1>4. ASSUME NEW t \in Tabs, NEW r \in Refreshes, InitRefreshed(t, r)
      PROVE  RenewalInv'
    <2>1. /\ refreshing'[t] = refreshing[t] \ {r}
          /\ page'[t] = "ready" /\ timer'[t]
        BY <1>1, <1>4 DEF InitRefreshed, Enter
    <2>2. \A q \in refreshing'[t] : q.kind # "init"
        BY <1>2, <1>4, <2>1 DEF InitRefreshed, TabLoading
    <2>3. TabLoading(t)' /\ TabRenewed(t)'
        BY <2>1, <2>2 DEF TabLoading, TabRenewed
    <2> QED
        BY <1>1, <1>4, <2>3, OneTab DEF InitRefreshed, Enter
<1>5. ASSUME NEW t \in Tabs, NEW r \in Refreshes, InitRefused(t, r)
      PROVE  RenewalInv'
    <2>1. TabLoading(t)' /\ TabRenewed(t)'
        BY <1>1, <1>2, <1>5 DEF InitRefused, TabLoading, TabRenewed, loginVars
    <2> QED
        BY <1>1, <1>5, <2>1, OneTab DEF InitRefused, loginVars
<1>6. ASSUME NEW t \in Tabs, TimerFires(t)
      PROVE  RenewalInv'
    <2>1. CASE store = None
        <3>1. TabLoading(t)' /\ TabRenewed(t)'
            BY <1>1, <1>2, <1>6, <2>1
            DEF TimerFires, NothingToRefresh, HandleLogout, TabLoading, TabRenewed,
                loginVars
        <3> QED
            BY <1>1, <1>6, <2>1, <3>1, OneTab
            DEF TimerFires, NothingToRefresh, HandleLogout, loginVars
    <2>2. CASE store # None
        <3> DEFINE new == [kind |-> "timer", user |-> store]
        <3>1. /\ refreshing'[t] = refreshing[t] \cup {new}
              /\ UNCHANGED <<page, isAuthenticated, submitted, verifying>>
            BY <1>1, <1>6, <2>2 DEF TimerFires, loginVars
        <3>2. new.kind = "timer"
            OBVIOUS
        <3> HIDE DEF new
        <3>3. TabLoading(t)' /\ TabRenewed(t)'
            BY <1>2, <3>1, <3>2 DEF TabLoading, TabRenewed
        <3>4. \A s \in Tabs \ {t} : timer'[s] = timer[s] /\ refreshing'[s] = refreshing[s]
            BY <1>1, <1>6, <2>2 DEF TimerFires
        <3> QED
            BY <1>1, <3>1, <3>3, <3>4, OneTab
    <2> QED
        BY <2>1, <2>2
<1>7. ASSUME NEW t \in Tabs, NEW r \in Refreshes, Refreshed(t, r)
      PROVE  RenewalInv'
    <2>1. TabLoading(t)' /\ TabRenewed(t)'
        BY <1>1, <1>2, <1>7 DEF Refreshed, Rearmed, TabLoading, TabRenewed, loginVars
    <2> QED
        BY <1>1, <1>7, <2>1, OneTab DEF Refreshed, Rearmed, loginVars
<1>8. ASSUME NEW t \in Tabs, NEW r \in Refreshes, Refused(t, r)
      PROVE  RenewalInv'
    <2>1. TabLoading(t)' /\ TabRenewed(t)'
        BY <1>1, <1>2, <1>8 DEF Refused, HandleLogout, TabLoading, TabRenewed, loginVars
    <2> QED
        BY <1>1, <1>8, <2>1, OneTab DEF Refused, HandleLogout, loginVars
<1>9. ASSUME NEW t \in Tabs, NEW u \in Users, Submit(t, u)
      PROVE  RenewalInv'
    <2>1. TabLoading(t)' /\ TabRenewed(t)'
        BY <1>1, <1>2, <1>9
        DEF Submit, CredentialsForm, LoginPage, TabLoading, TabRenewed, sessionVars
    <2> QED
        BY <1>1, <1>9, <2>1, OneTab DEF Submit, sessionVars
<1>10. ASSUME NEW t \in Tabs, HandleLogin(t)
       PROVE  RenewalInv'
    <2>1. TabLoading(t)' /\ TabRenewed(t)'
        BY <1>1, <1>2, <1>10 DEF HandleLogin, Enter, TabLoading, TabRenewed
    <2> QED
        BY <1>1, <1>10, <2>1, OneTab DEF HandleLogin, Enter
<1>11. ASSUME NEW t \in Tabs, Challenge(t) \/ LoginFails(t) \/ VerifyFails(t) \/ HandleBack(t)
       PROVE  RenewalInv'
    <2>1. TabLoading(t)' /\ TabRenewed(t)'
        BY <1>1, <1>2, <1>11
        DEF Challenge, LoginFails, VerifyFails, HandleBack, TabLoading, TabRenewed,
            sessionVars
    <2> QED
        BY <1>1, <1>11, <2>1, OneTab
        DEF Challenge, LoginFails, VerifyFails, HandleBack, sessionVars
<1>12. ASSUME NEW t \in Tabs, VerifyOtp(t)
       PROVE  RenewalInv'
    <2>1. TabLoading(t)' /\ TabRenewed(t)'
        BY <1>1, <1>2, <1>12
        DEF VerifyOtp, OtpForm, LoginPage, TabLoading, TabRenewed, sessionVars
    <2> QED
        BY <1>1, <1>12, <2>1, OneTab DEF VerifyOtp, sessionVars
<1>13. ASSUME NEW t \in Tabs, Verified(t)
       PROVE  RenewalInv'
    <2>1. TabLoading(t)' /\ TabRenewed(t)'
        BY <1>1, <1>2, <1>13 DEF Verified, Enter, TabLoading, TabRenewed
    <2> QED
        BY <1>1, <1>13, <2>1, OneTab DEF Verified, Enter
<1>14. ASSUME NEW t \in Tabs, Logout(t)
       PROVE  RenewalInv'
    <2>1. TabLoading(t)' /\ TabRenewed(t)'
        BY <1>1, <1>2, <1>14
        DEF Logout, HandleLogout, TabLoading, TabRenewed, loginVars
    <2> QED
        BY <1>1, <1>14, <2>1, OneTab DEF Logout, HandleLogout, loginVars
<1>15. CASE TokensExpire \/ UNCHANGED vars
    <2>1. UNCHANGED <<tabVars, loginVars>>
        BY <1>15 DEF TokensExpire, vars
    <2> QED
        BY <1>1, <2>1
        DEF RenewalInv, Loading, SessionIsRenewed, tabVars, loginVars
<1> QED
    BY <1>3, <1>4, <1>5, <1>6, <1>7, <1>8, <1>9, <1>10, <1>11,
       <1>12, <1>13, <1>14, <1>15
    DEF Next

\* If nobody logs in while the refresh of a page load is under way, a tab that
\* is authenticated always has its next refresh ahead of it or under way
\* (AuthContext.tsx:79, 106, 145, 167), whatever the other tabs do to the tokens.
THEOREM AlwaysRenewed == ~EagerLogin => (Spec => []SessionIsRenewed)
<1> SUFFICES ASSUME ~EagerLogin
             PROVE  Spec => []SessionIsRenewed
    OBVIOUS
<1>1. Init => RenewalInv
    BY RenewalInit
<1>2. RenewalInv /\ [Next]_vars => RenewalInv'
    BY RenewalStep
<1>3. RenewalInv => SessionIsRenewed
    BY DEF RenewalInv
<1> QED
    BY <1>1, <1>2, <1>3, PTL DEF Spec

-------------------------------------------------------------------------------
(* What stays true of a logout where LoggedOutStays fails.                 *)

\* The user logged out, and no refresh was under way, or it has ended since.
Gone == loggedOut /\ store = None /\ \A t \in Tabs : refreshing[t] = {}

\* From then on there are no tokens until somebody logs in, and nothing asks for
\* any: the only thing that undoes a logout is a refresh that was sent before it
\* (AuthContext.tsx:78).
LogoutIsFinal == [][ Gone => Gone' \/ ~loggedOut' ]_vars

LEMMA GoneStep ==
    ASSUME TypeOK, [Next]_vars, Gone, loggedOut'
    PROVE  Gone'
<1> USE DEF Gone, TypeOK
<1>1. ASSUME NEW t \in Tabs, Mount(t)
      PROVE  Gone'
    <2>1. /\ refreshing' = [refreshing EXCEPT ![t] = {}]
          /\ UNCHANGED <<store, loggedOut>>
        BY <1>1 DEF Mount
    <2> QED
        BY <2>1
<1>2. ASSUME NEW t \in Tabs, TimerFires(t)
      PROVE  Gone'
    BY <1>2 DEF TimerFires, NothingToRefresh, HandleLogout, ClearTokens
<1>3. ASSUME NEW t \in Tabs, NEW r \in Refreshes,
             \/ InitRefreshed(t, r) \/ InitRefused(t, r) \/ Refreshed(t, r) \/ Refused(t, r)
      PROVE  FALSE
    <2>1. r \in refreshing[t]
        BY <1>3 DEF InitRefreshed, InitRefused, Refreshed, Refused
    <2> QED
        BY <2>1
<1>4. ASSUME NEW t \in Tabs, HandleLogin(t) \/ Verified(t)
      PROVE  FALSE
    BY <1>4 DEF HandleLogin, Verified
<1>5. ASSUME NEW t \in Tabs,
             \/ \E u \in Users : Submit(t, u)
             \/ Challenge(t) \/ LoginFails(t) \/ VerifyOtp(t) \/ VerifyFails(t) \/ HandleBack(t)
      PROVE  Gone'
    BY <1>5 DEF Submit, Challenge, LoginFails, VerifyOtp, VerifyFails, HandleBack, sessionVars
<1>6. ASSUME NEW t \in Tabs, Logout(t)
      PROVE  Gone'
    BY <1>6 DEF Logout, HandleLogout, ClearTokens
<1>7. CASE TokensExpire
    BY <1>7 DEF TokensExpire
<1>8. CASE UNCHANGED vars
    BY <1>8 DEF vars, tabVars
<1> QED
    BY <1>1, <1>2, <1>3, <1>4, <1>5, <1>6, <1>7, <1>8 DEF Next

\* Timers, page loads and forms of any tab do not undo a logout that no refresh
\* is racing with: doRefresh looks at the tokens before it asks for new ones
\* (AuthContext.tsx:67), and a page load finds none to renew.
THEOREM LogoutLasts == Spec => LogoutIsFinal
<1>1. TypeOK /\ [Next]_vars => [Gone => Gone' \/ ~loggedOut']_vars
    BY GoneStep
<1> QED
    BY <1>1, TypeInit, TypeStep, PTL DEF Spec, LogoutIsFinal
===============================================================================
