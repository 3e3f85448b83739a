------------------------------ MODULE AuthSession ------------------------------
(***************************************************************************)
(* The session of the web UI (src/apps/ui/src/features/auth): the tabs of  *)
(* one browser, each with an AuthProvider, a refresh timer and requests    *)
(* under way, and the tokens in localStorage that they share.              *)
(*                                                                         *)
(* An action is one turn of a tab's event loop.  Time is left open: tokens *)
(* may expire and timers fire at any moment (a suspended computer makes    *)
(* both late), and the gateway may accept or refuse any refresh.           *)
(***************************************************************************)
EXTENDS Naturals

CONSTANTS
    Tabs, Users,
    None,
    LoginTabs,   \* bound: the tabs in which credentials are entered
    EagerLogin   \* may a user log in while the refresh of a page load is under way?

ASSUME NoneAssumption == None \notin Users
ASSUME EagerLoginAssumption == EagerLogin \in BOOLEAN

VARIABLES
    store,            \* whose tokens localStorage holds
    valid,            \* is token_expiry in the future?
    page,             \* page[t]: "closed", "loading" (isLoading) or "ready"
    isAuthenticated,
    user,             \* user[t]: the user tab t shows
    timer,            \* is the refresh timer of tab t set?
    refreshing,       \* refreshing[t]: refreshes under way, bound: one of a sort
    twoFactor,        \* has the user type of this UI a second factor?
    submitted,        \* the user whose login tab t has sent
    formGone,         \* formGone[t]: the page it was sent from is gone since
    twoFactorToken,   \* whose challenge the login page of tab t holds
    savedToken,       \* whose challenge localStorage holds
    verifying,        \* the user whose code tab t has sent
    loggedOut         \* history: the user logged out and did not log in since

loginVars == <<submitted, formGone, twoFactorToken, savedToken, verifying>>
tabVars == <<page, isAuthenticated, user, timer, refreshing>>
vars == <<store, valid, tabVars, twoFactor, loginVars, loggedOut>>

\* "init" comes from the mount effect, "timer" from doRefresh.
Refreshes == [kind : {"init", "timer"}, user : Users]

TypeOK ==
    /\ store \in Users \cup {None}
    /\ valid \in BOOLEAN
    /\ page \in [Tabs -> {"closed", "loading", "ready"}]
    /\ isAuthenticated \in [Tabs -> BOOLEAN]
    /\ user \in [Tabs -> Users \cup {None}]
    /\ timer \in [Tabs -> BOOLEAN]
    /\ refreshing \in [Tabs -> SUBSET Refreshes]
    /\ twoFactor \in BOOLEAN
    /\ submitted \in [Tabs -> Users \cup {None}]
    /\ formGone \in [Tabs -> BOOLEAN]
    /\ twoFactorToken \in [Tabs -> Users \cup {None}]
    /\ savedToken \in Users \cup {None}
    /\ verifying \in [Tabs -> Users \cup {None}]
    /\ loggedOut \in BOOLEAN

Init ==
    /\ store \in Users \cup {None}
    /\ valid \in BOOLEAN
    /\ page = [t \in Tabs |-> "closed"]
    /\ isAuthenticated = [t \in Tabs |-> FALSE]
    /\ user = [t \in Tabs |-> None]
    /\ timer = [t \in Tabs |-> FALSE]
    /\ refreshing = [t \in Tabs |-> {}]
    /\ twoFactor \in BOOLEAN
    /\ submitted = [t \in Tabs |-> None]
    /\ formGone = [t \in Tabs |-> FALSE]
    /\ twoFactorToken = [t \in Tabs |-> None]
    /\ savedToken = None
    /\ verifying = [t \in Tabs |-> None]
    /\ loggedOut = FALSE

-------------------------------------------------------------------------------

SaveTokens(u) == store' = u /\ valid' = TRUE
ClearTokens == store' = None /\ UNCHANGED valid

\* setUser, setIsAuthenticated(TRUE) and startRefreshTimer
Enter(t, u) ==
    /\ user' = [user EXCEPT ![t] = u]
    /\ isAuthenticated' = [isAuthenticated EXCEPT ![t] = TRUE]
    /\ timer' = [timer EXCEPT ![t] = TRUE]

\* Once the tab is authenticated another page takes the login page's place, and
\* its state is gone.
LeaveLoginPage(t) ==
    /\ twoFactorToken' = [twoFactorToken EXCEPT ![t] = None]
    /\ formGone' = [formGone EXCEPT ![t] = submitted'[t] # None]

\* handleLogout: everything before its await.
HandleLogout(t) ==
    /\ ClearTokens
    /\ user' = [user EXCEPT ![t] = None]
    /\ isAuthenticated' = [isAuthenticated EXCEPT ![t] = FALSE]
    /\ timer' = [timer EXCEPT ![t] = FALSE]

\* A tab is opened or reloaded: the scripts start anew, answers still under
\* way are lost, and the mount effect runs up to its await.
Mount(t) ==
    /\ submitted' = [submitted EXCEPT ![t] = None]
    /\ verifying' = [verifying EXCEPT ![t] = None]
    /\ LeaveLoginPage(t)
    /\ \/ /\ store # None
          /\ valid
          /\ Enter(t, store)
          /\ page' = [page EXCEPT ![t] = "ready"]
          /\ refreshing' = [refreshing EXCEPT ![t] = {}]
       \/ /\ store = None \/ ~valid
          /\ user' = [user EXCEPT ![t] = None]
          /\ isAuthenticated' = [isAuthenticated EXCEPT ![t] = FALSE]
          /\ timer' = [timer EXCEPT ![t] = FALSE]
          /\ page' = [page EXCEPT ![t] = IF store = None THEN "ready" ELSE "loading"]
          /\ refreshing' = [refreshing EXCEPT ![t] =
                               IF store = None THEN {}
                               ELSE {[kind |-> "init", user |-> store]}]
    /\ UNCHANGED <<store, valid, twoFactor, savedToken, loggedOut>>

\* The refresh of the mount effect is accepted, or refused or lost.
InitRefreshed(t, r) ==
    /\ r \in refreshing[t]
    /\ r.kind = "init"
    /\ SaveTokens(r.user)
    /\ Enter(t, r.user)
    /\ page' = [page EXCEPT ![t] = "ready"]
    /\ refreshing' = [refreshing EXCEPT ![t] = @ \ {r}]
    /\ UNCHANGED <<twoFactor, submitted, savedToken, verifying, loggedOut>>
    /\ LeaveLoginPage(t)

InitRefused(t, r) ==
    /\ r \in refreshing[t]
    /\ r.kind = "init"
    /\ ClearTokens
    /\ timer' = [timer EXCEPT ![t] = FALSE]
    /\ page' = [page EXCEPT ![t] = "ready"]
    /\ refreshing' = [refreshing EXCEPT ![t] = @ \ {r}]
    /\ UNCHANGED <<isAuthenticated, user, twoFactor, loginVars, loggedOut>>

\* doRefresh without a refresh token.
NothingToRefresh_Return(t) ==  \* mutant: returns without logging out
    UNCHANGED <<store, valid, user, isAuthenticated, timer>>
NothingToRefresh(t) == HandleLogout(t)

TimerFires_NoToken(t) ==  \* mutant: the token is not looked at before its use
    /\ timer[t]
    /\ refreshing' = [refreshing EXCEPT ![t] = @ \cup {[kind |-> "timer", user |-> store]}]
    /\ timer' = [timer EXCEPT ![t] = FALSE]
    /\ UNCHANGED <<store, valid, user, isAuthenticated, page, twoFactor, loginVars,
                   loggedOut>>
\* The timer fires: doRefresh up to its await.
TimerFires(t) ==
    /\ timer[t]
    /\ \/ /\ store = None
          /\ NothingToRefresh(t)
          /\ UNCHANGED refreshing
       \/ /\ store # None
          /\ refreshing' = [refreshing EXCEPT ![t] =
                               @ \cup {[kind |-> "timer", user |-> store]}]
          /\ timer' = [timer EXCEPT ![t] = FALSE]
          /\ UNCHANGED <<store, valid, user, isAuthenticated>>
    /\ UNCHANGED <<page, twoFactor, loginVars, loggedOut>>

\* doRefresh goes on: the tokens are saved and the timer is set again.
Rearmed_Once(t) == timer  \* mutant: the timer is not set again
Rearmed(t) == [timer EXCEPT ![t] = TRUE]

Refreshed(t, r) ==
    /\ r \in refreshing[t]
    /\ r.kind = "timer"
    /\ SaveTokens(r.user)
    /\ timer' = Rearmed(t)
    /\ refreshing' = [refreshing EXCEPT ![t] = @ \ {r}]
    /\ UNCHANGED <<page, isAuthenticated, user, twoFactor, loginVars, loggedOut>>

Refused(t, r) ==
    /\ r \in refreshing[t]
    /\ r.kind = "timer"
    /\ HandleLogout(t)
    /\ refreshing' = [refreshing EXCEPT ![t] = @ \ {r}]
    /\ UNCHANGED <<page, twoFactor, loginVars, loggedOut>>

\* The login page is shown until the tab is known to be authenticated.  It has
\* both forms at once, the one of the other step out of sight, and each has a
\* request of its own, whose answer is handled even when the page is gone.
LoginPage(t) == \/ page[t] = "loading" /\ EagerLogin
                \/ page[t] = "ready" /\ ~isAuthenticated[t]

CredentialsForm(t) == LoginPage(t) /\ submitted[t] = None /\ t \in LoginTabs
OtpForm(t) == LoginPage(t) /\ verifying[t] = None

sessionVars == <<store, valid, page, isAuthenticated, user, timer, refreshing>>

Submit(t, u) ==
    /\ CredentialsForm(t)
    /\ submitted' = [submitted EXCEPT ![t] = u]
    /\ formGone' = [formGone EXCEPT ![t] = FALSE]
    /\ UNCHANGED <<sessionVars, twoFactor, twoFactorToken, savedToken, verifying,
                   loggedOut>>

\* The answer to a login, when there is no second factor.
HandleLogin(t) ==
    /\ submitted[t] # None /\ ~twoFactor
    /\ SaveTokens(submitted[t])
    /\ Enter(t, submitted[t])
    /\ submitted' = [submitted EXCEPT ![t] = None]
    /\ LeaveLoginPage(t)
    /\ loggedOut' = FALSE
    /\ UNCHANGED <<page, refreshing, twoFactor, savedToken, verifying>>

\* When there is: the page turns to its second step.  The token is saved for
\* all tabs as well, and is so even if the page is gone.
Challenge(t) ==
    /\ submitted[t] # None /\ twoFactor
    /\ savedToken' = submitted[t]
    /\ twoFactorToken' = [twoFactorToken EXCEPT ![t] =
                             IF formGone[t] THEN @ ELSE submitted[t]]
    /\ submitted' = [submitted EXCEPT ![t] = None]
    /\ formGone' = [formGone EXCEPT ![t] = FALSE]
    /\ UNCHANGED <<sessionVars, twoFactor, verifying, loggedOut>>

LoginFails(t) ==
    /\ submitted[t] # None
    /\ submitted' = [submitted EXCEPT ![t] = None]
    /\ formGone' = [formGone EXCEPT ![t] = FALSE]
    /\ UNCHANGED <<sessionVars, twoFactor, twoFactorToken, savedToken, verifying,
                   loggedOut>>

\* The header X-2FA-Token: authLink sends the saved token if the page has none.
Challenged(t) == IF twoFactorToken[t] # None THEN twoFactorToken[t] ELSE savedToken

VerifyOtp(t) ==
    /\ OtpForm(t) /\ Challenged(t) # None
    /\ verifying' = [verifying EXCEPT ![t] = Challenged(t)]
    /\ UNCHANGED <<sessionVars, twoFactor, submitted, formGone, twoFactorToken,
                   savedToken, loggedOut>>

Verified(t) ==
    /\ verifying[t] # None
    /\ savedToken' = None
    /\ SaveTokens(verifying[t])
    /\ Enter(t, verifying[t])
    /\ verifying' = [verifying EXCEPT ![t] = None]
    /\ loggedOut' = FALSE
    /\ UNCHANGED <<page, refreshing, twoFactor, submitted>>
    /\ LeaveLoginPage(t)

VerifyFails(t) ==
    /\ verifying[t] # None
    /\ verifying' = [verifying EXCEPT ![t] = None]
    /\ UNCHANGED <<sessionVars, twoFactor, submitted, formGone, twoFactorToken,
                   savedToken, loggedOut>>

HandleBack(t) ==
    /\ LoginPage(t)
    /\ twoFactorToken' = [twoFactorToken EXCEPT ![t] = None]
    /\ savedToken' = None
    /\ UNCHANGED <<sessionVars, twoFactor, submitted, formGone, verifying, loggedOut>>

\* The button of the navigation bar.
Logout(t) ==
    /\ page[t] = "ready"
    /\ isAuthenticated[t]
    /\ HandleLogout(t)
    /\ loggedOut' = TRUE
    /\ UNCHANGED <<page, refreshing, twoFactor, loginVars>>

TokensExpire ==
    /\ store # None
    /\ valid
    /\ valid' = FALSE
    /\ UNCHANGED <<store, tabVars, twoFactor, loginVars, loggedOut>>

Next ==
    \/ \E t \in Tabs :
          \/ Mount(t) \/ TimerFires(t)
          \/ \E r \in Refreshes : \/ InitRefreshed(t, r) \/ InitRefused(t, r)
                                  \/ Refreshed(t, r) \/ Refused(t, r)
          \/ \E u \in Users : Submit(t, u)
          \/ HandleLogin(t) \/ Challenge(t) \/ LoginFails(t)
          \/ VerifyOtp(t) \/ Verified(t) \/ VerifyFails(t) \/ HandleBack(t)
          \/ Logout(t)
    \/ TokensExpire

Spec == Init /\ [][Next]_vars

\* A timer fires and a request is answered, or fails, in the end.
Fairness ==
    \A t \in Tabs :
        /\ WF_vars(TimerFires(t))
        /\ \A r \in Refreshes :
              WF_vars(\/ InitRefreshed(t, r) \/ InitRefused(t, r)
                      \/ Refreshed(t, r) \/ Refused(t, r))

FairSpec == Spec /\ Fairness

-------------------------------------------------------------------------------
(* Properties.                                                             *)

\* An authenticated tab always has a refresh ahead of it or under way
\* (AuthContext.tsx:79, 106, 145, 167), in whatever order timers, answers,
\* logins and logouts come: it cannot be left with tokens that nobody renews,
\* nor stay authenticated for ever without any.  (With EagerLogin it can: the
\* refusal of the page load's refresh clears the new tokens and the timer.)
SessionIsRenewed ==
    \A t \in Tabs : isAuthenticated[t] =>
        timer[t] \/ \E r \in refreshing[t] : r.kind = "timer"

\* A logout in one tab reaches the others through the tokens they share: if
\* there are none from some time on, every tab ends its session, although
\* nothing tells it to.
LogoutSpreads ==
    <>[](store = None) => <>[](\A t \in Tabs : ~isAuthenticated[t])

\* "Automatic renewal" (login page design, 14 and 63): while a tab is
\* authenticated, tokens that ran out are renewed or removed.
KeptFresh ==
    ~valid /\ store # None /\ (\E t \in Tabs : isAuthenticated[t])
        ~> valid \/ store = None

\* "Logout: clear localStorage" (login page design, 65): the tokens stay away
\* until somebody logs in.
LoggedOutStays == loggedOut => store = None
===============================================================================
