\* Two tabs and two users.
CONSTANTS
    Tabs = {t1, t2}
    Users = {u1, u2}
    None = None
    LoginTabs = {t1}
    EagerLogin = FALSE
SPECIFICATION FairSpec
INVARIANTS TypeOK SessionIsRenewed
PROPERTIES LogoutSpreads KeptFresh
