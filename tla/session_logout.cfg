\* One tab and one user.
CONSTANTS
    Tabs = {t1}
    Users = {u1}
    None = None
    LoginTabs = {t1}
    EagerLogin = FALSE
SPECIFICATION Spec
INVARIANTS LoggedOutStays
