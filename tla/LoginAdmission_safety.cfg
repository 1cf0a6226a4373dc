SPECIFICATION AdmissionSpec
CONSTANTS
    Clients = {c1, c2, c3}
    Emails = {e1, e2}
    AccountEmails = {e1}
    Logins = {r1, r2}
    MaxRequests = 2
    Window = 1
    ClientCap = 2
    MaxFailed = 2
    FailWindow = 2
    LockoutTime = 2
    EmailCap = 1
    Second = 2
    Never = Never
    Horizon = 4
    RequestBound = 4
SYMMETRY Symmetry
CHECK_DEADLOCK FALSE
INVARIANTS AdmissionTypeOK WindowLimit RetryAfterSuffices FailuresLimited
PROPERTY ForgottenOnlyWhenCrowded
