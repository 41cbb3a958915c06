SPECIFICATION FairSpec
CONSTANTS
    Jobs = {j1, j2}
    Socks = {s1, s2}
    QuietStart = TRUE
    LateReady = FALSE
    LongLived = TRUE
    MaxStarts = 2
    MaxCodes = 2
    MaxHappenings = 3
CHECK_DEADLOCK FALSE
INVARIANTS CredentialsStayGood OneConnection
PROPERTIES GivesUpOnlyIfRevoked ComesBack
