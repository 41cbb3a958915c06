SPECIFICATION FairSpec
CONSTANTS
    Callers = {c1, c2}
    Ops = {o1, o2}
    Amounts = {1, 2}
    SpendLimit = 2
    ActionLimit = 2
    Threshold = 1
    Declares = {o1}
    None = None
    ToolGrants <- MCToolGrants
    DataGrants <- MCDataGrants
    Terms <- MCTerms
    Uses <- MCUses
    MaxCalls = 3
    MaxDays = 1
    MaxCrashes = 1
    MaxFails = 1
CHECK_DEADLOCK FALSE
INVARIANTS BooksAgree HappenedAsApproved EndedMandateStopsTheLine JudgedByPolicy PolicyIsSound
PROPERTIES EveryCallReturns
