\* One account, two calls at a time, one link, no call cut short.
SPECIFICATION AccountsSpec
CONSTANTS
    Emails = {"e"}
    Passwords = {"p"}
    Wallets = {"v"}
    Callers = {1, 2}
    LinkLife = 0
    FundingGap = 1
    NoRow = NoRow
    MaxTokens = 1
    LastTime = 0
    MaxCuts = 0
INVARIANTS
    SingleUse
CHECK_DEADLOCK FALSE
