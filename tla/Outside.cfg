SPECIFICATION FairSpec
CONSTANTS
    Regs = {r1, r2}
    Names = {n1}
    Keys = {k1}
    Mails = {m1}
    Reqs = {q1, q2}
    None = None
    Native = Native
    MaxAdmin = 3
    MaxCalls = 2
    MaxFaults = 1
    MaxTokens = 6
    MaxAttempts = 2
INVARIANTS
    MailOnce
    PrincipalsHold
    GrantsHold
PROPERTIES
    AnswersStand
    EventsArrive
CHECK_DEADLOCK FALSE
