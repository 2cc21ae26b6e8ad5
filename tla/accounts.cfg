SPECIFICATION FairSpec
CONSTANTS
    Clients = {c1, c2}
    Emails = {e}
    Passwords = {p, q}
    Unfit = unfit
    IntVars <- TwoVars
    ExpiryVar = "JWT_EXPIRY_HOURS"
    PortVar = "SERVER_PORT"
    DefaultExpiry = 1
    DefaultPort = 8080
    Numbers <- ZeroOrLess
    Unset = Unset
    Garbage = Garbage
    Attempts = 2
    MaxClock = 1
    MaxId = 2
    MaxFaults = 2
    None = None
INVARIANTS TokenSpeaksForOwner OneOwnerPerAddress
PROPERTIES AnswersTrue ImplementsRegistry ServesAtLast
