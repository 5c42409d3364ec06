SPECIFICATION FairSpec
CONSTANTS
    Modes = {"warn", "enforce"}
    Offsets <- MCOffsets
    Skew = 1
    MaxLifetime = 1
    TokenLives = {2}
    Retries = 2
    MaxExchanges = 5
    MaxFaults = 1
    MaxTime = 2
INVARIANTS TypeOK AnswerIsOwn RenewsTheLatest ClocksAgree HonestAnswerIsTaken
PROPERTIES NeverGoesBack ExchangeIsShort CallersAreAnswered
CHECK_DEADLOCK FALSE
