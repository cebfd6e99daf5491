SPECIFICATION FairSpec
CONSTANTS
    Providers = {openai, gemini}
    DefaultProvider = openai
    NoProvider = NoProvider
    NoKey = NoKey
    ReplyErrors = {"Server", "Refused"}
    MaxRequests = 3
INVARIANTS
    CancelsItsOwn
PROPERTIES
    AnsweredOnce
    EveryoneAnswered
CHECK_DEADLOCK FALSE
