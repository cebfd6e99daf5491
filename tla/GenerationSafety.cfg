SPECIFICATION Spec
CONSTANTS
    Providers = {openai, gemini}
    DefaultProvider = openai
    NoProvider = NoProvider
    NoKey = NoKey
    ReplyErrors = {"Server"}
    MaxRequests = 2
INVARIANTS
    SecretWaitIsCurrent
    CompletionIsCurrent
    SomebodyWorks
    WireKeyIsStored
    CardAgrees
    ControlsFresh
    ReplyNotIgnored
    LocksMatchWork
PROPERTIES
    ResultFromOwnContext
