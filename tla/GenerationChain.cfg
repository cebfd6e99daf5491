SPECIFICATION Spec
CONSTANTS
    Providers = {openai}
    DefaultProvider = openai
    NoProvider = NoProvider
    NoKey = NoKey
    ReplyErrors = {"Server"}
    MaxRequests = 3
PROPERTIES
    ReportedOnce
    FailureKeepsResult
    ImplementsConversation
