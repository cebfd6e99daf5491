SPECIFICATION CredentialFairSpec
CONSTANTS
    Providers = {openai, gemini, anthropic}
    DefaultProvider = openai
    NoProvider = NoProvider
    NoKey = NoKey
    ReplyErrors = {}
    MaxRequests = 1
INVARIANTS
    OperationLocked
    StatusTruthful
PROPERTIES
    OperationsEnd
