SPECIFICATION FairSpec
CONSTANTS
    Providers = {openai}
    DefaultProvider = openai
    NoProvider = NoProvider
    NoKey = NoKey
    ReplyErrors = {"Server"}
    MaxRequests = 2
PROPERTIES
    AIRequestEnds
