SPECIFICATION Spec
CONSTANTS
    Providers = {openai, gemini}
    DefaultProvider = openai
    NumFeatures = 6
    MinQuick = 3
    MaxQuick = 5
    MaxChanges = 2
INVARIANTS
    SavedMeansSaved
    ProviderFieldsOwn
    EveryActionReachable
