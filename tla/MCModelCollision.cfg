\* The key of a model is the key of another model and a scope.
CONSTANTS
    Models <- NestedModels
    Scopes <- ThreeAsScope
    Conversations = {}
    Ttls = {}
    ConversationTtl = {}
    LastSecond = 1
    Queries = {}
    MaxInserts = 1
    MaxTime = 0
SPECIFICATION Spec
PROPERTIES
    InvalidationStaysHome
