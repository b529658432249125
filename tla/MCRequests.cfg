CONSTANTS
    Models <- TwoModels
    Scopes <- OneScope
    Conversations <- TwoConversations
    Ttls = {1}
    ConversationTtl <- AtOnce
    LastSecond = 1
    Queries = {q1}
    MaxInserts = 2
    MaxTime = 1
SPECIFICATION Spec
INVARIANTS
    NoForeignAnswer
    NothingOverlooked
    NeverBornExpired
PROPERTIES
    InvalidationStaysHome
