\* The key of a scope is the key of a conversation.
CONSTANTS
    Models <- PlainModel
    Scopes <- NestedScopes
    Conversations <- OneConversation
    Ttls = {}
    ConversationTtl = {}
    LastSecond = 1
    Queries = {q1}
    MaxInserts = 1
    MaxTime = 0
SPECIFICATION Spec
INVARIANTS
    NoForeignAnswer
