SPECIFICATION Spec
CONSTANTS
    MaxClears = 2
    MaxPrompts = 3
    MaxTwists = 2
INVARIANTS
    OnceEach
    OwnConversation
PROPERTIES
    ClearCompletes
