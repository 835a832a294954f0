SPECIFICATION MCSpec
CONSTANTS
    Cap = 1
    MaxItems = 5
    Names = {"a", "b"}
    Types = {"anthropic", "openai", "openrouter"}
    MaxModels = 2
    Openings <- MCOpenings
    MaxMessages = 7
    MaxBlocks = 2
INVARIANTS
    TypesOK
    StreamIsTranscript
    CutIsReported
    DefaultIsOldest
    SystemGoverns
    CallsAreLinked
PROPERTIES
    ReaderIsReleased
    ErrorFreesGoroutine
\* The stream is over or the conversation has its last message.
CHECK_DEADLOCK FALSE
