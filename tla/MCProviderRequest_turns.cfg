\* Every adapter over both stores: two answers of up to two calls, two messages of the user.
CONSTANTS
    Adapters = {"openai", "anthropic", "gemini", "qwen"}
    Stores = {"memory", "postgres"}
    Thinkings <- OneOrTwoBlocks
    MaxAnswers = 2
    MaxCalls = 2
    MaxUser = 2
SPECIFICATION Spec
INVARIANTS ConversationInv Paired ThinkingGoesOn ResultsNext
CHECK_DEADLOCK FALSE
