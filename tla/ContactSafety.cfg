SPECIFICATION ExSpec
CONSTANTS
    Answers <- MCAnswers
    RetryCount = 2
    MaxCalls = 2
INVARIANTS
    TypeOK
    RefusalFails
    AcceptedIsNewest
    FailureExplained
PROPERTY
    ImplementsExchange
