SPECIFICATION FairSpec
CONSTANTS
    Messages = {m1, m2}
    Consumers = {c1, c2}
    Legacy = {c2}
    Capacity = 1
    Limit = 1
    Answered = {m1}
    Retries = 2
    MaxFaults = 2
CHECK_DEADLOCK FALSE
INVARIANTS HeldUntilConsumed WebhookAnswersOnce
PROPERTIES EveryEventIsConsumed
