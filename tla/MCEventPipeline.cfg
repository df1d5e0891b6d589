SPECIFICATION FairSpec
CONSTANTS
    Events = {1, 2}
    Relays = {r1}
    Consumers = {c1}
    Workers = {w1, w2}
    BatchSize = 1
    MaxAttempts = 2
    MaxRollbacks = 1
    MaxFailures = 2
CHECK_DEADLOCK FALSE
INVARIANTS
    NoLostEvent
    ExactlyOnceEffects
PROPERTIES
    AckedWasProcessed
    DeliverySpec
    Delivered
