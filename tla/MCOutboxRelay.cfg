SPECIFICATION OutboxSpec
CONSTANTS
    Events = {1, 2, 3}
    Relays = {r1, r2}
    Consumers = {c1, c2}
    BatchSize = 2
    MaxAttempts = 2
    MaxRollbacks = 1
SYMMETRY Symmetry
CHECK_DEADLOCK FALSE
INVARIANTS
    OutboxTypeOK
    PublishBound
    DispatchedWasQueued
    GivenUpHasError
PROPERTY
    DispatchedIsFinal
