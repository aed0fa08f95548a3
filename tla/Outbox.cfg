\* Retries, takeovers and replays of the tasks of an order that is refunded; liveness, so
\* no symmetry.
CONSTANTS
    Refunds = {r1}
    Admins = {d1}
    Total = 1
    Nobody = Nobody
    Tasks <- RightsTasks
    Workers = {w1, w2}
    None = None
    maxAttempts = 2
    MaxRequeues = 1
    Kinds = {"rights"}
    Disputes = {}
    Downloaders = {}
    downloadLimit = 1
SPECIFICATION FairDeliverySpec
INVARIANTS
    RightsSettled
PROPERTIES
    CompletedIsFinal
    GivenUpWhenSpent
    TasksSettle
    RefundReachesRights
\* Every task may be over, and then nothing happens any more.
CHECK_DEADLOCK FALSE
