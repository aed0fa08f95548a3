\* A refund and a dispute while two workers deliver, and two downloads at a time.
CONSTANTS
    Refunds = {r1}
    Admins = {d1}
    Total = 1
    Nobody = Nobody
    Tasks <- RightsTasks
    Workers = {w1, w2}
    None = None
    maxAttempts = 1
    MaxRequeues = 0
    Kinds = {"rights"}
    Disputes = {p1}
    Downloaders = {u1, u2}
    downloadLimit = 1
SPECIFICATION DeliverySpec
SYMMETRY DeliverySymmetry
INVARIANTS
    DeliveryTypeOK
    RightsSettled
    DownloadsBounded
\* Every task may be over, and then nothing happens any more.
CHECK_DEADLOCK FALSE
