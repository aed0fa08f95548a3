\* Liveness: no symmetry, one handler at a time.
CONSTANTS
    Users = {u1}
    Artworks = {a1}
    Exclusive = {a1}
    Orders = {o1}
    Workers = {w1}
    Tabs = {t1}
    Prices = {p1, p2}
    None = None
    Handlers = {"checkout", "repeat", "resume", "expiry", "monitor"}
    Outcomes = {"succeeded", "processing", "payment_failed"}
    MaxVersion = 2
    MaxCharges = 1
    MaxCustomers = 1
SPECIFICATION FairSpec
INVARIANTS
    HeldAtListedPrice
PROPERTIES
    ExpiredReservationFreed
    CaptureReachesInventory
\* Every buyer may leave, and then nothing happens any more.
CHECK_DEADLOCK FALSE
