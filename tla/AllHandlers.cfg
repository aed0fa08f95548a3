\* Every handler, two at a time, around one order.
CONSTANTS
    Users = {u1}
    Artworks = {a1}
    Exclusive = {a1}
    Orders = {o1}
    Workers = {w1, w2}
    Tabs = {t1}
    Prices = {p1}
    None = None
    Handlers = {"checkout", "repeat", "resume", "expiry", "monitor"}
    Outcomes = {"succeeded", "processing", "payment_failed"}
    MaxVersion = 2
    MaxCharges = 1
    MaxCustomers = 1
SPECIFICATION Spec
SYMMETRY Symmetry
INVARIANTS
    TypeOK
    FinalizedTogether
PROPERTIES
    OnlyStaleResumeReopensPaid
    ReservationEndsOnce
\* Every buyer may leave, and then nothing happens any more.
CHECK_DEADLOCK FALSE
