\* Everything the provider may answer: retries with a second charge, a replaced
\* customer, cancellations from the dashboard.
CONSTANTS
    Users = {u1}
    Artworks = {a1}
    Exclusive = {a1}
    Orders = {o1}
    Workers = {w1}
    Tabs = {t1}
    Prices = {p1}
    None = None
    Handlers = {"checkout", "repeat", "resume", "expiry", "monitor"}
    Outcomes = {"succeeded", "processing", "payment_failed", "requires_action", "canceled"}
    MaxVersion = 2
    MaxCharges = 2
    MaxCustomers = 2
SPECIFICATION Spec
SYMMETRY Symmetry
INVARIANTS
    NothingGivenUnpaid
    NoOrphanReservation
    SucceededByItsCharge
\* Every buyer may leave, and then nothing happens any more.
CHECK_DEADLOCK FALSE
