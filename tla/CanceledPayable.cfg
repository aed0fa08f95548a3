\* A checkout whose provider call failed expires, then the browser repeats it.
CONSTANTS
    Users = {u1}
    Artworks = {a1}
    Exclusive = {a1}
    Orders = {o1}
    Workers = {w1}
    Tabs = {t1}
    Prices = {p1}
    None = None
    Handlers = {"checkout", "repeat", "expiry"}
    Outcomes = {"succeeded"}
    MaxVersion = 2
    MaxCharges = 1
    MaxCustomers = 1
SPECIFICATION Spec
INVARIANTS
    CanceledIsNotPayable
\* Every buyer may leave, and then nothing happens any more.
CHECK_DEADLOCK FALSE
