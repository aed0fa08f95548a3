\* Two buyers want the same artwork and their requests interleave.
CONSTANTS
    Users = {u1, u2}
    Artworks = {a1}
    Exclusive = {a1}
    Orders = {o1, o2}
    Workers = {w1, w2}
    Tabs = {t1}
    Prices = {p1}
    None = None
    Handlers = {"checkout", "repeat"}
    Outcomes = {"succeeded"}
    MaxVersion = 2
    MaxCharges = 1
    MaxCustomers = 1
SPECIFICATION Spec
SYMMETRY Symmetry
INVARIANTS
    NoDoubleAllocation
    InventoryConsistent
PROPERTIES
    ImplementsAllocation
\* Every buyer may leave, and then nothing happens any more.
CHECK_DEADLOCK FALSE
