\* One buyer, two artworks, two carts in a row, two requests at a time.
CONSTANTS
    Users = {u1}
    Artworks = {a1, a2}
    Exclusive = {a1, a2}
    Orders = {o1, o2}
    Workers = {w1, w2}
    Tabs = {t1}
    Prices = {p1}
    None = None
    Handlers = {"checkout"}
    Outcomes = {"succeeded"}
    MaxVersion = 4
    MaxCharges = 1
    MaxCustomers = 1
SPECIFICATION Spec
SYMMETRY FullSymmetry
PROPERTIES
    SingleActiveCheckout
\* Every buyer may leave, and then nothing happens any more.
CHECK_DEADLOCK FALSE
