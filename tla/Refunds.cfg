\* Three requests, two at a time, refunds that come back, events in any order.
CONSTANTS
    Refunds = {r1, r2, r3}
    Admins = {d1, d2}
    Total = 3
    Nobody = Nobody
SPECIFICATION RefundsSpec
SYMMETRY RefundSymmetry
INVARIANTS
    RefundsTypeOK
    NeverOverRefunded
    OrderMatchesRefunds
    SettledByFirstVerdict
\* Every refund may be over, and then nothing happens any more.
CHECK_DEADLOCK FALSE
