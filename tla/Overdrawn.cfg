\* Two requests of an artist who has earned three euros.
CONSTANTS
    Requests = {r1, r2}
    Reviewers = {v1, v2}
    Nobody = Nobody
    balance = 3
    minimumAmount = 2
SPECIFICATION Spec
SYMMETRY WithdrawalSymmetry
INVARIANTS
    NeverOverdrawn
CHECK_DEADLOCK FALSE
