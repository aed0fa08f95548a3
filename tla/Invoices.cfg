\* A commission and a sale invoice, two workers, a replay that may overtake the first
\* attempt, a change of year.
CONSTANTS
    commissions = commissions
    sale = sale
    ann = ann
    bob = bob
    Tasks = {commissions, sale}
    Workers = {w1, w2}
    None = None
    maxAttempts = 1
    MaxRequeues = 1
    Parties = {ann, bob}
    Type <- MCType
    Recipients <- MCRecipients
    MaxYear = 2
SPECIFICATION InvoicingSpec
SYMMETRY InvoicingSymmetry
INVARIANTS
    InvoicingTypeOK
    NumberedInSequence
    CompletedInvoicesAll
PROPERTIES
    InvoicesAreFinal
\* Every task may be over, and then nothing happens any more.
CHECK_DEADLOCK FALSE
