\* Two orders, two requests of the artist at a time, three uploads.
CONSTANTS
    Orders = {o1, o2}
    Tabs = {t1, t2}
    Files = {f1, f2, f3}
    NoFile = NoFile
    MaxArtworkVersion = 4
SPECIFICATION Spec
SYMMETRY ArtworkSymmetry
INVARIANTS
    TypeOK
    ReservationBacked
    ExclusiveSoldOnce
    FilesOfArtworkStored
    NoStrayFiles
PROPERTIES
    PurchaseIsKept
\* The artwork may be deleted, and then nothing happens any more.
CHECK_DEADLOCK FALSE
