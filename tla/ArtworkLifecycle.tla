--------------------------- MODULE ArtworkLifecycle ---------------------------
(***************************************************************************)
(* One artwork from its publication to its deletion: the mutations of its  *)
(* artist (repositories/artwork.repository.js, with the rules of           *)
(* services/artwork-lifecycle.service.js and the media handling of         *)
(* routes/artist.routes.js), the moderator's, and the orders that take it. *)
(*                                                                         *)
(* A mutation is one serializable transaction that locks the row, looks at *)
(* the orders and reservations of the artwork and at the version its page  *)
(* showed.  Around it the request handler moves files: it reads the old    *)
(* ones before, stores the new ones, and deletes one or the other after.   *)
(* What buyers do is cut down to what it does to this artwork; Checkout    *)
(* models it in full.                                                      *)
(***************************************************************************)
EXTENDS Naturals, FiniteSets

CONSTANTS
    Orders,         \* orders that may be placed for the artwork
    Tabs,           \* requests of the artist in flight at the same time
    Files,          \* the files an upload stores: a new set for each upload
    NoFile,
    MaxArtworkVersion

ASSUME LifecycleAssumption == NoFile \notin Files /\ MaxArtworkVersion \in Nat \ {0}

VARIABLES
    artwork,        \* the row
    item,           \* [Orders -> order with its item and its reservation]
    store,          \* files in the storage
    tab,            \* [Tabs -> what the request handler is doing]
    lost            \* files whose request died before it could delete them

vars == <<artwork, item, store, tab, lost>>

\* PERSONAL and COMMERCIAL licences are alike to the rules: OPEN.
Licences     == {"OPEN", "EXCLUSIVE"}
Visibilities == {"PUBLISHED", "HIDDEN", "ARCHIVED"}
OrderStates  == {"NONE", "PENDING_PAYMENT", "PAYMENT_FAILED", "PAYMENT_REVIEW", "PAID",
                 "CANCELED"}

\* Among the types: the counters are those of the licence, in whatever order it changes
\* and copies are set aside, sold and given back.
TypeOK ==
    /\ artwork.stock <= IF artwork.licence = "EXCLUSIVE" THEN 1 ELSE 0
    /\ artwork.reserved <= artwork.stock
    /\ artwork \in [exists : BOOLEAN, visibility : Visibilities, approved : BOOLEAN,
                    licence : Licences, saleStatus : {"AVAILABLE", "SOLD_OUT"},
                    stock : 0 .. 1, reserved : 0 .. 1, file : Files,
                    version : 1 .. MaxArtworkVersion]
    /\ item \in [Orders -> [status : OrderStates, licence : Licences, linked : BOOLEAN,
                            reservation : {"none", "ACTIVE", "CONSUMED", "RELEASED"}]]
    /\ store \in SUBSET Files /\ lost \in SUBSET Files
    /\ tab \in [Tabs -> [step : {"idle", "write", "clean"}, seen : 1 .. MaxArtworkVersion,
                         new : Files \cup {NoFile}, old : Files, drop : Files \cup {NoFile}]]

Idle(f)   == [step |-> "idle", seen |-> 1, new |-> NoFile, old |-> f, drop |-> NoFile]
Unplaced  == [status |-> "NONE", licence |-> "OPEN", linked |-> FALSE, reservation |-> "none"]

InitialStock(licence) == IF licence = "EXCLUSIVE" THEN 1 ELSE 0

\* createArtwork, after its upload: published at once, and approved.
Init ==
    \E f \in Files, l \in Licences :
        /\ artwork = [exists |-> TRUE, visibility |-> "PUBLISHED", approved |-> TRUE,
                      licence |-> l, saleStatus |-> "AVAILABLE", stock |-> InitialStock(l),
                      reserved |-> 0, file |-> f, version |-> 1]
        /\ item = [o \in Orders |-> Unplaced]
        /\ store = {f} /\ lost = {}
        /\ tab = [t \in Tabs |-> Idle(f)]

-----------------------------------------------------------------------------
(* buildArtworkManagement.                                                 *)

Linked == {o \in Orders : item[o].linked}

\* Faulty variant: only the sales that consumed a reservation count.
hasConfirmedPurchase_reservedOnly == \E o \in Linked : item[o].reservation = "CONSUMED"

hasConfirmedPurchase == \E o \in Linked : item[o].status = "PAID"

\* Faulty variant: a reservation whose payment attempt failed is forgotten.
hasTransactionInProgress_ordersOnly ==
    \E o \in Linked : item[o].status \in {"PENDING_PAYMENT", "PAYMENT_REVIEW"}

hasTransactionInProgress ==
    \E o \in Linked : \/ item[o].status \in {"PENDING_PAYMENT", "PAYMENT_REVIEW"}
                      \/ item[o].reservation = "ACTIVE"

Archived == artwork.visibility = "ARCHIVED"

\* Faulty variant: an artwork that was sold may be edited again.
canEdit_afterSale == ~hasTransactionInProgress /\ ~Archived

canEdit    == ~hasConfirmedPurchase /\ ~hasTransactionInProgress /\ ~Archived

canHide    == artwork.visibility = "PUBLISHED"
canArchive == ~Archived /\ ~hasTransactionInProgress
canPublish == artwork.visibility = "HIDDEN" /\ artwork.approved
canRestore == Archived

-----------------------------------------------------------------------------
(* Edits and their files.                                                  *)

\* The request arrives, with the version its page shows; the handler reads the artwork
\* and stores the files of the request, if there are any.
BeginEdit(t, seen, new) ==
    /\ tab[t].step = "idle" /\ artwork.exists
    /\ new \notin store \cup lost \cup {artwork.file}
    /\ tab' = [tab EXCEPT ![t] = [step |-> "write", seen |-> seen, new |-> new,
                                  old |-> artwork.file, drop |-> NoFile]]
    /\ store' = store \cup ({new} \ {NoFile})
    /\ UNCHANGED <<artwork, item, lost>>

\* Faulty variant: the last writer wins.
Current_always(t) == artwork.exists

Current(t) == artwork.exists /\ artwork.version = tab[t].seen

Then(t, file) ==
    tab' = [tab EXCEPT ![t] = [@ EXCEPT !.drop = file,
                                        !.step = IF file = NoFile THEN "idle" ELSE "clean"]]

\* Faulty variant: the stock stays when the licence changes.
StockAfter_unchanged(licence) == artwork.stock

StockAfter(licence) ==
    IF licence = artwork.licence THEN artwork.stock ELSE InitialStock(licence)

\* A licence that changes starts over as on sale, with the stock of the new licence.
updateArtwork(t) ==
    /\ tab[t].step = "write"
    /\ canEdit /\ Current(t) /\ artwork.version < MaxArtworkVersion
    /\ \E l \in Licences :
         artwork' = [artwork EXCEPT
            !.licence    = l,
            !.saleStatus = IF l = artwork.licence THEN @ ELSE "AVAILABLE",
            !.stock      = StockAfter(l),
            !.file       = IF tab[t].new = NoFile THEN @ ELSE tab[t].new,
            !.version    = @ + 1]
    /\ Then(t, IF tab[t].new = NoFile THEN NoFile ELSE tab[t].old)
    /\ UNCHANGED <<item, store, lost>>

\* Refused, or the database is away: the handler takes back what it stored.
RejectEdit(t) ==
    /\ tab[t].step = "write"
    /\ Then(t, tab[t].new)
    /\ UNCHANGED <<artwork, item, store, lost>>

\* Faulty variant: the files of the artwork are replaced before the row is.
Dropped_old(t) == tab[t].old

Dropped(t) == tab[t].drop

deleteArtworkMediaAssets(t) ==
    /\ tab[t].step = "clean"
    /\ store' = store \ {Dropped(t)}
    /\ tab' = [tab EXCEPT ![t] = [@ EXCEPT !.step = "idle", !.drop = NoFile]]
    /\ UNCHANGED <<artwork, item, lost>>

\* The process dies, the storage refuses three times, or the preview cannot be made after
\* the original was stored: the files stay for ever.
AbandonFiles(t) ==
    /\ tab[t].step = "write" \/ tab[t].step = "clean"
    /\ lost' = lost \cup ({IF tab[t].step = "write" THEN tab[t].new ELSE tab[t].drop} \ {NoFile})
    /\ tab' = [tab EXCEPT ![t] = [@ EXCEPT !.step = "idle", !.drop = NoFile]]
    /\ UNCHANGED <<artwork, item, store>>

\* The row, its cart lines and ended reservations go; items of orders that were not paid
\* stay, without their artwork.  The files follow.
deleteArtwork(t) ==
    /\ tab[t].step = "idle" /\ artwork.exists /\ canEdit
    /\ artwork' = [artwork EXCEPT !.exists = FALSE]
    /\ item' = [o \in Orders |-> [item[o] EXCEPT !.linked = FALSE,
                                                 !.reservation = "none"]]
    /\ Then(t, artwork.file)
    /\ UNCHANGED <<store, lost>>

-----------------------------------------------------------------------------
(* Visibility.  A page that shows an older version is refused; a mutation  *)
(* already made is not made again, whatever the version.                   *)

MoveTo(can, visibility) ==
    /\ artwork.exists /\ can /\ artwork.version < MaxArtworkVersion
    /\ artwork' = [artwork EXCEPT !.visibility = visibility, !.version = @ + 1]
    /\ UNCHANGED <<item, store, tab, lost>>

hideArtwork    == MoveTo(canHide, "HIDDEN")
publishArtwork == MoveTo(canPublish, "PUBLISHED")
archiveArtwork == MoveTo(canArchive, "ARCHIVED")
restoreArtwork == MoveTo(canRestore, "HIDDEN")

\* The moderator neither locks the row nor changes its version.
updateArtworkModeration ==
    /\ artwork.exists
    /\ artwork' = [artwork EXCEPT !.approved = ~@]
    /\ UNCHANGED <<item, store, tab, lost>>

-----------------------------------------------------------------------------
(* Orders, as far as they touch the artwork.                               *)

Purchasable ==
    /\ artwork.exists /\ artwork.visibility = "PUBLISHED" /\ artwork.saleStatus = "AVAILABLE"
    /\ artwork.licence = "EXCLUSIVE" => artwork.stock = 1 /\ artwork.reserved = 0

\* The order keeps the licence it was placed under; an exclusive artwork is reserved.
PlaceOrder(o) ==
    /\ item[o].status = "NONE" /\ Purchasable
    /\ item' = [item EXCEPT ![o] =
            [status |-> "PENDING_PAYMENT", licence |-> artwork.licence, linked |-> TRUE,
             reservation |-> IF artwork.licence = "EXCLUSIVE" THEN "ACTIVE" ELSE "none"]]
    /\ artwork' = [artwork EXCEPT !.reserved = IF artwork.licence = "EXCLUSIVE" THEN 1 ELSE @]
    /\ UNCHANGED <<store, tab, lost>>

\* The card is refused: the reservation stays until the next attempt or the expiry.
FailPayment(o) ==
    /\ item[o].status = "PENDING_PAYMENT"
    /\ item' = [item EXCEPT ![o].status = "PAYMENT_FAILED"]
    /\ UNCHANGED <<artwork, store, tab, lost>>

\* A new attempt with the secret the browser still has.
RetryPayment(o) ==
    /\ item[o].status = "PAYMENT_FAILED"
    /\ item' = [item EXCEPT ![o].status = "PENDING_PAYMENT"]
    /\ UNCHANGED <<artwork, store, tab, lost>>

\* What was reserved is still there, as it was reserved.
Reserved == /\ artwork.exists /\ artwork.licence = "EXCLUSIVE"
            /\ artwork.saleStatus = "AVAILABLE" /\ artwork.stock = 1 /\ artwork.reserved = 1

\* The capture is finalized: the reservation is consumed, or the order is put in review.
PayOrder(o) ==
    /\ item[o].status \in {"PENDING_PAYMENT", "PAYMENT_FAILED"}
    /\ IF item[o].reservation # "ACTIVE"
       THEN item' = [item EXCEPT ![o].status = "PAID"] /\ UNCHANGED artwork
       ELSE IF Reserved
       THEN /\ item' = [item EXCEPT ![o] = [@ EXCEPT !.status = "PAID",
                                                    !.reservation = "CONSUMED"]]
            /\ artwork' = [artwork EXCEPT !.stock = 0, !.reserved = 0,
                                          !.saleStatus = "SOLD_OUT"]
       ELSE item' = [item EXCEPT ![o].status = "PAYMENT_REVIEW"] /\ UNCHANGED artwork
    /\ UNCHANGED <<store, tab, lost>>

Released(reservation) == IF reservation = "ACTIVE" THEN "RELEASED" ELSE reservation

\* Canceled or expired, at the provider first.
CancelOrder(o) ==
    /\ item[o].status \in {"PENDING_PAYMENT", "PAYMENT_FAILED"}
    /\ item' = [item EXCEPT ![o].status = "CANCELED",
                            ![o].reservation = Released(item[o].reservation)]
    /\ artwork' = [artwork EXCEPT !.reserved =
            IF item[o].reservation = "ACTIVE" /\ Reserved THEN 0 ELSE @]
    /\ UNCHANGED <<store, tab, lost>>

-----------------------------------------------------------------------------
ArtistStep ==
    \/ \E t \in Tabs :
        \/ \E seen \in 1 .. artwork.version, new \in Files \cup {NoFile} : BeginEdit(t, seen, new)
        \/ updateArtwork(t) \/ RejectEdit(t) \/ deleteArtworkMediaAssets(t)
        \/ AbandonFiles(t) \/ deleteArtwork(t)
    \/ hideArtwork \/ publishArtwork \/ archiveArtwork \/ restoreArtwork

Next ==
    \/ ArtistStep
    \/ updateArtworkModeration
    \/ \E o \in Orders : \/ PlaceOrder(o) \/ FailPayment(o) \/ RetryPayment(o)
                         \/ PayOrder(o) \/ CancelOrder(o)

Spec == Init /\ [][Next]_vars

-----------------------------------------------------------------------------
(* Properties.                                                             *)

\* Whatever the artist edits meanwhile, in as many pages, an order that holds the artwork
\* finds it as it was reserved: exclusive, on sale, its one copy set aside
\* (canEdit counts reservations, not only orders being paid).
ReservationBacked ==
    \A o \in Orders : item[o].reservation = "ACTIVE" => Reserved

\* The exclusive licence is sold once, although changing the licence back and forth
\* starts the stock over (updateArtwork, PlaceOrder and PayOrder together).
ExclusiveSoldOnce ==
    Cardinality({o \in Orders : item[o].status = "PAID" /\ item[o].licence = "EXCLUSIVE"}) <= 1

\* What a buyer has paid for is neither replaced nor deleted afterwards.
PurchaseIsKept ==
    [][(\E o \in Linked : item[o].status = "PAID")
        => /\ artwork'.exists /\ artwork'.file = artwork.file
           /\ artwork'.licence = artwork.licence]_vars

\* The files of the artwork are in the storage, although requests delete what they read
\* before other requests wrote.
FilesOfArtworkStored == artwork.exists => artwork.file \in store

Cleaning == {tab[t].drop : t \in {u \in Tabs : tab[u].step = "clean"}}
Writing  == {tab[t].new : t \in {u \in Tabs : tab[u].step = "write"}}

\* Nothing else stays: refused and concurrent edits take back their own files, and an
\* edit that goes through deletes those it replaced.
NoStrayFiles ==
    store \subseteq lost \cup Cleaning \cup Writing
                     \cup IF artwork.exists THEN {artwork.file} ELSE {}
=============================================================================
