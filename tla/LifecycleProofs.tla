---------------------------- MODULE LifecycleProofs ----------------------------
(***************************************************************************)
(* The artwork under the edits of its artist and the orders of its buyers: *)
(* proofs for every number of orders, requests and files.                  *)
(***************************************************************************)
EXTENDS ArtworkLifecycle, FiniteSetTheorems, TLAPS

\* A copy set aside is held by an order, and by one only.
HeldByOne ==
    /\ \A o \in Orders : item[o].linked => artwork.exists
    /\ \A o \in Orders : item[o].reservation = "ACTIVE" => item[o].linked
    /\ \A o, p \in Orders :
          item[o].reservation = "ACTIVE" /\ item[p].reservation = "ACTIVE" => o = p
    /\ artwork.reserved = 1 => \E o \in Orders : item[o].reservation = "ACTIVE"

\* An exclusive order holds its copy until it is paid, and keeps the artwork as it was sold.
ExclusiveOrders ==
    /\ \A o \in Orders : item[o].licence = "EXCLUSIVE"
                         /\ item[o].status \in {"PENDING_PAYMENT", "PAYMENT_FAILED"}
                         => item[o].reservation = "ACTIVE"
    /\ \A o \in Orders : item[o].licence = "EXCLUSIVE" /\ item[o].status = "PAID"
                         => /\ item[o].linked /\ item[o].reservation # "ACTIVE"
                            /\ artwork.exists /\ artwork.stock = 0
    /\ \A o, p \in Orders : /\ item[o].licence = "EXCLUSIVE" /\ item[o].status = "PAID"
                            /\ item[p].licence = "EXCLUSIVE" /\ item[p].status = "PAID"
                            => o = p

OrdersInv == HeldByOne /\ ReservationBacked /\ ExclusiveOrders

Writes(t) == tab[t].step = "write"
Cleans(t) == tab[t].step = "clean"

\* The file of a request is its own, stored, and not yet the artwork's.
UploadsApart ==
    \A t \in Tabs : Writes(t) /\ tab[t].new # NoFile =>
        /\ tab[t].new \in store /\ tab[t].new # artwork.file
        /\ \A u \in Tabs \ {t} : /\ Writes(u) => tab[u].new # tab[t].new
                                 /\ Cleans(u) => tab[u].drop # tab[t].new

\* A file to be deleted belongs to that request, and to the artwork no more.
DropsApart ==
    \A t \in Tabs : Cleans(t) =>
        /\ tab[t].drop \in store /\ (artwork.exists => tab[t].drop # artwork.file)
        /\ \A u \in Tabs \ {t} : Cleans(u) => tab[u].drop # tab[t].drop

\* A page shows an older version, or the file the request has read.
PagesTrue ==
    \A t \in Tabs : Writes(t) =>
        /\ tab[t].seen <= artwork.version
        /\ artwork.exists /\ tab[t].seen = artwork.version => tab[t].old = artwork.file

FilesInv == UploadsApart /\ DropsApart /\ PagesTrue /\ FilesOfArtworkStored /\ NoStrayFiles

Inv == TypeOK /\ OrdersInv /\ FilesInv

ArtworkRows == [exists : BOOLEAN, visibility : Visibilities, approved : BOOLEAN,
                licence : Licences, saleStatus : {"AVAILABLE", "SOLD_OUT"},
                stock : 0 .. 1, reserved : 0 .. 1, file : Files,
                version : 1 .. MaxArtworkVersion]
ItemRows == [status : OrderStates, licence : Licences, linked : BOOLEAN,
             reservation : {"none", "ACTIVE", "CONSUMED", "RELEASED"}]
TabRows == [step : {"idle", "write", "clean"}, seen : 1 .. MaxArtworkVersion,
            new : Files \cup {NoFile}, old : Files, drop : Files \cup {NoFile}]

CountersFit(a) == /\ a.stock <= IF a.licence = "EXCLUSIVE" THEN 1 ELSE 0
                  /\ a.reserved <= a.stock

LEMMA Types ==
    TypeOK <=> /\ artwork \in ArtworkRows /\ CountersFit(artwork)
               /\ item \in [Orders -> ItemRows]
               /\ store \in SUBSET Files /\ lost \in SUBSET Files
               /\ tab \in [Tabs -> TabRows]
  BY DEF TypeOK, ArtworkRows, CountersFit, ItemRows, TabRows

LEMMA TypesNext ==
    TypeOK' <=> /\ artwork' \in ArtworkRows /\ CountersFit(artwork')
                /\ item' \in [Orders -> ItemRows]
                /\ store' \in SUBSET Files /\ lost' \in SUBSET Files
                /\ tab' \in [Tabs -> TabRows]
  BY DEF TypeOK, ArtworkRows, CountersFit, ItemRows, TabRows

(***************************************************************************)
(* What a step does not look at it does not disturb.                       *)
(***************************************************************************)
LEMMA OrdersFrame ==
    ASSUME OrdersInv, item' = item, artwork' = artwork
    PROVE  OrdersInv'
  BY DEF OrdersInv, HeldByOne, ReservationBacked, Reserved, ExclusiveOrders

\* Moves that leave counters and licence alone.
LEMMA OrdersKept ==
    ASSUME OrdersInv, item' = item,
           artwork'.exists = artwork.exists, artwork'.licence = artwork.licence,
           artwork'.saleStatus = artwork.saleStatus, artwork'.stock = artwork.stock,
           artwork'.reserved = artwork.reserved
    PROVE  OrdersInv'
  BY DEF OrdersInv, HeldByOne, ReservationBacked, Reserved, ExclusiveOrders

LEMMA FilesFrame ==
    ASSUME TypeOK, TypeOK', FilesInv, UNCHANGED <<store, tab, lost>>,
           artwork'.exists = artwork.exists, artwork'.file = artwork.file,
           artwork'.version >= artwork.version
    PROVE  FilesInv'
<1>1. artwork.version \in Nat /\ artwork'.version \in Nat
      /\ \A t \in Tabs : tab[t].seen \in Nat
  BY Types, TypesNext, LifecycleAssumption DEF ArtworkRows, TabRows
<1>2. UploadsApart' /\ DropsApart'
  BY DEF FilesInv, UploadsApart, DropsApart, Writes, Cleans
<1>3. PagesTrue'
  BY <1>1 DEF FilesInv, PagesTrue, Writes
<1>4. FilesOfArtworkStored' /\ NoStrayFiles'
  BY DEF FilesInv, FilesOfArtworkStored, NoStrayFiles, Cleaning, Writing
<1> QED BY <1>2, <1>3, <1>4 DEF FilesInv

LEMMA Starts == Init => Inv
<1> SUFFICES ASSUME Init PROVE Inv
  OBVIOUS
<1>0. PICK f \in Files, l \in Licences :
        /\ artwork = [exists |-> TRUE, visibility |-> "PUBLISHED", approved |-> TRUE,
                      licence |-> l, saleStatus |-> "AVAILABLE", stock |-> InitialStock(l),
                      reserved |-> 0, file |-> f, version |-> 1]
        /\ item = [o \in Orders |-> Unplaced]
        /\ store = {f} /\ lost = {}
        /\ tab = [t \in Tabs |-> Idle(f)]
  BY DEF Init
<1>1. TypeOK
  <2>1. artwork \in ArtworkRows /\ CountersFit(artwork)
    BY <1>0, LifecycleAssumption DEF ArtworkRows, CountersFit, Visibilities, Licences, InitialStock
  <2>2. item \in [Orders -> ItemRows]
    BY <1>0 DEF ItemRows, OrderStates, Licences, Unplaced
  <2>3. tab \in [Tabs -> TabRows]
    BY <1>0, LifecycleAssumption DEF TabRows, Idle
  <2> QED BY <1>0, <2>1, <2>2, <2>3, Types
<1>2. OrdersInv
  BY <1>0 DEF OrdersInv, HeldByOne, ReservationBacked, ExclusiveOrders, Unplaced
<1>3. FilesInv
  BY <1>0 DEF FilesInv, UploadsApart, DropsApart, PagesTrue, Writes, Cleans, Idle,
              FilesOfArtworkStored, NoStrayFiles
<1> QED BY <1>1, <1>2, <1>3 DEF Inv

(***************************************************************************)
(* Orders.                                                                 *)
(***************************************************************************)
LEMMA PlaceOrderKeeps ==
    ASSUME Inv, NEW o \in Orders, PlaceOrder(o)
    PROVE  Inv'
<1> DEFINE row == [status |-> "PENDING_PAYMENT", licence |-> artwork.licence, linked |-> TRUE,
                   reservation |-> IF artwork.licence = "EXCLUSIVE" THEN "ACTIVE" ELSE "none"]
<1>0. /\ item[o].status = "NONE" /\ Purchasable
      /\ item' = [item EXCEPT ![o] = row]
      /\ artwork' = [artwork EXCEPT !.reserved =
                        IF artwork.licence = "EXCLUSIVE" THEN 1 ELSE artwork.reserved]
      /\ UNCHANGED <<store, tab, lost>>
  BY DEF PlaceOrder
<1>1. artwork \in ArtworkRows /\ CountersFit(artwork) /\ item \in [Orders -> ItemRows]
  BY Types DEF Inv
<1>2. artwork' \in ArtworkRows /\ CountersFit(artwork')
      /\ artwork'.exists = artwork.exists /\ artwork'.licence = artwork.licence
      /\ artwork'.saleStatus = artwork.saleStatus /\ artwork'.stock = artwork.stock
      /\ artwork'.file = artwork.file /\ artwork'.version = artwork.version
      /\ artwork'.reserved = IF artwork.licence = "EXCLUSIVE" THEN 1 ELSE artwork.reserved
  BY <1>0, <1>1 DEF ArtworkRows, CountersFit, Purchasable
<1>3. row \in ItemRows
  BY <1>1 DEF ArtworkRows, ItemRows, OrderStates
<1>4. TypeOK'
  BY <1>0, <1>1, <1>2, <1>3, Types, TypesNext DEF Inv
<1>5. FilesInv'
  BY <1>0, <1>1, <1>2, <1>4, FilesFrame, LifecycleAssumption DEF Inv, ArtworkRows
<1>6. \A p \in Orders : item'[p] = IF p = o THEN row ELSE item[p]
  BY <1>0, <1>1
<1>7. artwork.licence = "EXCLUSIVE" =>
        /\ \A p \in Orders : item[p].reservation # "ACTIVE"
        /\ artwork.stock = 1 /\ artwork.exists /\ artwork.saleStatus = "AVAILABLE"
  BY <1>0 DEF Inv, OrdersInv, ReservationBacked, Reserved, Purchasable
<1>8. artwork.licence # "EXCLUSIVE" => artwork.stock = 0 /\ artwork.reserved = 0
  BY <1>1 DEF CountersFit, ArtworkRows
<1>9. HeldByOne'
  BY <1>0, <1>2, <1>6, <1>7, <1>8 DEF Inv, OrdersInv, HeldByOne, Purchasable
<1>10. ReservationBacked'
  BY <1>2, <1>6, <1>7, <1>8 DEF Inv, OrdersInv, ReservationBacked, Reserved
<1>11. ExclusiveOrders'
  BY <1>2, <1>6, <1>7, <1>8 DEF Inv, OrdersInv, ExclusiveOrders
<1> QED BY <1>4, <1>5, <1>9, <1>10, <1>11 DEF Inv, OrdersInv

\* The payment attempts of an order, as long as it is open.
LEMMA AttemptKeeps ==
    ASSUME Inv, NEW o \in Orders, FailPayment(o) \/ RetryPayment(o)
    PROVE  Inv'
<1>0. PICK s \in {"PENDING_PAYMENT", "PAYMENT_FAILED"} :
        /\ item[o].status \in {"PENDING_PAYMENT", "PAYMENT_FAILED"}
        /\ item' = [item EXCEPT ![o].status = s]
        /\ UNCHANGED <<artwork, store, tab, lost>>
  BY DEF FailPayment, RetryPayment
<1>1. item \in [Orders -> ItemRows] /\ artwork \in ArtworkRows
  BY Types DEF Inv
<1>2. [item[o] EXCEPT !.status = s] \in ItemRows
  BY <1>1 DEF ItemRows, OrderStates
<1>3. TypeOK'
  BY <1>0, <1>1, <1>2, Types, TypesNext DEF Inv
<1>4. FilesInv'
  BY <1>0, <1>1, <1>3, FilesFrame, LifecycleAssumption DEF Inv, ArtworkRows
<1>5. \A p \in Orders : /\ item'[p].licence = item[p].licence
                        /\ item'[p].linked = item[p].linked
                        /\ item'[p].reservation = item[p].reservation
                        /\ item'[p].status = IF p = o THEN s ELSE item[p].status
  BY <1>0, <1>1 DEF ItemRows
<1>6. OrdersInv'
  BY <1>0, <1>5 DEF Inv, OrdersInv, HeldByOne, ReservationBacked, Reserved, ExclusiveOrders
<1> QED BY <1>3, <1>4, <1>6 DEF Inv

LEMMA PayOrderKeeps ==
    ASSUME Inv, NEW o \in Orders, PayOrder(o)
    PROVE  Inv'
<1>1. item \in [Orders -> ItemRows] /\ artwork \in ArtworkRows /\ CountersFit(artwork)
  BY Types DEF Inv
<1>2. item[o].status \in {"PENDING_PAYMENT", "PAYMENT_FAILED"} /\ UNCHANGED <<store, tab, lost>>
  BY DEF PayOrder
<1>3. CASE item[o].reservation # "ACTIVE"
  <2>0. item' = [item EXCEPT ![o].status = "PAID"] /\ artwork' = artwork
    BY <1>3 DEF PayOrder
  <2>1. TypeOK'
    BY <1>1, <1>2, <2>0, Types, TypesNext DEF Inv, ItemRows, OrderStates
  <2>2. FilesInv'
    BY <1>1, <1>2, <2>0, <2>1, FilesFrame, LifecycleAssumption DEF Inv, ArtworkRows
  <2>3. \A p \in Orders : /\ item'[p].licence = item[p].licence
                          /\ item'[p].linked = item[p].linked
                          /\ item'[p].reservation = item[p].reservation
                          /\ item'[p].status = IF p = o THEN "PAID" ELSE item[p].status
    BY <1>1, <2>0 DEF ItemRows
  <2>4. item[o].licence # "EXCLUSIVE"
    BY <1>2, <1>3 DEF Inv, OrdersInv, ExclusiveOrders
  <2>5. OrdersInv'
    BY <1>2, <2>0, <2>3, <2>4
       DEF Inv, OrdersInv, HeldByOne, ReservationBacked, Reserved, ExclusiveOrders
  <2> QED BY <2>1, <2>2, <2>5 DEF Inv
<1>4. CASE item[o].reservation = "ACTIVE"
  <2>0. Reserved /\ item[o].linked
    BY <1>4 DEF Inv, OrdersInv, ReservationBacked, HeldByOne
  <2>1. /\ item' = [item EXCEPT ![o] = [item[o] EXCEPT !.status = "PAID",
                                                      !.reservation = "CONSUMED"]]
        /\ artwork' = [artwork EXCEPT !.stock = 0, !.reserved = 0, !.saleStatus = "SOLD_OUT"]
    BY <1>4, <2>0 DEF PayOrder
  <2>2. artwork' \in ArtworkRows /\ CountersFit(artwork')
        /\ artwork'.stock = 0 /\ artwork'.reserved = 0
        /\ artwork'.exists = artwork.exists /\ artwork'.file = artwork.file
        /\ artwork'.version = artwork.version
    <3> DEFINE sold == [artwork EXCEPT !.stock = 0, !.reserved = 0, !.saleStatus = "SOLD_OUT"]
    <3>1. sold \in ArtworkRows
      <4> DEFINE unstocked == [artwork EXCEPT !.stock = 0]
                 empty     == [unstocked EXCEPT !.reserved = 0]
      <4>2. unstocked \in ArtworkRows
        BY <1>1 DEF ArtworkRows
      <4> HIDE DEF unstocked
      <4>3. empty \in ArtworkRows
        BY <4>2 DEF ArtworkRows
      <4> HIDE DEF empty
      <4>4. [empty EXCEPT !.saleStatus = "SOLD_OUT"] \in ArtworkRows
        BY <4>3 DEF ArtworkRows
      <4> QED BY <4>4 DEF empty, unstocked
    <3>2. sold.stock = 0 /\ sold.reserved = 0 /\ sold.exists = artwork.exists
          /\ sold.file = artwork.file /\ sold.version = artwork.version
      BY <1>1 DEF ArtworkRows
    <3>3. CountersFit(sold)
      BY <3>2 DEF CountersFit
    <3> HIDE DEF sold
    <3>4. artwork' = sold
      BY <2>1 DEF sold
    <3> QED BY <3>1, <3>2, <3>3, <3>4
  <2>3. item' \in [Orders -> ItemRows]
    BY <1>1, <2>1 DEF ItemRows, OrderStates
  <2>4. TypeOK'
    BY <1>2, <2>2, <2>3, Types, TypesNext DEF Inv
  <2>5. FilesInv'
    BY <1>1, <1>2, <2>2, <2>4, FilesFrame, LifecycleAssumption DEF Inv, ArtworkRows
  <2>6. \A p \in Orders :
           /\ item'[p].licence = item[p].licence
           /\ item'[p].linked = item[p].linked
           /\ item'[p].reservation = IF p = o THEN "CONSUMED" ELSE item[p].reservation
           /\ item'[p].status = IF p = o THEN "PAID" ELSE item[p].status
    BY <1>1, <2>1 DEF ItemRows
  <2>7. \A p \in Orders : item'[p].reservation # "ACTIVE"
    BY <1>4, <2>6 DEF Inv, OrdersInv, HeldByOne
  <2>8. \A p \in Orders : ~(item[p].licence = "EXCLUSIVE" /\ item[p].status = "PAID")
    BY <2>0 DEF Inv, OrdersInv, ExclusiveOrders, Reserved
  <2>9. HeldByOne' /\ ReservationBacked'
    BY <2>2, <2>6, <2>7 DEF Inv, OrdersInv, HeldByOne, ReservationBacked
  <2>10. \A p \in Orders :
            item'[p].licence = "EXCLUSIVE" /\ item'[p].status = "PAID" => p = o
    BY <2>6, <2>8
  <2>11. \A p \in Orders :
            ~(item'[p].licence = "EXCLUSIVE" /\ item'[p].status \in {"PENDING_PAYMENT", "PAYMENT_FAILED"})
    BY <1>4, <2>6 DEF Inv, OrdersInv, HeldByOne, ExclusiveOrders
  <2>12. ExclusiveOrders'
    BY <2>0, <2>2, <2>6, <2>7, <2>10, <2>11 DEF ExclusiveOrders, Reserved
  <2> QED BY <2>4, <2>5, <2>9, <2>12 DEF Inv, OrdersInv
<1> QED BY <1>3, <1>4

LEMMA CancelOrderKeeps ==
    ASSUME Inv, NEW o \in Orders, CancelOrder(o)
    PROVE  Inv'
<1> DEFINE left == Released(item[o].reservation)
           back == IF item[o].reservation = "ACTIVE" THEN 0 ELSE artwork.reserved
<1>1. item \in [Orders -> ItemRows] /\ artwork \in ArtworkRows /\ CountersFit(artwork)
  BY Types DEF Inv
<1>2. /\ item[o].status \in {"PENDING_PAYMENT", "PAYMENT_FAILED"}
      /\ item' = [item EXCEPT ![o] = [item[o] EXCEPT !.status = "CANCELED", !.reservation = left]]
      /\ artwork' = [artwork EXCEPT !.reserved = back]
      /\ UNCHANGED <<store, tab, lost>>
  <2>1. item' = [item EXCEPT ![o].status = "CANCELED", ![o].reservation = left]
    BY DEF CancelOrder
  <2>2. item' = [item EXCEPT ![o] = [item[o] EXCEPT !.status = "CANCELED", !.reservation = left]]
    BY <1>1, <2>1
  <2>3. item[o].reservation = "ACTIVE" => Reserved
    BY DEF Inv, OrdersInv, ReservationBacked
  <2>4. artwork' = [artwork EXCEPT !.reserved = back]
    BY <2>3 DEF CancelOrder
  <2> QED BY <2>2, <2>4 DEF CancelOrder
<1>3. /\ artwork' \in ArtworkRows /\ CountersFit(artwork') /\ artwork'.reserved = back
      /\ artwork'.exists = artwork.exists /\ artwork'.licence = artwork.licence
      /\ artwork'.saleStatus = artwork.saleStatus /\ artwork'.stock = artwork.stock
      /\ artwork'.file = artwork.file /\ artwork'.version = artwork.version
  BY <1>1, <1>2 DEF ArtworkRows, CountersFit
<1>4. item' \in [Orders -> ItemRows]
  BY <1>1, <1>2 DEF ItemRows, OrderStates, Released
<1>5. TypeOK'
  BY <1>2, <1>3, <1>4, Types, TypesNext DEF Inv
<1>6. FilesInv'
  BY <1>1, <1>2, <1>3, <1>5, FilesFrame, LifecycleAssumption DEF Inv, ArtworkRows
<1>7. \A p \in Orders :
         /\ item'[p].licence = item[p].licence /\ item'[p].linked = item[p].linked
         /\ item'[p].reservation = IF p = o THEN left ELSE item[p].reservation
         /\ item'[p].status = IF p = o THEN "CANCELED" ELSE item[p].status
  BY <1>1, <1>2 DEF ItemRows
<1>8. left # "ACTIVE"
  BY DEF Released
<1>9. CASE item[o].reservation = "ACTIVE"
  <2>1. \A p \in Orders : item'[p].reservation # "ACTIVE"
    BY <1>7, <1>8, <1>9 DEF Inv, OrdersInv, HeldByOne
  <2>2. HeldByOne' /\ ReservationBacked'
    BY <1>3, <1>7, <1>9, <2>1 DEF Inv, OrdersInv, HeldByOne, ReservationBacked
  <2>3. \A p \in Orders : p # o =>
          ~(item[p].licence = "EXCLUSIVE" /\ item[p].status \in {"PENDING_PAYMENT", "PAYMENT_FAILED"})
    BY <1>9 DEF Inv, OrdersInv, HeldByOne, ExclusiveOrders
  <2>4. ExclusiveOrders'
    BY <1>3, <1>7, <2>1, <2>3 DEF Inv, OrdersInv, ExclusiveOrders
  <2> QED BY <1>5, <1>6, <2>2, <2>4 DEF Inv, OrdersInv
<1>10. CASE item[o].reservation # "ACTIVE"
  <2>1. back = artwork.reserved /\ left = item[o].reservation
    BY <1>10 DEF Released
  <2>2. HeldByOne' /\ ReservationBacked' /\ ExclusiveOrders'
    BY <1>3, <1>7, <1>10, <2>1
       DEF Inv, OrdersInv, HeldByOne, ReservationBacked, Reserved, ExclusiveOrders
  <2> QED BY <1>5, <1>6, <2>2 DEF Inv, OrdersInv
<1> QED BY <1>9, <1>10

(***************************************************************************)
(* Edits.                                                                  *)
(***************************************************************************)
LEMMA ThenMoves ==
    ASSUME tab \in [Tabs -> TabRows], NEW t \in Tabs, NEW file \in Files \cup {NoFile},
           Then(t, file)
    PROVE  /\ tab' \in [Tabs -> TabRows]
           /\ \A u \in Tabs \ {t} : tab'[u] = tab[u]
           /\ tab'[t].drop = file
           /\ tab'[t].step = IF file = NoFile THEN "idle" ELSE "clean"
<1> DEFINE next == IF file = NoFile THEN "idle" ELSE "clean"
           row  == [tab[t] EXCEPT !.drop = file, !.step = next]
<1>1. tab' = [tab EXCEPT ![t] = row]
  BY DEF Then
<1>2. row \in TabRows /\ row.drop = file /\ row.step = next
  BY DEF TabRows
<1> QED BY <1>1, <1>2

LEMMA BeginEditKeeps ==
    ASSUME Inv, NEW t \in Tabs, NEW seen \in 1 .. artwork.version,
           NEW new \in Files \cup {NoFile}, BeginEdit(t, seen, new)
    PROVE  Inv'
<1> DEFINE row == [step |-> "write", seen |-> seen, new |-> new, old |-> artwork.file,
                   drop |-> NoFile]
<1>0. /\ tab[t].step = "idle" /\ artwork.exists /\ new \notin store \cup lost \cup {artwork.file}
      /\ tab' = [tab EXCEPT ![t] = row]
      /\ store' = store \cup ({new} \ {NoFile})
      /\ UNCHANGED <<artwork, item, lost>>
  BY DEF BeginEdit
<1>1. /\ artwork \in ArtworkRows /\ tab \in [Tabs -> TabRows] /\ store \in SUBSET Files
  BY Types DEF Inv
<1>2. row \in TabRows
  BY <1>1, LifecycleAssumption DEF TabRows, ArtworkRows
<1>3. TypeOK'
  BY <1>0, <1>1, <1>2, Types, TypesNext DEF Inv
<1>4. OrdersInv'
  BY <1>0, OrdersFrame DEF Inv
<1>5. \A u \in Tabs : tab'[u] = IF u = t THEN row ELSE tab[u]
  BY <1>0, <1>1
<1>6. UploadsApart'
  BY <1>0, <1>5 DEF Inv, FilesInv, UploadsApart, DropsApart, Writes, Cleans
<1>7. DropsApart'
  BY <1>0, <1>5 DEF Inv, FilesInv, DropsApart, Cleans
<1>8. PagesTrue'
  BY <1>0, <1>1, <1>5 DEF Inv, FilesInv, PagesTrue, Writes, ArtworkRows
<1>9. FilesOfArtworkStored'
  BY <1>0 DEF Inv, FilesInv, FilesOfArtworkStored
<1>10. NoStrayFiles'
  <2>1. Cleaning \subseteq Cleaning'
    BY <1>0, <1>5 DEF Cleaning
  <2>2. Writing \subseteq Writing' /\ new \in Writing'
    BY <1>0, <1>5 DEF Writing
  <2> QED BY <1>0, <2>1, <2>2 DEF Inv, FilesInv, NoStrayFiles
<1> QED BY <1>3, <1>4, <1>6, <1>7, <1>8, <1>9, <1>10 DEF Inv, FilesInv

LEMMA RejectEditKeeps ==
    ASSUME Inv, NEW t \in Tabs, RejectEdit(t)
    PROVE  Inv'
<1> DEFINE new == tab[t].new
<1>0. tab[t].step = "write" /\ Then(t, new) /\ UNCHANGED <<artwork, item, store, lost>>
  BY DEF RejectEdit
<1>1. tab \in [Tabs -> TabRows] /\ new \in Files \cup {NoFile}
  BY Types DEF Inv, TabRows
<1>2. /\ tab' \in [Tabs -> TabRows]
      /\ \A u \in Tabs \ {t} : tab'[u] = tab[u]
      /\ tab'[t].drop = new /\ tab'[t].step = IF new = NoFile THEN "idle" ELSE "clean"
  BY <1>0, <1>1, ThenMoves
<1>3. TypeOK'
  BY <1>0, <1>2, Types, TypesNext DEF Inv
<1>4. OrdersInv'
  BY <1>0, OrdersFrame DEF Inv
<1>5. UploadsApart'
  BY <1>0, <1>2 DEF Inv, FilesInv, UploadsApart, Writes, Cleans
<1>6. DropsApart'
  BY <1>0, <1>2 DEF Inv, FilesInv, UploadsApart, DropsApart, Writes, Cleans
<1>7. PagesTrue' /\ FilesOfArtworkStored'
  BY <1>0, <1>2 DEF Inv, FilesInv, PagesTrue, FilesOfArtworkStored, Writes
<1>8. NoStrayFiles'
  <2>1. Cleaning \subseteq Cleaning'
    BY <1>0, <1>2 DEF Cleaning
  <2>2. \A f \in Writing : f \in Writing' \/ f = new
    BY <1>2 DEF Writing
  <2>3. new # NoFile => new \in Cleaning'
    BY <1>2 DEF Cleaning
  <2>4. NoFile \notin store
    BY Types, LifecycleAssumption DEF Inv
  <2> QED BY <1>0, <2>1, <2>2, <2>3, <2>4 DEF Inv, FilesInv, NoStrayFiles
<1> QED BY <1>3, <1>4, <1>5, <1>6, <1>7, <1>8 DEF Inv, FilesInv

LEMMA CleanUpKeeps ==
    ASSUME Inv, NEW t \in Tabs, deleteArtworkMediaAssets(t)
    PROVE  Inv'
<1> DEFINE row == [tab[t] EXCEPT !.step = "idle", !.drop = NoFile]
<1>0. /\ Cleans(t) /\ store' = store \ {tab[t].drop}
      /\ tab' = [tab EXCEPT ![t] = row] /\ UNCHANGED <<artwork, item, lost>>
  BY DEF deleteArtworkMediaAssets, Dropped, Cleans
<1>1. tab \in [Tabs -> TabRows]
  BY Types DEF Inv
<1>2. row \in TabRows /\ row.step = "idle"
  BY <1>1 DEF TabRows
<1>3. TypeOK'
  BY <1>0, <1>1, <1>2, Types, TypesNext DEF Inv
<1>4. OrdersInv'
  BY <1>0, OrdersFrame DEF Inv
<1>5. \A u \in Tabs : tab'[u] = IF u = t THEN row ELSE tab[u]
  BY <1>0, <1>1
<1>6. UploadsApart'
  BY <1>0, <1>2, <1>5 DEF Inv, FilesInv, UploadsApart, Writes, Cleans
<1>7. DropsApart'
  <2>1. \A u \in Tabs : Cleans(u)' => u # t /\ Cleans(u) /\ tab'[u].drop = tab[u].drop
    BY <1>2, <1>5 DEF Cleans
  <2> QED BY <1>0, <2>1 DEF Inv, FilesInv, DropsApart
<1>8. PagesTrue' /\ FilesOfArtworkStored'
  BY <1>0, <1>2, <1>5
     DEF Inv, FilesInv, PagesTrue, FilesOfArtworkStored, DropsApart, Writes, Cleans
<1>9. NoStrayFiles'
  <2>1. \A f \in Cleaning : f \in Cleaning' \/ f = tab[t].drop
    BY <1>5 DEF Cleaning
  <2>2. Writing \subseteq Writing'
    BY <1>0, <1>5 DEF Writing, Cleans
  <2> QED BY <1>0, <2>1, <2>2 DEF Inv, FilesInv, NoStrayFiles
<1> QED BY <1>3, <1>4, <1>6, <1>7, <1>8, <1>9 DEF Inv, FilesInv

LEMMA AbandonFilesKeeps ==
    ASSUME Inv, NEW t \in Tabs, AbandonFiles(t)
    PROVE  Inv'
<1> DEFINE row  == [tab[t] EXCEPT !.step = "idle", !.drop = NoFile]
           left == IF tab[t].step = "write" THEN tab[t].new ELSE tab[t].drop
<1>0. /\ tab[t].step = "write" \/ tab[t].step = "clean"
      /\ lost' = lost \cup ({left} \ {NoFile})
      /\ tab' = [tab EXCEPT ![t] = row] /\ UNCHANGED <<artwork, item, store>>
  BY DEF AbandonFiles
<1>1. tab \in [Tabs -> TabRows] /\ tab[t] \in TabRows
  BY Types DEF Inv
<1>2. row \in TabRows /\ row.step = "idle" /\ left \in Files \cup {NoFile}
  BY <1>1 DEF TabRows
<1>3. TypeOK'
  BY <1>0, <1>1, <1>2, Types, TypesNext DEF Inv
<1>4. OrdersInv'
  BY <1>0, OrdersFrame DEF Inv
<1>5. \A u \in Tabs : tab'[u] = IF u = t THEN row ELSE tab[u]
  BY <1>0, <1>1
<1>6. UploadsApart'
  BY <1>0, <1>2, <1>5 DEF Inv, FilesInv, UploadsApart, Writes, Cleans
<1>7. DropsApart'
  <2>1. \A u \in Tabs : Cleans(u)' => u # t /\ Cleans(u) /\ tab'[u].drop = tab[u].drop
    BY <1>2, <1>5 DEF Cleans
  <2> QED BY <1>0, <2>1 DEF Inv, FilesInv, DropsApart
<1>8. PagesTrue' /\ FilesOfArtworkStored'
  BY <1>0, <1>2, <1>5 DEF Inv, FilesInv, PagesTrue, FilesOfArtworkStored, Writes
<1>9. NoStrayFiles'
  <2>1. \A f \in Cleaning \cup Writing : f \in Cleaning' \cup Writing' \/ f = left
    BY <1>0, <1>5 DEF Cleaning, Writing
  <2>2. NoFile \notin store
    BY Types, LifecycleAssumption DEF Inv
  <2> QED BY <1>0, <2>1, <2>2 DEF Inv, FilesInv, NoStrayFiles
<1> QED BY <1>3, <1>4, <1>6, <1>7, <1>8, <1>9 DEF Inv, FilesInv

LEMMA UpdateKeeps ==
    ASSUME Inv, NEW t \in Tabs, updateArtwork(t)
    PROVE  Inv'
<1> DEFINE new  == tab[t].new
           drop == IF new = NoFile THEN NoFile ELSE tab[t].old
           file == IF new = NoFile THEN artwork.file ELSE new
<1>0. PICK l \in Licences :
        artwork' = [artwork EXCEPT
            !.licence    = l,
            !.saleStatus = IF l = artwork.licence THEN artwork.saleStatus ELSE "AVAILABLE",
            !.stock      = StockAfter(l),
            !.file       = file,
            !.version    = artwork.version + 1]
  BY DEF updateArtwork
<1>1. /\ Writes(t) /\ canEdit /\ artwork.exists /\ artwork.version = tab[t].seen
      /\ artwork.version < MaxArtworkVersion
      /\ Then(t, drop) /\ UNCHANGED <<item, store, lost>>
  BY DEF updateArtwork, Current, Writes
<1>2. /\ artwork \in ArtworkRows /\ CountersFit(artwork) /\ tab \in [Tabs -> TabRows]
      /\ item \in [Orders -> ItemRows]
  BY Types DEF Inv
<1>3. new \in Files \cup {NoFile} /\ drop \in Files \cup {NoFile} /\ file \in Files
  BY <1>2 DEF TabRows, ArtworkRows
<1>4. drop # NoFile => drop = artwork.file /\ new # NoFile /\ file = new
  BY <1>1, <1>2, LifecycleAssumption DEF Inv, FilesInv, PagesTrue, ArtworkRows
<1>5. /\ tab' \in [Tabs -> TabRows]
      /\ \A u \in Tabs \ {t} : tab'[u] = tab[u]
      /\ tab'[t].drop = drop /\ tab'[t].step = IF drop = NoFile THEN "idle" ELSE "clean"
  <2> HIDE DEF drop
  <2> QED BY <1>1, <1>2, <1>3, ThenMoves
<1>6. \A o \in Orders : /\ item[o].reservation # "ACTIVE"
                        /\ item[o].licence = "EXCLUSIVE" => item[o].status # "PAID"
  BY <1>1 DEF canEdit, hasTransactionInProgress, hasConfirmedPurchase, Linked,
              Inv, OrdersInv, HeldByOne, ExclusiveOrders
<1>7. artwork.reserved = 0
  BY <1>2, <1>6 DEF Inv, OrdersInv, HeldByOne, ArtworkRows
<1>8. /\ artwork' \in ArtworkRows /\ CountersFit(artwork')
      /\ artwork'.reserved = 0 /\ artwork'.exists /\ artwork'.file = file
      /\ artwork'.version = artwork.version + 1
  <2>1. artwork.version + 1 \in 1 .. MaxArtworkVersion
    BY <1>1, <1>2, LifecycleAssumption DEF ArtworkRows
  <2>2. StockAfter(l) \in 0 .. 1 /\ StockAfter(l) <= IF l = "EXCLUSIVE" THEN 1 ELSE 0
    BY <1>2 DEF StockAfter, InitialStock, ArtworkRows, CountersFit
  <2> DEFINE sale == IF l = artwork.licence THEN artwork.saleStatus ELSE "AVAILABLE"
             sold == [artwork EXCEPT !.licence = l, !.saleStatus = sale]
             kept == [sold EXCEPT !.stock = StockAfter(l)]
             filed == [kept EXCEPT !.file = file]
             counted == [filed EXCEPT !.version = artwork.version + 1]
  <2>3. sold \in ArtworkRows /\ sold.licence = l /\ sold.reserved = 0 /\ sold.exists
    BY <1>1, <1>2, <1>7 DEF ArtworkRows
  <2> HIDE DEF sold
  <2>4. kept \in ArtworkRows /\ kept.licence = l /\ kept.reserved = 0 /\ kept.exists
        /\ kept.stock = StockAfter(l)
    BY <2>2, <2>3 DEF ArtworkRows
  <2> HIDE DEF kept
  <2>5. filed \in ArtworkRows /\ filed.licence = l /\ filed.reserved = 0 /\ filed.exists
        /\ filed.stock = StockAfter(l) /\ filed.file = file
    <3> HIDE DEF file
    <3> QED BY <1>3, <2>4 DEF ArtworkRows
  <2> HIDE DEF filed
  <2>6. counted \in ArtworkRows /\ counted.licence = l /\ counted.reserved = 0 /\ counted.exists
        /\ counted.stock = StockAfter(l) /\ counted.file = file
        /\ counted.version = artwork.version + 1
    <3> HIDE DEF file
    <3> QED BY <2>1, <2>5 DEF ArtworkRows
  <2>7. CountersFit(counted)
    <3> HIDE DEF counted
    <3> QED BY <2>2, <2>6 DEF CountersFit
  <2>8. artwork' = counted
    BY <1>0 DEF sold, kept, filed
  <2> QED BY <2>6, <2>7, <2>8
<1>9. TypeOK'
  BY <1>1, <1>2, <1>5, <1>8, Types, TypesNext DEF Inv
<1>10. OrdersInv'
  BY <1>1, <1>6, <1>8 DEF Inv, OrdersInv, HeldByOne, ReservationBacked, ExclusiveOrders
<1>11. file \in store /\ \A u \in Tabs \ {t} : /\ Writes(u) => tab[u].new # file
                                               /\ Cleans(u) => tab[u].drop # file
  <2>0. \A u \in Tabs : Writes(u) => ~Cleans(u)
    BY DEF Writes, Cleans
  <2>1. CASE new = NoFile
    <3>1. \A u \in Tabs : Writes(u) => tab[u].new # artwork.file
      BY <1>2, LifecycleAssumption DEF Inv, FilesInv, UploadsApart, ArtworkRows
    <3>2. \A u \in Tabs : Cleans(u) => tab[u].drop # artwork.file
      BY <1>1 DEF Inv, FilesInv, DropsApart
    <3> QED BY <1>1, <2>1, <3>1, <3>2 DEF Inv, FilesInv, FilesOfArtworkStored
  <2>2. CASE new # NoFile
    BY <1>1, <2>2 DEF Inv, FilesInv, UploadsApart
  <2> QED BY <2>1, <2>2
<1>12. \A u \in Tabs : /\ Writes(u)' => u # t /\ Writes(u) /\ tab'[u] = tab[u]
                       /\ Cleans(u)' /\ u # t => Cleans(u) /\ tab'[u] = tab[u]
  BY <1>5 DEF Writes, Cleans
<1>13. Cleans(t)' => /\ drop = artwork.file /\ drop # file /\ drop \in store
                     /\ \A u \in Tabs \ {t} : /\ Writes(u) => tab[u].new # drop
                                             /\ Cleans(u) => tab[u].drop # drop
  <2> SUFFICES ASSUME Cleans(t)' PROVE
          /\ drop = artwork.file /\ drop # file /\ drop \in store
          /\ \A u \in Tabs \ {t} : /\ Writes(u) => tab[u].new # drop
                                  /\ Cleans(u) => tab[u].drop # drop
    OBVIOUS
  <2>1. drop # NoFile
    BY <1>5 DEF Cleans
  <2>2. drop = artwork.file /\ new # NoFile /\ file = new
    BY <1>4, <2>1
  <2>3. new # artwork.file
    BY <1>1, <2>2 DEF Inv, FilesInv, UploadsApart
  <2>4. artwork.file \in store
    BY <1>1 DEF Inv, FilesInv, FilesOfArtworkStored
  <2>5. \A u \in Tabs : Writes(u) => tab[u].new # artwork.file
    BY <1>2, LifecycleAssumption DEF Inv, FilesInv, UploadsApart, ArtworkRows
  <2>6. \A u \in Tabs : Cleans(u) => tab[u].drop # artwork.file
    BY <1>1 DEF Inv, FilesInv, DropsApart
  <2> QED BY <2>2, <2>3, <2>4, <2>5, <2>6
<1> HIDE DEF drop, file
<1>14. UploadsApart'
  <2>1. ASSUME NEW u \in Tabs, Writes(u)', tab'[u].new # NoFile
        PROVE  /\ u # t /\ tab'[u] = tab[u] /\ Writes(u) /\ tab[u].new # NoFile
               /\ tab'[u].new \in store' /\ tab'[u].new # artwork'.file
    BY <1>1, <1>8, <1>11, <1>12, <2>1 DEF Inv, FilesInv, UploadsApart
  <2>2. ASSUME NEW u \in Tabs, Writes(u)', tab'[u].new # NoFile, NEW v \in Tabs \ {u}, Writes(v)'
        PROVE  tab'[v].new # tab'[u].new
    BY <1>12, <2>1, <2>2 DEF Inv, FilesInv, UploadsApart
  <2>3. ASSUME NEW u \in Tabs, Writes(u)', tab'[u].new # NoFile, NEW v \in Tabs \ {u}, Cleans(v)'
        PROVE  tab'[v].drop # tab'[u].new
    <3>1. CASE v = t
      <4>1. Cleans(t)' /\ tab'[v].drop = drop
        BY <1>5, <2>3, <3>1
      <4>2. Writes(u) /\ u \in Tabs \ {t} /\ tab'[u] = tab[u]
        BY <2>1, <2>3
      <4>3. tab[u].new # drop
        <5>1. drop = artwork.file
          BY <1>13, <4>1
        <5>2. tab[u].new # artwork.file
          BY <2>1, <2>3, <4>2 DEF Inv, FilesInv, UploadsApart
        <5> QED BY <5>1, <5>2
      <4> QED BY <4>1, <4>2, <4>3
    <3>2. CASE v # t
      BY <1>12, <2>1, <2>3, <3>2 DEF Inv, FilesInv, UploadsApart
    <3> QED BY <3>1, <3>2
  <2> QED BY <2>1, <2>2, <2>3 DEF UploadsApart, Writes, Cleans
<1>15. DropsApart'
  <2> SUFFICES ASSUME NEW u \in Tabs, Cleans(u)'
               PROVE  /\ tab'[u].drop \in store' /\ tab'[u].drop # artwork'.file
                      /\ \A v \in Tabs \ {u} : Cleans(v)' => tab'[v].drop # tab'[u].drop
    BY DEF DropsApart
  <2>1. CASE u = t
    <3>1. Cleans(t)' /\ tab'[u].drop = drop
      BY <1>5, <2>1
    <3>2. drop # file /\ drop \in store
      BY <1>13, <3>1
    <3>3. ASSUME NEW v \in Tabs \ {u}, Cleans(v)' PROVE tab'[v].drop # drop
      <4>1. Cleans(v) /\ tab'[v] = tab[v]
        BY <1>12, <2>1, <3>3
      <4> QED BY <1>13, <2>1, <3>1, <4>1 DEF Writes, Cleans
    <3> QED BY <1>1, <1>8, <3>1, <3>2, <3>3
  <2>2. CASE u # t
    <3>1. Cleans(u) /\ tab'[u] = tab[u] /\ tab[u].drop \in store /\ tab[u].drop # file
      BY <1>11, <1>12, <2>2 DEF Inv, FilesInv, DropsApart
    <3>2. ASSUME NEW v \in Tabs \ {u}, Cleans(v)' PROVE tab'[v].drop # tab[u].drop
      <4>1. CASE v = t
        <5>1. Cleans(t)' /\ tab'[v].drop = drop
          BY <1>5, <3>2, <4>1
        <5>2. tab[u].drop # drop
          BY <1>13, <2>2, <3>1, <5>1 DEF Writes, Cleans
        <5> QED BY <5>1, <5>2
      <4>2. CASE v # t
        BY <1>12, <3>1, <3>2, <4>2 DEF Inv, FilesInv, DropsApart
      <4> QED BY <4>1, <4>2
    <3> QED BY <1>1, <1>8, <3>1, <3>2
  <2> QED BY <2>1, <2>2
<1>16. PagesTrue'
  <2>1. artwork.version \in Nat /\ \A u \in Tabs : tab[u].seen \in Nat
    BY <1>2, LifecycleAssumption DEF ArtworkRows, TabRows
  <2>2. \A u \in Tabs : Writes(u)' => tab'[u].seen <= artwork.version
    BY <1>12 DEF Inv, FilesInv, PagesTrue
  <2> QED BY <1>8, <1>12, <2>1, <2>2 DEF PagesTrue
<1>17. FilesOfArtworkStored'
  BY <1>1, <1>8, <1>11 DEF FilesOfArtworkStored
<1>18. NoStrayFiles'
  <2>1. \A f \in Cleaning : f \in Cleaning'
    <3>1. \A u \in Tabs : Cleans(u) => u # t /\ Cleans(u)' /\ tab'[u].drop = tab[u].drop
      BY <1>1, <1>5 DEF Cleans, Writes
    <3> QED BY <3>1 DEF Cleaning, Cleans
  <2>2. \A f \in Writing : f \in Writing' \/ f = new
    BY <1>5 DEF Writing
  <2>3. \A f \in store : f = artwork.file => f \in Cleaning' \/ f = file
    <3>1. CASE new = NoFile
      BY <3>1 DEF file
    <3>2. CASE new # NoFile
      <4>1. drop = artwork.file /\ drop # NoFile
        BY <1>2, <1>3, <1>4, <3>2, <1>1, LifecycleAssumption
           DEF drop, TabRows
      <4> QED BY <1>5, <4>1 DEF Cleaning
    <3> QED BY <3>1, <3>2
  <2>4. \A f \in store : f = new => f = file
    BY Types, LifecycleAssumption DEF Inv, file
  <2> QED BY <1>1, <1>8, <2>1, <2>2, <2>3, <2>4 DEF Inv, FilesInv, NoStrayFiles
<1> QED BY <1>9, <1>10, <1>14, <1>15, <1>16, <1>17, <1>18 DEF Inv, FilesInv

LEMMA DeleteKeeps ==
    ASSUME Inv, NEW t \in Tabs, deleteArtwork(t)
    PROVE  Inv'
<1> DEFINE unlinked(o) == [item[o] EXCEPT !.linked = FALSE, !.reservation = "none"]
<1>0. /\ tab[t].step = "idle" /\ artwork.exists /\ canEdit
      /\ artwork' = [artwork EXCEPT !.exists = FALSE]
      /\ item' = [o \in Orders |-> unlinked(o)]
      /\ Then(t, artwork.file) /\ UNCHANGED <<store, lost>>
  BY DEF deleteArtwork
<1>1. /\ artwork \in ArtworkRows /\ CountersFit(artwork) /\ tab \in [Tabs -> TabRows]
      /\ item \in [Orders -> ItemRows] /\ artwork.file \in Files
  BY Types DEF Inv, ArtworkRows
<1>2. /\ tab' \in [Tabs -> TabRows]
      /\ \A u \in Tabs \ {t} : tab'[u] = tab[u]
      /\ tab'[t].drop = artwork.file /\ tab'[t].step = "clean"
  BY <1>0, <1>1, ThenMoves, LifecycleAssumption
<1>3. /\ artwork' \in ArtworkRows /\ CountersFit(artwork') /\ ~artwork'.exists
      /\ artwork'.file = artwork.file /\ artwork'.reserved = artwork.reserved
      /\ artwork'.version = artwork.version
  BY <1>0, <1>1 DEF ArtworkRows, CountersFit
<1>4. \A o \in Orders : /\ unlinked(o) \in ItemRows /\ unlinked(o).reservation = "none"
                        /\ ~unlinked(o).linked
                        /\ unlinked(o).status = item[o].status
                        /\ unlinked(o).licence = item[o].licence
  BY <1>1 DEF ItemRows
<1>5. TypeOK'
  <2>1. item' \in [Orders -> ItemRows]
    <3> HIDE DEF unlinked
    <3> QED BY <1>0, <1>4
  <2> QED BY <1>0, <1>1, <1>2, <1>3, <2>1, Types, TypesNext DEF Inv
<1>6. \A o \in Orders : /\ item[o].reservation # "ACTIVE"
                        /\ item[o].licence = "EXCLUSIVE" => item[o].status # "PAID"
  BY <1>0 DEF canEdit, hasTransactionInProgress, hasConfirmedPurchase, Linked,
              Inv, OrdersInv, HeldByOne, ExclusiveOrders
<1>7. artwork.reserved = 0
  BY <1>1, <1>6 DEF Inv, OrdersInv, HeldByOne, ArtworkRows
<1>8. \A o \in Orders : /\ item'[o].reservation = "none" /\ item'[o].status = item[o].status
                        /\ ~item'[o].linked /\ item'[o].licence = item[o].licence
  <2> HIDE DEF unlinked
  <2> QED BY <1>0, <1>4
<1>9. OrdersInv'
  <2>1. HeldByOne' /\ ReservationBacked'
    BY <1>3, <1>7, <1>8 DEF HeldByOne, ReservationBacked
  <2>2. ExclusiveOrders'
    BY <1>6, <1>8 DEF Inv, OrdersInv, ExclusiveOrders
  <2> QED BY <2>1, <2>2 DEF OrdersInv
<1>10. \A u \in Tabs : Writes(u) => u # t /\ tab[u].new # artwork.file
  BY <1>0, <1>1, LifecycleAssumption DEF Inv, FilesInv, UploadsApart, Writes
<1>11. \A u \in Tabs : Cleans(u) => u # t /\ tab[u].drop # artwork.file
  BY <1>0 DEF Inv, FilesInv, DropsApart, Cleans
<1>12. UploadsApart'
  <2>1. ASSUME NEW u \in Tabs, Writes(u)', tab'[u].new # NoFile
        PROVE  /\ Writes(u) /\ tab'[u] = tab[u] /\ tab'[u].new \in store'
               /\ tab'[u].new # artwork'.file
    BY <1>0, <1>2, <1>3, <2>1 DEF Inv, FilesInv, UploadsApart, Writes
  <2>2. ASSUME NEW u \in Tabs, Writes(u)', tab'[u].new # NoFile, NEW v \in Tabs \ {u}
        PROVE  /\ Writes(v)' => tab'[v].new # tab'[u].new
               /\ Cleans(v)' => tab'[v].drop # tab'[u].new
    <3>1. Writes(u) /\ tab'[u] = tab[u] /\ u # t
      BY <1>0, <2>1, <2>2 DEF Writes
    <3>2. CASE v = t
      BY <1>2, <1>10, <3>1, <3>2 DEF Writes
    <3>3. CASE v # t
      BY <1>2, <2>2, <3>1, <3>3 DEF Inv, FilesInv, UploadsApart, Writes, Cleans
    <3> QED BY <3>2, <3>3
  <2> QED BY <2>1, <2>2 DEF UploadsApart, Writes, Cleans
<1>13. DropsApart'
  <2>1. ASSUME NEW u \in Tabs, Cleans(u)' PROVE tab'[u].drop \in store'
    BY <1>0, <1>2, <2>1 DEF Inv, FilesInv, DropsApart, FilesOfArtworkStored, Cleans
  <2>2. ASSUME NEW u \in Tabs, Cleans(u)', NEW v \in Tabs \ {u}, Cleans(v)'
        PROVE  tab'[v].drop # tab'[u].drop
    <3>1. CASE u = t
      BY <1>2, <1>11, <2>2, <3>1 DEF Cleans
    <3>2. CASE v = t
      BY <1>2, <1>11, <2>2, <3>2 DEF Cleans
    <3>3. CASE u # t /\ v # t
      BY <1>2, <2>2, <3>3 DEF Inv, FilesInv, DropsApart, Cleans
    <3> QED BY <3>1, <3>2, <3>3
  <2> QED BY <1>3, <2>1, <2>2 DEF DropsApart, Cleans
<1>14. PagesTrue'
  BY <1>2, <1>3 DEF Inv, FilesInv, PagesTrue, Writes
<1>15. FilesOfArtworkStored'
  BY <1>3 DEF FilesOfArtworkStored
<1>16. NoStrayFiles'
  <2>1. \A f \in Cleaning : f \in Cleaning'
    <3>1. \A u \in Tabs : Cleans(u) => u # t /\ tab'[u] = tab[u]
      BY <1>2, <1>11
    <3> QED BY <3>1 DEF Cleaning, Cleans
  <2>2. artwork.file \in Cleaning'
    BY <1>2 DEF Cleaning
  <2>3. \A f \in Writing : f \in Writing'
    <3>1. \A u \in Tabs : Writes(u) => u # t /\ tab'[u] = tab[u]
      BY <1>2, <1>10
    <3> QED BY <3>1 DEF Writing, Writes
  <2> QED BY <1>0, <2>1, <2>2, <2>3 DEF Inv, FilesInv, NoStrayFiles
<1> QED BY <1>5, <1>9, <1>12, <1>13, <1>14, <1>15, <1>16 DEF Inv, FilesInv

(***************************************************************************)
(* Visibility and moderation.                                              *)
(***************************************************************************)
LEMMA MoveToKeeps ==
    ASSUME Inv, NEW can, NEW visibility \in Visibilities, MoveTo(can, visibility)
    PROVE  Inv'
<1>0. /\ artwork' = [artwork EXCEPT !.visibility = visibility, !.version = artwork.version + 1]
      /\ artwork.version < MaxArtworkVersion /\ UNCHANGED <<item, store, tab, lost>>
  BY DEF MoveTo
<1>1. artwork \in ArtworkRows /\ CountersFit(artwork)
  BY Types DEF Inv
<1>2. artwork.version + 1 \in 1 .. MaxArtworkVersion
  BY <1>0, <1>1, LifecycleAssumption DEF ArtworkRows
<1>3. /\ artwork' \in ArtworkRows
      /\ artwork'.exists = artwork.exists /\ artwork'.licence = artwork.licence
      /\ artwork'.saleStatus = artwork.saleStatus /\ artwork'.stock = artwork.stock
      /\ artwork'.reserved = artwork.reserved /\ artwork'.file = artwork.file
      /\ artwork'.version = artwork.version + 1
  BY <1>0, <1>1, <1>2 DEF ArtworkRows
<1>4. TypeOK'
  BY <1>0, <1>1, <1>3, Types, TypesNext DEF Inv, CountersFit
<1>5. artwork'.version >= artwork.version
  BY <1>1, <1>3, LifecycleAssumption DEF ArtworkRows
<1> QED BY <1>0, <1>3, <1>4, <1>5, OrdersKept, FilesFrame DEF Inv

LEMMA ModerationKeeps ==
    ASSUME Inv, updateArtworkModeration
    PROVE  Inv'
<1>0. artwork' = [artwork EXCEPT !.approved = ~artwork.approved] /\ UNCHANGED <<item, store, tab, lost>>
  BY DEF updateArtworkModeration
<1>1. artwork \in ArtworkRows /\ CountersFit(artwork)
  BY Types DEF Inv
<1>2. /\ artwork' \in ArtworkRows
      /\ artwork'.exists = artwork.exists /\ artwork'.licence = artwork.licence
      /\ artwork'.saleStatus = artwork.saleStatus /\ artwork'.stock = artwork.stock
      /\ artwork'.reserved = artwork.reserved /\ artwork'.file = artwork.file
      /\ artwork'.version = artwork.version
  BY <1>0, <1>1 DEF ArtworkRows
<1>3. TypeOK'
  BY <1>0, <1>1, <1>2, Types, TypesNext DEF Inv, CountersFit
<1>4. artwork'.version >= artwork.version
  BY <1>1, <1>2, LifecycleAssumption DEF ArtworkRows
<1> QED BY <1>0, <1>2, <1>3, <1>4, OrdersKept, FilesFrame DEF Inv

(***************************************************************************)
(* The invariant, and what it says.                                        *)
(***************************************************************************)
LEMMA StepKeeps ==
    ASSUME Inv, [Next]_vars
    PROVE  Inv'
<1>1. CASE UNCHANGED vars
  <2>1. TypeOK'
    BY <1>1 DEF vars, Inv, TypeOK
  <2> QED BY <1>1, <2>1, OrdersFrame DEF vars, Inv, FilesInv, UploadsApart, DropsApart, PagesTrue,
             FilesOfArtworkStored, NoStrayFiles, Cleaning, Writing, Writes, Cleans
<1>2. CASE ArtistStep
  <2>1. ASSUME NEW t \in Tabs,
               \/ \E seen \in 1 .. artwork.version, new \in Files \cup {NoFile} :
                      BeginEdit(t, seen, new)
               \/ updateArtwork(t) \/ RejectEdit(t) \/ deleteArtworkMediaAssets(t)
               \/ AbandonFiles(t) \/ deleteArtwork(t)
        PROVE  Inv'
    BY <2>1, BeginEditKeeps, UpdateKeeps, RejectEditKeeps, CleanUpKeeps, AbandonFilesKeeps,
       DeleteKeeps
  <2>2. CASE hideArtwork \/ publishArtwork \/ archiveArtwork \/ restoreArtwork
    BY <2>2, MoveToKeeps DEF hideArtwork, publishArtwork, archiveArtwork, restoreArtwork,
                             Visibilities
  <2> QED BY <1>2, <2>1, <2>2 DEF ArtistStep
<1>3. CASE updateArtworkModeration
  BY <1>3, ModerationKeeps
<1>4. ASSUME NEW o \in Orders,
             \/ PlaceOrder(o) \/ FailPayment(o) \/ RetryPayment(o)
             \/ PayOrder(o) \/ CancelOrder(o)
      PROVE  Inv'
  BY <1>4, PlaceOrderKeeps, AttemptKeeps, PayOrderKeeps, CancelOrderKeeps
<1> QED BY <1>1, <1>2, <1>3, <1>4 DEF Next

LEMMA Invariance == Spec => []Inv
  BY Starts, StepKeeps, PTL DEF Spec

\* The types, with the counters those of the licence.
THEOREM LifecycleTypeCorrect == Spec => []TypeOK
  BY Invariance, PTL DEF Inv

\* An order finds the copy it set aside, whatever the artist does meanwhile.
THEOREM ReservationsAreBacked == Spec => []ReservationBacked
  BY Invariance, PTL DEF Inv, OrdersInv

\* An exclusive licence is sold once, however often the licence changes.
THEOREM SoldOnce == Spec => []ExclusiveSoldOnce
<1>1. Inv => ExclusiveSoldOnce
  <2> DEFINE Sold == {o \in Orders : item[o].status = "PAID" /\ item[o].licence = "EXCLUSIVE"}
  <2> SUFFICES ASSUME Inv PROVE Cardinality(Sold) <= 1
    BY DEF ExclusiveSoldOnce
  <2>1. CASE Sold = {}
    BY <2>1, FS_EmptySet
  <2>2. CASE Sold # {}
    <3>1. PICK o \in Orders : o \in Sold
      BY <2>2
    <3>2. Sold = {o}
      BY <3>1 DEF Inv, OrdersInv, ExclusiveOrders
    <3>3. Cardinality(Sold) = 1
      <4> HIDE DEF Sold
      <4> QED BY <3>2, FS_Singleton
    <3> QED BY <3>3
  <2> QED BY <2>1, <2>2
<1> QED BY <1>1, Invariance, PTL

\* The files of the artwork are never deleted under it.
THEOREM FilesAreKept == Spec => []FilesOfArtworkStored
  BY Invariance, PTL DEF Inv, FilesInv

\* Whatever requests race or are refused, no other files are left behind, but for those of
\* requests that died (deleteArtworkMediaAssets after updateArtwork and RejectEdit).
THEOREM NoFileIsStray == Spec => []NoStrayFiles
  BY Invariance, PTL DEF Inv, FilesInv

\* What has been paid for is neither replaced nor deleted.
THEOREM PurchasesAreKept == Spec => PurchaseIsKept
<1> DEFINE Paid == \E o \in Linked : item[o].status = "PAID"
           Kept == /\ artwork'.exists /\ artwork'.file = artwork.file
                   /\ artwork'.licence = artwork.licence
<1>1. ASSUME Inv, [Next]_vars, Paid PROVE Kept
  <2>0. artwork \in ArtworkRows /\ artwork.exists /\ ~canEdit
    BY <1>1, Types DEF Inv, OrdersInv, HeldByOne, Linked, canEdit, hasConfirmedPurchase
  <2>1. \A t \in Tabs : ~updateArtwork(t) /\ ~deleteArtwork(t)
    BY <2>0 DEF updateArtwork, deleteArtwork
  <2>2. CASE artwork' = artwork
    BY <2>0, <2>2
  <2>3. ASSUME NEW can, NEW visibility, MoveTo(can, visibility) PROVE Kept
    BY <2>0, <2>3 DEF MoveTo, ArtworkRows
  <2>4. CASE updateArtworkModeration
    BY <2>0, <2>4 DEF updateArtworkModeration, ArtworkRows
  <2>5. ASSUME NEW o \in Orders, PlaceOrder(o) \/ PayOrder(o) \/ CancelOrder(o) PROVE Kept
    BY <2>0, <2>5 DEF PlaceOrder, PayOrder, CancelOrder, ArtworkRows
  <2> QED
    BY <1>1, <2>1, <2>2, <2>3, <2>4, <2>5
       DEF Next, vars, ArtistStep, BeginEdit, RejectEdit, deleteArtworkMediaAssets, AbandonFiles,
           hideArtwork, publishArtwork, archiveArtwork, restoreArtwork, FailPayment, RetryPayment
<1>2. Inv /\ [Next]_vars => [Paid => Kept]_vars
  BY <1>1
<1> QED BY <1>2, Invariance, PTL DEF Spec, PurchaseIsKept
=============================================================================
