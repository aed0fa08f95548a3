------------------------------ MODULE Checkout ------------------------------
(***************************************************************************)
(* Buying exclusive artworks, from the cart to the paid or canceled order. *)
(*                                                                         *)
(* The database (carts, artworks, orders with their reservation and        *)
(* payment, the webhook ledger) is shared by several server handlers that  *)
(* run concurrently: the checkout request, the resume request, the         *)
(* expiration sweep, the reconciliation sweep and the webhook endpoint.    *)
(* One database transaction, one database read and one call to the payment *)
(* provider are each a step; what a handler read in an earlier step stays  *)
(* in its worker record and may be stale when it is used.  The provider    *)
(* and the customer's browser are the environment.                         *)
(***************************************************************************)
EXTENDS PaymentStates, Naturals, FiniteSets

CONSTANTS
    Users,          \* buyers, each with one cart
    Artworks,       \* the catalogue
    Exclusive,      \* the artworks sold under the EXCLUSIVE licence
    Orders,         \* identities a new order may take
    Workers,        \* handlers in flight at the same time
    Tabs,           \* browser tabs, each with its own session storage
    Prices,         \* prices an artist may set
    None,           \* "no value" (null)
    Handlers,       \* the handlers in service: "checkout", "repeat" (of a checkout request),
                    \* "resume", "expiry", "monitor"
    Outcomes,       \* bound: what the provider does with an intent in this instance
    MaxVersion,     \* bound: buyers edit a cart only below this version
    MaxCharges,     \* bound: confirmations the provider accepts per intent
    MaxCustomers    \* bound: provider customers one buyer gets over time

ASSUME ConstantsAssumption ==
    /\ Exclusive \subseteq Artworks
    /\ None \notin Users \cup Orders \cup Tabs
    /\ Prices # {}
    /\ Handlers \subseteq {"checkout", "repeat", "resume", "expiry", "monitor"}
    /\ Outcomes \subseteq {"succeeded", "processing", "payment_failed", "requires_action",
                            "canceled"}
    /\ MaxVersion \in Nat /\ MaxCharges \in Nat /\ MaxCustomers \in Nat \ {0}

VARIABLES
    cart,           \* [Users -> [version, items]]
    artwork,        \* [Artworks -> [stock, reserved, sold, price]]
    customer,       \* [Users -> stripeCustomerId]
    order,          \* [Orders -> order row, its status "NONE" before creation]
    reservation,    \* [Orders -> status of the order's inventory reservations]
    payment,        \* [Orders -> the order's payment row]
    fulfilled,      \* orders whose fulfillment tasks have been enqueued
    processed,      \* event ids marked PROCESSED in the webhook ledger
    intent,         \* [Orders -> the provider's PaymentIntent]
    sent,           \* webhook events the provider has emitted
    work            \* [Workers -> what the handler is doing]

database == <<cart, artwork, customer, order, reservation, payment, fulfilled, processed>>
provider == <<intent, sent>>
vars     == <<database, provider, work>>

-----------------------------------------------------------------------------
(* Shapes of the rows.                                                     *)

\* The priced content of a cart: with the version it determines the pricing fingerprint.
Snapshots == UNION {[S -> Prices] : S \in SUBSET Artworks}

\* A browser tab keeps one Idempotency-Key per cart version and pricing fingerprint it has
\* displayed.  The server scopes it to the user and, for a renewed cart, to the new version.
IdempotencyKeys == [tab : Tabs \cup {None}, version : Nat, lines : Snapshots, scope : Nat]

ReservationStatuses == {"NONE", "ACTIVE", "CONSUMED", "RELEASED", "EXPIRED"}

EmptySnapshot == [a \in {} |-> CHOOSE p \in Prices : TRUE]
NoKey    == [tab |-> None, version |-> 0, lines |-> EmptySnapshot, scope |-> 0]
NoOrder  == [status |-> "NONE", user |-> None, version |-> 0, lines |-> EmptySnapshot,
             key |-> NoKey, expired |-> FALSE]
NoPayment == [status |-> "PENDING", linked |-> FALSE, charge |-> 0]
NoIntent == [status |-> "none", charge |-> 0, customer |-> 0, secret |-> FALSE]

OrderRows == [status : OrderStatuses \cup {"NONE"}, user : Users \cup {None}, version : Nat,
              lines : Snapshots, key : IdempotencyKeys, expired : BOOLEAN]
PaymentRows == [status : PaymentStatuses, linked : BOOLEAN, charge : Nat]
Intents == [status : IntentStatuses \cup {"none"}, charge : Nat, customer : Nat,
            secret : BOOLEAN]
EventIds == [source : {"stripe", "reconcile"}, order : Orders, type : EventTypes, charge : Nat]

Jobs == {"none", "checkout", "resume", "expiry", "monitor"}
Steps == {"idle", "renew", "reread", "list", "create", "outdated", "intent", "park", "link",
          "reconcile", "settle", "cart", "retrieve", "reload", "reopen",
          "cancel", "cancelStripe", "cancelLocal", "protect"}

\* A handler's local variables: its progress, its request, and what it has read so far.
WorkRecords ==
    [pc : Steps, job : Jobs, user : Users \cup {None}, key : IdempotencyKeys,
     version : Nat, lines : Snapshots, order : Orders \cup {None}, customer : Nat,
     status : OrderStatuses, paid : PaymentStatuses, linked : BOOLEAN,
     seen : [status : IntentStatuses \cup {"none"}, charge : Nat],
     todo : SUBSET [order : Orders, linked : BOOLEAN], reason : {"RELEASED", "EXPIRED"},
     refused : BOOLEAN]

Idle == [pc |-> "idle", job |-> "none", user |-> None, key |-> NoKey,
         version |-> 0, lines |-> EmptySnapshot, order |-> None, customer |-> 0,
         status |-> "PENDING_PAYMENT", paid |-> "PENDING", linked |-> FALSE,
         seen |-> [status |-> "none", charge |-> 0], todo |-> {}, reason |-> "RELEASED",
         refused |-> FALSE]

TypeOK ==
    /\ cart \in [Users -> [version : Nat, items : SUBSET Artworks]]
    /\ artwork \in [Artworks -> [stock : {0, 1}, reserved : {0, 1}, sold : BOOLEAN,
                                 price : Prices]]
    /\ customer \in [Users -> Nat]
    /\ order \in [Orders -> OrderRows]
    /\ reservation \in [Orders -> ReservationStatuses]
    /\ payment \in [Orders -> PaymentRows]
    /\ fulfilled \in SUBSET Orders
    /\ processed \in SUBSET EventIds
    /\ intent \in [Orders -> Intents]
    /\ sent \in SUBSET EventIds
    /\ work \in [Workers -> WorkRecords]

Init ==
    /\ cart = [u \in Users |-> [version |-> 1, items |-> {}]]
    /\ artwork \in [Artworks -> [stock : {1}, reserved : {0}, sold : {FALSE}, price : Prices]]
    /\ customer = [u \in Users |-> 1]
    /\ order = [o \in Orders |-> NoOrder]
    /\ reservation = [o \in Orders |-> "NONE"]
    /\ payment = [o \in Orders |-> NoPayment]
    /\ fulfilled = {} /\ processed = {} /\ sent = {}
    /\ intent = [o \in Orders |-> NoIntent]
    /\ work = [w \in Workers |-> Idle]

-----------------------------------------------------------------------------
(* Reading the database.                                                   *)

Placed     == {o \in Orders : order[o].status # "NONE"}
OpenOrders == {o \in Orders : order[o].status \in OPEN_ORDER_STATUSES}
Items(o)   == DOMAIN order[o].lines
Reserved(o) == Items(o) \cap Exclusive     \* the artworks its reservation rows name
OrdersAt(u, v) == {o \in Placed : order[o].user = u /\ order[o].version = v}

CartLines(u) == [a \in cart[u].items |-> artwork[a].price]

\* Faulty variant: what other orders have reserved still counts as stock.
Purchasable_ignoringReservations(a) == ~artwork[a].sold

\* Can the artwork be bought: not sold and, unless its licence is unlimited, in stock.
Purchasable(a) ==
    /\ ~artwork[a].sold
    /\ a \in Exclusive => artwork[a].stock > artwork[a].reserved

Payable(u) == cart[u].items # {} /\ \A a \in cart[u].items : Purchasable(a)

\* The provider customer of the intent is not (or no longer) the buyer's.
Mismatched(o) == intent[o].customer # customer[order[o].user]

BumpIf(u, condition) ==
    cart' = IF condition THEN [cart EXCEPT ![u].version = @ + 1] ELSE cart

-----------------------------------------------------------------------------
(* Carts, catalogue, time.                                                 *)

SetCartItem(u, a) ==
    /\ cart[u].version < MaxVersion
    /\ Purchasable(a)
    /\ cart' = [cart EXCEPT ![u] = [version |-> @.version + 1, items |-> @.items \cup {a}]]
    /\ UNCHANGED <<artwork, customer, order, reservation, payment, fulfilled, processed,
                   provider, work>>

RemoveCartItem(u, a) ==
    /\ cart[u].version < MaxVersion
    /\ a \in cart[u].items
    /\ cart' = [cart EXCEPT ![u] = [version |-> @.version + 1, items |-> @.items \ {a}]]
    /\ UNCHANGED <<artwork, customer, order, reservation, payment, fulfilled, processed,
                   provider, work>>

ClearCart(u) ==
    /\ cart[u].version < MaxVersion
    /\ cart[u].items # {}
    /\ cart' = [cart EXCEPT ![u] = [version |-> @.version + 1, items |-> {}]]
    /\ UNCHANGED <<artwork, customer, order, reservation, payment, fulfilled, processed,
                   provider, work>>

\* Faulty variant: the order statuses are looked at, the reservations are not.
EditPrice_ignoringReservations(a, p) ==
    /\ artwork[a].price # p
    /\ \A o \in Placed : a \in Items(o) => order[o].status \in {"PAYMENT_FAILED", "CANCELED"}
    /\ artwork' = [artwork EXCEPT ![a].price = p]
    /\ UNCHANGED <<cart, customer, order, reservation, payment, fulfilled, processed,
                   provider, work>>

\* An artist edits the price: refused while the artwork is in a purchase or
\* in a transaction in progress (note that PAYMENT_FAILED is not one).
EditPrice(a, p) ==
    /\ artwork[a].price # p
    /\ \A o \in Placed : a \in Items(o) =>
          /\ order[o].status \in {"PAYMENT_FAILED", "CANCELED"}
          /\ ~(reservation[o] = "ACTIVE" /\ a \in Exclusive)
    /\ artwork' = [artwork EXCEPT ![a].price = p]
    /\ UNCHANGED <<cart, customer, order, reservation, payment, fulfilled, processed,
                   provider, work>>

\* expiresAt passes.  Only the deadline of an open order is ever read, by a resume and by
\* the expiration sweep.
Expire(o) ==
    /\ Handlers \cap {"resume", "expiry"} # {}
    /\ o \in OpenOrders /\ ~order[o].expired
    /\ order' = [order EXCEPT ![o].expired = TRUE]
    /\ UNCHANGED <<cart, artwork, customer, reservation, payment, fulfilled, processed,
                   provider, work>>

\* The provider customer was deleted: the next checkout of the buyer replaces it.
ReplaceCustomer(u) ==
    /\ customer[u] < MaxCustomers
    /\ customer' = [customer EXCEPT ![u] = @ + 1]
    /\ UNCHANGED <<cart, artwork, order, reservation, payment, fulfilled, processed,
                   provider, work>>

-----------------------------------------------------------------------------
(* The payment provider.                                                   *)

StripeEvent(o, type, charge) ==
    [source |-> "stripe", order |-> o, type |-> type, charge |-> charge]

\* The intent takes a new status, announced by an event: a failed attempt asks for
\* another payment method, the other types are named after the status.
Announce(o, type, charge) ==
    /\ intent' = [intent EXCEPT
            ![o].charge = charge,
            ![o].status = IF type = "payment_failed" THEN "requires_payment_method" ELSE type]
    /\ sent' = sent \cup {StripeEvent(o, type, charge)}

\* A browser that holds the client secret confirms the payment.
Confirm(o) ==
    /\ intent[o].secret /\ isPaymentIntentReusable(intent[o].status)
    /\ intent[o].charge < MaxCharges
    /\ \/ \E type \in Outcomes \ {"requires_action", "canceled"} :
              Announce(o, type, intent[o].charge + 1)
       \/ /\ "requires_action" \in Outcomes
          /\ intent[o].status = "requires_payment_method"
          /\ intent' = [intent EXCEPT ![o].status = "requires_action"]
          /\ UNCHANGED sent
    /\ UNCHANGED <<database, work>>

\* The bank answers an asynchronous payment.
BankAnswers(o) ==
    /\ intent[o].status = "processing"
    /\ \E type \in Outcomes \cap {"succeeded", "payment_failed"} :
          Announce(o, type, intent[o].charge)
    /\ UNCHANGED <<database, work>>

\* The intent is canceled outside the application (the provider or its dashboard).
ProviderCancels(o) ==
    /\ "canceled" \in Outcomes
    /\ isPaymentIntentReusable(intent[o].status)
    /\ Announce(o, "canceled", intent[o].charge)
    /\ UNCHANGED <<database, work>>

-----------------------------------------------------------------------------
(* Payment events: processStripePaymentEvent, one serializable transaction *)
(* under the advisory lock of its PaymentIntent.                           *)

\* Every artwork of the reservation still is what the reservation left.
Intact(o) ==
    reservation[o] = "ACTIVE" =>
        \A a \in Reserved(o) :
            ~artwork[a].sold /\ artwork[a].stock = 1 /\ artwork[a].reserved = 1

\* Faulty variants: the reservation stays active; an ended reservation is sold too; the
\* stock of what is sold stays what it was.
SellReserved_leavingActive(o) ==
    /\ artwork' = [a \in Artworks |->
            IF reservation[o] = "ACTIVE" /\ a \in Reserved(o)
            THEN [artwork[a] EXCEPT !.stock = 0, !.reserved = 0, !.sold = TRUE] ELSE artwork[a]]
    /\ UNCHANGED reservation

SellReserved_anyStatus(o) ==
    /\ reservation' = [reservation EXCEPT ![o] = "CONSUMED"]
    /\ artwork' = [a \in Artworks |->
            IF a \in Reserved(o)
            THEN [artwork[a] EXCEPT !.stock = 0, !.reserved = 0, !.sold = TRUE] ELSE artwork[a]]

SellReserved_keepingStock(o) ==
    IF reservation[o] = "ACTIVE"
    THEN /\ artwork' = [a \in Artworks |->
                IF a \in Reserved(o)
                THEN [artwork[a] EXCEPT !.reserved = 0, !.sold = TRUE] ELSE artwork[a]]
         /\ reservation' = [reservation EXCEPT ![o] = "CONSUMED"]
    ELSE UNCHANGED <<artwork, reservation>>

SellReserved(o) ==
    IF reservation[o] = "ACTIVE"
    THEN /\ artwork' = [a \in Artworks |->
                IF a \in Reserved(o)
                THEN [artwork[a] EXCEPT !.stock = 0, !.reserved = 0, !.sold = TRUE]
                ELSE artwork[a]]
         /\ reservation' = [reservation EXCEPT ![o] = "CONSUMED"]
    ELSE UNCHANGED <<artwork, reservation>>

\* Faulty variants: the reservation ends and its artworks stay reserved; nothing is released.
ReleaseReserved_keepingCounters(o, status) ==
    /\ reservation' = [reservation EXCEPT ![o] = IF @ = "ACTIVE" THEN status ELSE @]
    /\ UNCHANGED artwork

ReleaseReserved_never(o, status) == UNCHANGED <<artwork, reservation>>

ReleaseReserved(o, status) ==
    IF reservation[o] = "ACTIVE"
    THEN /\ artwork' = [a \in Artworks |->
                IF a \in Reserved(o) THEN [artwork[a] EXCEPT !.reserved = 0] ELSE artwork[a]]
         /\ reservation' = [reservation EXCEPT ![o] = status]
    ELSE UNCHANGED <<artwork, reservation>>

\* The same cart version was bought: empty the cart.  Otherwise take out what was bought.
RemovePurchased(o) ==
    LET u == order[o].user
        kept == IF cart[u].version = order[o].version THEN {} ELSE cart[u].items \ Items(o)
    IN  cart' = IF kept = cart[u].items THEN cart
                ELSE [cart EXCEPT ![u] = [version |-> @.version + 1, items |-> kept]]

ChargeMismatch(o, charge) ==
    /\ payment[o].charge # 0 /\ charge # 0 /\ charge # payment[o].charge
    /\ ~canRotateProviderCharge(payment[o].status, order[o].status)

\* Validation failed: park the order for review, record the event as processed.
FlagForReview(e) ==
    /\ order' = [order EXCEPT ![e.order].status =
                    IF canTransitionOrder(@, "PAYMENT_REVIEW") THEN "PAYMENT_REVIEW" ELSE @]
    /\ processed' = processed \cup {e}
    /\ UNCHANGED <<cart, artwork, customer, reservation, payment, fulfilled>>

\* The payment and its order each move to the event's target if their own table allows it.
ApplyEvent(e) ==
    LET o == e.order
        target == EVENT_TARGETS[e.type]
        nextPayment == IF canTransitionPayment(payment[o].status, target.payment)
                       THEN target.payment ELSE payment[o].status
        nextOrder == IF canTransitionOrder(order[o].status, target.order)
                     THEN target.order ELSE order[o].status
        selling == /\ e.type = "succeeded" /\ nextOrder = "PAID"
                   /\ nextPayment = "SUCCEEDED" /\ order[o].status # "PAID"
        releasing == e.type = "canceled" /\ nextOrder = "CANCELED"
    IN  /\ selling \/ releasing => Intact(o)
        /\ \/ selling /\ SellReserved(o) /\ RemovePurchased(o)
           \/ releasing /\ ReleaseReserved(o, "RELEASED") /\ UNCHANGED cart
           \/ ~selling /\ ~releasing /\ UNCHANGED <<artwork, reservation, cart>>
        /\ payment' = [payment EXCEPT ![o].status = nextPayment,
                                      ![o].charge = IF e.charge = 0 THEN @ ELSE e.charge]
        /\ order' = [order EXCEPT ![o].status = nextOrder]
        /\ fulfilled' = IF nextOrder = "PAID" THEN fulfilled \cup {o} ELSE fulfilled
        /\ processed' = processed \cup {e}
        /\ UNCHANGED customer

\* A replay changes nothing; neither does an event whose intent no payment row is
\* linked to yet (it is answered 500 and delivered again).
ProcessEvent(e) ==
    \/ (e \in processed \/ ~payment[e.order].linked) /\ UNCHANGED database
    \/ /\ e \notin processed /\ payment[e.order].linked
       /\ IF Mismatched(e.order) \/ ChargeMismatch(e.order, e.charge)
          THEN FlagForReview(e)
          ELSE ApplyEvent(e)

\* The webhook endpoint: the provider delivers any event it sent, in any order, repeatedly.
Webhook(e) ==
    /\ e \in sent
    /\ ProcessEvent(e)
    /\ UNCHANGED <<provider, work>>

-----------------------------------------------------------------------------
(* Handlers.                                                               *)

At(w, step) == work[w].pc = step
Become(w, record) == work' = [work EXCEPT ![w] = record]
Finish(w) == Become(w, Idle)

\* The payment row as the handler has just read it.
Reading(record, o) ==
    [record EXCEPT !.order = o, !.paid = payment[o].status, !.linked = payment[o].linked]

\* The orders a cancellation loop goes through, as one query returned them.
Fetched(S) == {[order |-> o, linked |-> payment[o].linked] : o \in S}

\* Faulty variant: a checkout swallows the failure to cancel and goes on to its own order.
Fail_swallowed(w) ==
    /\ ~At(w, "idle")
    /\ IF work[w].job = "checkout" /\ At(w, "cancelStripe")
       THEN Become(w, [work[w] EXCEPT !.pc = "create", !.order = None, !.todo = {}])
       ELSE Finish(w)
    /\ UNCHANGED <<database, provider>>

\* A handler dies, or a query or a provider call fails: a request reports the
\* error; the expiration sweep catches it and goes on with its next order.
Fail(w) ==
    /\ ~At(w, "idle")
    /\ \/ Finish(w)
       \/ /\ work[w].job = "expiry" /\ work[w].todo # {} /\ ~At(w, "cancel")
          /\ Become(w, [work[w] EXCEPT !.pc = "cancel"])
    /\ UNCHANGED <<database, provider>>

(* initializeCheckout *)

\* getOrCreateIdempotencyKey of the checkout page.
ClientKey(tab, u, lines) ==
    [tab |-> tab, version |-> cart[u].version, lines |-> lines, scope |-> 0]

\* The browser submits the cart it displays; the server first compares it with the cart.
\* A request found outdated skips the renewal and the cancellations, and is refused only
\* when it creates its order, if its prices still (or again) are not the cart's.
BeginCheckout(w, u, tab) ==
    \E lines \in [cart[u].items -> Prices] :
        /\ At(w, "idle")
        /\ Become(w, [Idle EXCEPT
                !.pc = IF lines = CartLines(u) THEN "renew" ELSE "outdated",
                !.job = "checkout", !.user = u, !.key = ClientKey(tab, u, lines),
                !.version = cart[u].version, !.lines = lines])
        /\ UNCHANGED <<database, provider>>

\* The browser repeats, key included, the request that created an order when the
\* cart has changed since.  (Any other outdated request is refused.)
RepeatCheckout(w, o) ==
    /\ At(w, "idle") /\ o \in Placed /\ order[o].key.scope = 0
    /\ order[o].version # cart[order[o].user].version
    /\ Become(w, [Idle EXCEPT
            !.pc = "outdated", !.job = "checkout", !.user = order[o].user, !.key = order[o].key,
            !.version = order[o].version, !.lines = order[o].lines])
    /\ UNCHANGED <<database, provider>>

\* The order of this very cart version was canceled: move the cart to a fresh version.
RenewCanceledCheckoutSnapshot(w) ==
    LET u == work[w].user
        renewed == /\ cart[u].version = work[w].version
                   /\ \E o \in OrdersAt(u, work[w].version) : order[o].status = "CANCELED"
    IN  /\ At(w, "renew")
        /\ BumpIf(u, renewed)
        /\ Become(w, IF renewed
                     THEN [work[w] EXCEPT !.pc = "reread", !.version = @ + 1,
                                          !.key.scope = work[w].version + 1]
                     ELSE [work[w] EXCEPT !.pc = "list"])
        /\ UNCHANGED <<artwork, customer, order, reservation, payment, fulfilled, processed,
                       provider>>

RereadCart(w) ==
    LET u == work[w].user
    IN  /\ At(w, "reread")
        /\ Become(w, [work[w] EXCEPT
                !.pc = IF cart[u].version = work[w].version THEN "list" ELSE "outdated",
                !.lines = CartLines(u)])
        /\ UNCHANGED <<database, provider>>

\* cancelSupersededCheckouts: the buyer's open orders for any other priced cart.
ListSuperseded(w) ==
    LET obsolete == {o \in OpenOrders :
            /\ order[o].user = work[w].user
            /\ ~(order[o].version = work[w].version /\ order[o].lines = work[w].lines)}
    IN  /\ At(w, "list")
        /\ Become(w, IF obsolete = {} THEN [work[w] EXCEPT !.pc = "create"]
                     ELSE [work[w] EXCEPT !.pc = "cancel", !.todo = Fetched(obsolete)])
        /\ UNCHANGED <<database, provider>>

\* A checkout request reaches createPendingCheckout, outdated or not.
Creating(w) == At(w, "create") \/ At(w, "outdated")

\* createPendingCheckout finds the order of this key, or the one of this cart version.
ReuseOrder(w) ==
    LET u == work[w].user
        keyed == {o \in Placed : order[o].user = u /\ order[o].key = work[w].key}
        Same(o) == order[o].version = work[w].version /\ order[o].lines = work[w].lines
        current == /\ cart[u].version = work[w].version /\ CartLines(u) = work[w].lines
                   /\ cart[u].items # {}
    IN  /\ Creating(w)
        /\ \E o \in Placed :
              /\ \/ o \in keyed /\ Same(o)
                 \/ keyed = {} /\ current /\ o \in OrdersAt(u, work[w].version)
              /\ Become(w, [Reading(Idle, o) EXCEPT !.pc = "intent", !.job = "checkout"])
        /\ UNCHANGED <<database, provider>>

\* ... or creates the order with its reservations and its payment, under the cart's
\* and the artworks' row locks, and reserves every exclusive artwork or none.
CreateOrder(w, o) ==
    LET u == work[w].user
        c == work[w]
    IN  /\ Creating(w) /\ o \notin Placed
        /\ ~\E old \in Placed : order[old].user = u /\ order[old].key = c.key
        /\ cart[u].version = c.version /\ CartLines(u) = c.lines
        /\ OrdersAt(u, c.version) = {}
        /\ Payable(u)
        /\ order' = [order EXCEPT ![o] =
                [status |-> "PENDING_PAYMENT", user |-> u, version |-> c.version,
                 lines |-> c.lines, key |-> c.key, expired |-> FALSE]]
        /\ payment' = [payment EXCEPT ![o] = NoPayment]
        /\ reservation' = [reservation EXCEPT ![o] =
                IF cart[u].items \cap Exclusive = {} THEN "NONE" ELSE "ACTIVE"]
        /\ artwork' = [a \in Artworks |->
                IF a \in cart[u].items \cap Exclusive
                THEN [artwork[a] EXCEPT !.reserved = 1] ELSE artwork[a]]
        /\ Become(w, [Idle EXCEPT !.pc = "intent", !.job = "checkout", !.order = o])
        /\ UNCHANGED <<cart, customer, fulfilled, processed, provider>>

\* createOrRetrievePaymentIntent asks the provider.  An intent made for another customer
\* is not used, unless the provider could not say who the buyer's customer is.  Creating
\* again under the same idempotency key replays the answer of the first creation, and is
\* refused with another customer than the first time (Fail).
CreateOrRetrieveIntent(w) ==
    LET o == work[w].order
        See(status, charge) ==
            Become(w, [work[w] EXCEPT !.pc = "link",
                                      !.seen = [status |-> status, charge |-> charge]])
    IN  /\ At(w, "intent")
        /\ UNCHANGED <<database, sent>>
        /\ \/ /\ work[w].linked
              /\ \/ See(intent[o].status, intent[o].charge)
                 \/ Mismatched(o) /\ Become(w, [work[w] EXCEPT !.pc = "park"])
              /\ UNCHANGED intent
           \/ /\ ~work[w].linked
              /\ See("requires_payment_method", 0)
              /\ \/ intent[o].status # "none" /\ ~Mismatched(o) /\ UNCHANGED intent
                 \/ /\ intent[o].status = "none"
                    /\ intent' = [intent EXCEPT ![o].status = "requires_payment_method",
                                                ![o].customer = customer[order[o].user]]

\* markOrderForReview: park the order, if it still is open, and answer with an error.
MarkOrderForReview(w) ==
    /\ At(w, "park")
    /\ order' = [order EXCEPT ![work[w].order].status =
                     IF @ \in OPEN_ORDER_STATUSES THEN "PAYMENT_REVIEW" ELSE @]
    /\ Finish(w)
    /\ UNCHANGED <<cart, artwork, customer, reservation, payment, fulfilled, processed, provider>>

LinkIntent(w) ==
    /\ At(w, "link")
    /\ payment' = [payment EXCEPT ![work[w].order].linked = TRUE]
    /\ Become(w, [work[w] EXCEPT !.pc = "reconcile"])
    /\ UNCHANGED <<cart, artwork, customer, order, reservation, fulfilled, processed, provider>>

\* The event reconcilePaymentIntent synthesises: its id digests the intent it read.
SeenEvent(w) ==
    [source |-> "reconcile", order |-> work[w].order, charge |-> work[w].seen.charge,
     type |-> eventTypeForIntent(work[w].seen.status, work[w].paid)]

\* A response that lets the browser confirm carries the client secret.
Respond(w) ==
    /\ intent' = [intent EXCEPT ![work[w].order].secret =
                      @ \/ isPaymentIntentReusable(work[w].seen.status)]
    /\ Finish(w)
    /\ UNCHANGED sent

\* reconcilePaymentIntent: nothing to reconcile, or the synthesised event is processed.
Reconcile(w) ==
    LET nothing == eventTypeForIntent(work[w].seen.status, work[w].paid) = "none"
        job == work[w].job
    IN  /\ At(w, "reconcile")
        /\ IF nothing THEN UNCHANGED database ELSE ProcessEvent(SeenEvent(w))
        /\ \/ /\ job = "checkout" /\ nothing
              /\ Become(w, [work[w] EXCEPT !.pc = "settle"]) /\ UNCHANGED provider
           \/ /\ job = "resume" /\ isPaymentIntentReusable(work[w].seen.status)
              /\ Become(w, [work[w] EXCEPT !.pc = IF nothing THEN "reopen" ELSE "reload"])
              /\ UNCHANGED provider
           \/ /\ job = "checkout" /\ ~nothing
              /\ Respond(w)
           \/ /\ \/ job = "resume" /\ ~isPaymentIntentReusable(work[w].seen.status)
                 \/ job = "monitor"
              /\ Finish(w) /\ UNCHANGED provider

\* The last write of a checkout: the payment takes the status of the intent as it was read.
Settle(w) ==
    /\ At(w, "settle")
    /\ payment' = [payment EXCEPT ![work[w].order].status =
                       mapStripePaymentStatus(work[w].seen.status)]
    /\ Respond(w)
    /\ UNCHANGED <<cart, artwork, customer, order, reservation, fulfilled, processed>>

(* resumeCheckout *)

BeginResume(w, o) ==
    /\ At(w, "idle") /\ o \in OpenOrders
    /\ LET c == [Reading(Idle, o) EXCEPT !.job = "resume", !.user = order[o].user,
                                         !.status = order[o].status,
                                         !.customer = customer[order[o].user]]
       IN  Become(w, IF order[o].expired
                     THEN [c EXCEPT !.pc = "cancel", !.reason = "EXPIRED",
                                    !.todo = Fetched({o})]
                     ELSE [c EXCEPT !.pc = "cart"])
    /\ UNCHANGED <<database, provider>>

\* The cart is not the one the order was made from: cancel; else retrieve the intent.
CheckCart(w) ==
    LET o == work[w].order
        u == work[w].user
        old == [order |-> o, linked |-> work[w].linked]
    IN  /\ At(w, "cart")
        /\ \/ /\ cart[u].version # order[o].version \/ CartLines(u) # order[o].lines
              /\ Become(w, [work[w] EXCEPT !.pc = "cancel", !.todo = {old}])
           \/ /\ cart[u].version = order[o].version /\ CartLines(u) = order[o].lines
              /\ IF work[w].linked THEN Become(w, [work[w] EXCEPT !.pc = "retrieve"])
                                   ELSE Finish(w)
        /\ UNCHANGED <<database, provider>>

\* Also the reconciliation sweep's read of the intent, which checks nothing more.  A resume
\* compares its customer with the buyer's as the first query of the resume read it.
RetrieveIntent(w) ==
    LET o == work[w].order
        mismatch == work[w].job = "resume" /\ intent[o].customer # work[w].customer
        canceled == work[w].job = "resume" /\ intent[o].status = "canceled"
    IN  /\ At(w, "retrieve")
        /\ Become(w,
              IF mismatch THEN [work[w] EXCEPT !.pc = "park"]
              ELSE IF canceled
              THEN [work[w] EXCEPT !.pc = "cancel", !.todo = {[order |-> o, linked |-> TRUE]}]
              ELSE [work[w] EXCEPT !.pc = "reconcile",
                       !.seen = [status |-> intent[o].status, charge |-> intent[o].charge]])
        /\ UNCHANGED <<database, provider>>

ReloadOrder(w) ==
    LET o == work[w].order
    IN  /\ At(w, "reload")
        /\ Become(w, [Reading(work[w], o) EXCEPT !.pc = "reopen",
                                                 !.status = order[o].status])
        /\ UNCHANGED <<database, provider>>

\* The last write of a resume, decided from what was read before the provider was asked.
Reopen(w) ==
    LET o == work[w].order
    IN  /\ At(w, "reopen")
        /\ payment' = [payment EXCEPT ![o].status =
                IF canTransitionPayment(work[w].paid, "PENDING") THEN "PENDING" ELSE @]
        /\ order' = [order EXCEPT ![o].status =
                IF canTransitionOrder(work[w].status, "PENDING_PAYMENT")
                THEN "PENDING_PAYMENT" ELSE @]
        /\ Respond(w)
        /\ UNCHANGED <<cart, artwork, customer, reservation, fulfilled, processed>>

(* The sweeps *)

\* Faulty variant: orders whose last attempt failed are not looked at.
BeginExpiry_pendingOnly(w) ==
    LET stale == {o \in OpenOrders : order[o].expired /\ order[o].status = "PENDING_PAYMENT"}
    IN  /\ At(w, "idle") /\ stale # {}
        /\ Become(w, [Idle EXCEPT !.pc = "cancel", !.job = "expiry", !.reason = "EXPIRED",
                                  !.todo = Fetched(stale)])
        /\ UNCHANGED <<database, provider>>

\* expireStaleCheckouts
BeginExpiry(w) ==
    LET stale == {o \in OpenOrders : order[o].expired}
    IN  /\ At(w, "idle") /\ stale # {}
        /\ Become(w, [Idle EXCEPT !.pc = "cancel", !.job = "expiry", !.reason = "EXPIRED",
                                  !.todo = Fetched(stale)])
        /\ UNCHANGED <<database, provider>>

\* Faulty variant: only orders known to be processing are looked at.
BeginMonitor_processingOnly(w, o) ==
    /\ At(w, "idle") /\ order[o].status = "PAYMENT_PROCESSING" /\ payment[o].linked
    /\ Become(w, [Reading(Idle, o) EXCEPT !.pc = "retrieve", !.job = "monitor"])
    /\ UNCHANGED <<database, provider>>

\* reconcileStalePayments, one order of its batch.
BeginMonitor(w, o) ==
    /\ At(w, "idle") /\ o \in OpenOrders /\ payment[o].linked
    /\ Become(w, [Reading(Idle, o) EXCEPT !.pc = "retrieve", !.job = "monitor"])
    /\ UNCHANGED <<database, provider>>

(* cancelOrderSafely, called by the checkout, the resume and the expiration sweep *)

\* Take the next order of the loop and read its intent, if the row that was read had one.
CancelNext(w, old) ==
    LET status == intent[old.order].status
    IN  /\ At(w, "cancel") /\ old \in work[w].todo
        /\ Become(w, [work[w] EXCEPT
                !.todo = @ \ {old}, !.order = old.order,
                !.seen.charge = intent[old.order].charge,
                !.pc = IF ~old.linked \/ status = "canceled" THEN "cancelLocal"
                       ELSE IF status = "succeeded" THEN "protect" ELSE "cancelStripe"])
        /\ UNCHANGED <<database, provider>>

\* The provider refuses to cancel what is processing or has succeeded (the handler fails).
CancelAtProvider(w) ==
    LET o == work[w].order
    IN  /\ At(w, "cancelStripe")
        /\ \/ /\ isPaymentIntentReusable(intent[o].status)
              /\ Announce(o, "canceled", intent[o].charge)
           \/ intent[o].status = "canceled" /\ UNCHANGED provider
        /\ Become(w, [work[w] EXCEPT !.pc = "cancelLocal"])
        /\ UNCHANGED database

\* The loop goes on; when it is over a checkout continues unless its own version went.
AfterCancel(w, refused) ==
    Become(w, IF work[w].todo # {} THEN [work[w] EXCEPT !.pc = "cancel", !.refused = refused]
              ELSE IF work[w].job = "checkout" /\ ~refused
              THEN [work[w] EXCEPT !.pc = "create", !.order = None,
                                   !.seen = Idle.seen]
              ELSE Idle)

\* Faulty variant: the order is not looked at again under the lock.
CancelLocally_unchecked(w) ==
    LET o == work[w].order
    IN  /\ At(w, "cancelLocal") /\ Intact(o)
        /\ ReleaseReserved(o, work[w].reason)
        /\ order' = [order EXCEPT ![o].status = "CANCELED"]
        /\ AfterCancel(w, work[w].refused)
        /\ UNCHANGED <<cart, customer, payment, fulfilled, processed, provider>>

\* finalizeLocalCancellation, one serializable transaction.
CancelLocally(w) ==
    LET o == work[w].order
        u == order[o].user
    IN  /\ At(w, "cancelLocal") /\ o \in OpenOrders /\ Intact(o)
        /\ ReleaseReserved(o, work[w].reason)
        /\ order' = [order EXCEPT ![o].status = "CANCELED"]
        /\ BumpIf(u, cart[u].version = order[o].version)
        /\ payment' = [payment EXCEPT ![o].status =
                IF canTransitionPayment(@, "CANCELED") THEN "CANCELED" ELSE @]
        /\ AfterCancel(w, work[w].refused \/ order[o].version = work[w].version)
        /\ UNCHANGED <<customer, fulfilled, processed, provider>>

AlreadyClosed(w) ==
    /\ At(w, "cancelLocal") /\ work[w].order \notin OpenOrders
    /\ AfterCancel(w, work[w].refused)
    /\ UNCHANGED <<database, provider>>

\* The payment had succeeded: finalize it instead.  Only the sweep goes on.
ProtectPayment(w) ==
    /\ At(w, "protect")
    /\ ProcessEvent([source |-> "reconcile", order |-> work[w].order,
                     type |-> "succeeded", charge |-> work[w].seen.charge])
    /\ IF work[w].job = "expiry" THEN AfterCancel(w, FALSE) ELSE Finish(w)
    /\ UNCHANGED provider

-----------------------------------------------------------------------------
HandlerStep(w) ==
    \/ RenewCanceledCheckoutSnapshot(w) \/ RereadCart(w) \/ ListSuperseded(w)
    \/ ReuseOrder(w) \/ (\E o \in Orders : CreateOrder(w, o))
    \/ CreateOrRetrieveIntent(w) \/ LinkIntent(w) \/ Reconcile(w) \/ Settle(w)
    \/ MarkOrderForReview(w) \/ CheckCart(w) \/ RetrieveIntent(w) \/ ReloadOrder(w) \/ Reopen(w)
    \/ (\E old \in work[w].todo : CancelNext(w, old))
    \/ CancelAtProvider(w) \/ CancelLocally(w) \/ AlreadyClosed(w) \/ ProtectPayment(w)

HandlerStart(w) ==
    \/ "checkout" \in Handlers /\ \E u \in Users, tab \in Tabs : BeginCheckout(w, u, tab)
    \/ "repeat" \in Handlers /\ \E o \in Orders : RepeatCheckout(w, o)
    \/ "resume" \in Handlers /\ \E o \in Orders : BeginResume(w, o)
    \/ "monitor" \in Handlers /\ \E o \in Orders : BeginMonitor(w, o)
    \/ "expiry" \in Handlers /\ BeginExpiry(w)

Environment ==
    \/ \E u \in Users : ClearCart(u) \/ ReplaceCustomer(u)
    \/ \E u \in Users, a \in Artworks : SetCartItem(u, a) \/ RemoveCartItem(u, a)
    \/ \E a \in Artworks, p \in Prices : EditPrice(a, p)
    \/ \E o \in Orders : Expire(o) \/ Confirm(o) \/ BankAnswers(o) \/ ProviderCancels(o)
    \/ \E e \in sent : Webhook(e)

Next == Environment \/ \E w \in Workers : HandlerStart(w) \/ HandlerStep(w) \/ Fail(w)

Spec == Init /\ [][Next]_vars

(***************************************************************************)
(* What the scheduling justifies.  A handler in progress moves or dies.    *)
(* The sweeps run on a timer for ever, so that whenever a step of a sweep  *)
(* is possible again and again some attempt gets through it (strong        *)
(* fairness: attempts may fail any number of times).  Banks answer.        *)
(* Webhooks get no fairness here: they may all be lost.                    *)
(***************************************************************************)
Fairness ==
    /\ \A w \in Workers :
          /\ WF_vars(HandlerStep(w) \/ Fail(w))
          /\ SF_vars("expiry" \in Handlers /\ BeginExpiry(w))
          /\ SF_vars(work[w].job = "expiry" /\ \E old \in work[w].todo : CancelNext(w, old))
          /\ SF_vars(work[w].job = "expiry" /\ CancelAtProvider(w))
          /\ SF_vars(work[w].job = "expiry" /\ (CancelLocally(w) \/ AlreadyClosed(w)))
          /\ SF_vars(work[w].job = "expiry" /\ ProtectPayment(w))
          /\ \A o \in Orders : SF_vars("monitor" \in Handlers /\ BeginMonitor(w, o))
          /\ SF_vars(work[w].job = "monitor" /\ RetrieveIntent(w))
          /\ SF_vars(work[w].job = "monitor" /\ Reconcile(w))
    /\ \A o \in Orders : WF_vars(BankAnswers(o))

FairSpec == Spec /\ Fairness

-----------------------------------------------------------------------------
(* Safety.                                                                 *)

Holding(o) == reservation[o] \in {"ACTIVE", "CONSUMED"}

\* Two orders never hold the same exclusive artwork, whatever handlers race: this is
\* the double sale the conditional update in createPendingCheckout must prevent.
NoDoubleAllocation ==
    \A o1, o2 \in Orders : o1 # o2 /\ Holding(o1) /\ Holding(o2)
                               => Reserved(o1) \cap Reserved(o2) = {}

\* The counters of an exclusive artwork agree with the reservation rows at all times:
\* no path releases, consumes or forgets one without the other.
InventoryConsistent ==
    \A a \in Exclusive :
        LET Held(status) == \E o \in Orders : reservation[o] = status /\ a \in Reserved(o)
        IN  /\ artwork[a].reserved = 1 <=> Held("ACTIVE")
            /\ artwork[a].sold <=> Held("CONSUMED")
            /\ artwork[a].stock = 0 <=> artwork[a].sold

\* No order is paid, and no artwork sold, without its fulfillment being enqueued in the
\* same transaction; and fulfillment never starts while the artworks are only reserved.
FinalizedTogether ==
    \A o \in Orders :
        /\ order[o].status = "PAID" \/ reservation[o] = "CONSUMED" => o \in fulfilled
        /\ o \in fulfilled => reservation[o] # "ACTIVE"

\* Nothing is sold, delivered or called paid unless the provider captured the money:
\* a handler's stale reading of an intent never stands for a capture.
NothingGivenUnpaid ==
    \A o \in Orders :
        o \in fulfilled \/ order[o].status = "PAID" \/ reservation[o] = "CONSUMED"
            => intent[o].status = "succeeded"

\* A reservation is held only for an order somebody can still pay, expire or review:
\* no interleaving of cancellations and events leaves artworks locked by a closed order.
NoOrphanReservation ==
    \A o \in Orders : reservation[o] = "ACTIVE"
                          => order[o].status \in OPEN_ORDER_STATUSES \cup {"PAYMENT_REVIEW"}

\* The buyer pays the listed price: as long as an order holds an artwork, its artist cannot
\* have changed the price behind the order, neither before the insert nor after it.
HeldAtListedPrice ==
    \A o \in Orders : reservation[o] = "ACTIVE" =>
        \A a \in Reserved(o) : order[o].lines[a] = artwork[a].price

\* A payment recorded as succeeded names the charge that was captured, however late or
\* out of order the events of its earlier, failed charges arrive.
SucceededByItsCharge ==
    \A o \in Orders : payment[o].status = "SUCCEEDED" => payment[o].charge = intent[o].charge

\* What a paid order may turn into within these handlers is nothing, with one culprit:
\* only the last write of a resume that read the order before it was paid reopens it.
OnlyStaleResumeReopensPaid ==
    [][\A o \in Orders :
          order[o].status = "PAID" /\ order'[o].status # "PAID"
              => \E w \in Workers : Reopen(w) /\ work[w].order = o]_vars

\* Two open orders of one buyer hold artworks.
Rivals(o1, o2) ==
    /\ {o1, o2} \subseteq OpenOrders /\ o1 # o2 /\ order[o1].user = order[o2].user
    /\ reservation[o1] = "ACTIVE" /\ reservation[o2] = "ACTIVE"

\* The intent was made for a provider customer that the buyer has since replaced.
Outgrown(o) == intent[o].status # "none" /\ Mismatched(o)

\* A buyer gets no second open order that holds artworks: the previous checkout is canceled
\* before the next one reserves anything, although the list of superseded orders is read
\* long before the new order is created.  Two ways around that are left: a request whose
\* page was outdated cancels nothing and creates its order all the same if the cart is
\* again what the page showed; and an order parked because the buyer's provider customer
\* was replaced is on no list, but a resume that began earlier reopens it.
SingleActiveCheckout ==
    [][\A o1, o2 \in Orders : Rivals(o1, o2)' =>
          \/ Rivals(o1, o2)
          \/ Outgrown(o1)' \/ Outgrown(o2)'
          \/ \E w \in Workers, o \in {o1, o2} : At(w, "outdated") /\ CreateOrder(w, o)]_vars

\* A reservation ends once: a sold artwork is never released, nor a released one sold,
\* by a late event, a second sweep or a second success.
ReservationEndsOnce ==
    [][\A o \in Orders : reservation[o] \in {"CONSUMED", "RELEASED", "EXPIRED"}
                             => reservation'[o] = reservation[o]]_vars

(***************************************************************************)
(* Liveness, under FairSpec.                                               *)
(***************************************************************************)
\* An expired order does not hold its artworks for ever, whatever requests, failures
\* and provider answers race the sweep: they are freed or sold, or the order is parked.
ExpiredReservationFreed ==
    \A o \in Orders :
        reservation[o] = "ACTIVE" /\ order[o].expired
            ~> reservation[o] # "ACTIVE" \/ order[o].status = "PAYMENT_REVIEW"

\* A captured payment reaches its order even if every webhook is lost: the sweeps alone
\* sell the reserved artworks (or park the order).
CaptureReachesInventory ==
    \A o \in Orders :
        intent[o].status = "succeeded" /\ reservation[o] = "ACTIVE"
            ~> reservation[o] = "CONSUMED" \/ order[o].status = "PAYMENT_REVIEW"

-----------------------------------------------------------------------------
(* What the documents promise and the code does not keep.                  *)

\* ARTWORK_LICENCES_QA.md, LIC-REL-02: the provider's intent is canceled before the local
\* release, so that no browser can pay for a canceled order.
CanceledIsNotPayable ==
    \A o \in Orders : order[o].status = "CANCELED" =>
        intent[o].status \in {"none", "canceled"} \/ ~intent[o].secret
=============================================================================
