------------------------------ MODULE Checkout -------------------------------
(***************************************************************************)
(* OrderService.createOrder: concurrent checkout requests against a        *)
(* catalog and merchant records that change under them.                    *)
(*                                                                         *)
(* A request reads the listings, then the merchant, then the two           *)
(* locations, each in a query of its own, computes the advance cap from    *)
(* what it read, and writes order, items and pending transaction in one    *)
(* transaction.  Nothing is locked between the reads and the write.        *)
(***************************************************************************)
EXTENDS Money, DeliveryClock

CONSTANTS
    Requests,       \* POST /orders requests
    Commands,       \* what they may ask for: see CartCommands
    Listings,       \* identifiers a cart can name
    ListingRows,    \* contents a listing row may have
    Merchants,
    MerchantRows,   \* contents a merchant's role row may have
    NoLocation,     \* the NULL of pickup_location_id
    NoRef,          \* the NULL of the payment reference of a new order
    Amounts,        \* the totals and advances, in poisha, of possible orders
    MaxEdits        \* how often listings and merchants are edited meanwhile

Methods == {"bkash", "nagad", "cod", "escrow"}

NoStock == -1  \* stock_qty IS NULL: stock is not tracked

(* An amount NUMERIC(12,2) can hold.                                       *)
Storable(text) ==
    text.whole <= MaxTaka /\ Len(text.fraction) = 2

(* A price column is not negative; a request is validated before it gets   *)
(* here (CreateOrderDto): whole quantities, a whole non-negative advance,  *)
(* at least one line.                                                      *)
ASSUME CheckoutAssumption ==
    /\ MaxEdits \in Nat /\ Amounts \subseteq Nat
    /\ \A row \in ListingRows :
          row.price \in TakaTexts /\ Storable(row.price) /\ ~row.price.negative
    /\ \A c \in Commands :
          /\ c.method \in Methods /\ c.advance \in Nat
          /\ c.lines # <<>> /\ c.lines \in Seq([listing : Listings, quantity : Nat])

(* A request that has not placed its order has no row, item or event.      *)
NotPlaced == [events |-> <<>>]

VARIABLES
    escrowEnabled,  \* ESCROW_ENABLED is 'true' in this deployment
    listing,   \* catalog rows
    merchant,  \* merchant role rows
    pc,        \* progress of each request
    cmd,       \* its command
    lines,     \* the cart lines as resolved from the catalog
    pickup,    \* the merchant's pickup location as read
    order,     \* the order it placed: rows of app_order, order_item, transaction
    edits

vars == <<escrowEnabled, listing, merchant, pc, cmd, lines, pickup, order, edits>>

stored == <<escrowEnabled, listing, merchant, edits>>

Init ==
    /\ escrowEnabled \in BOOLEAN
    /\ listing \in [Listings -> ListingRows]
    /\ merchant \in [Merchants -> MerchantRows]
    /\ pc = [r \in Requests |-> "new"]
    /\ cmd \in [Requests -> Commands]
    /\ lines = [r \in Requests |-> <<>>]
    /\ pickup = [r \in Requests |-> NoLocation]
    /\ order = [r \in Requests |-> NotPlaced]
    /\ edits = 0

(* Request r goes on to the step next, or is answered with an error.       *)
Continue(r, ok, next) == pc' = [pc EXCEPT ![r] = IF ok THEN next ELSE "rejected"]

------------------------------------------------------------------------------
(* One query for the whole cart, joined with the categories' flags.        *)
FindByIds(ids) == [l \in ids |-> listing[l]]

(* resolveCartLines: prices and flags come from the catalog, never from    *)
(* the client, one line per requested line and in its order.               *)
Resolved(request) ==
    LET rows == FindByIds({request[i].listing : i \in DOMAIN request}) IN
    [i \in DOMAIN request |->
        LET row == rows[request[i].listing] IN
        [listing |-> request[i].listing, quantity |-> request[i].quantity,
         unitPrice |-> TakaToPoisha(row.price), readyToShip |-> row.readyToShip,
         merchant |-> row.owner, restricted |-> row.restricted,
         licence |-> row.licence, stock |-> row.stock, active |-> row.active]]

Orderable(line, m) ==
    /\ line.active
    /\ ~line.restricted
    /\ ~line.licence
    /\ line.merchant = m
    /\ line.stock = NoStock \/ line.quantity <= line.stock
    /\ line.quantity >= 1

ResolveCart(r) ==
    LET found == Resolved(cmd[r].lines) IN
    /\ pc[r] = "new"
    /\ lines' = [lines EXCEPT ![r] = found]
    /\ Continue(r, \A i \in DOMAIN found : Orderable(found[i], cmd[r].merchant), "merchant")
    /\ UNCHANGED <<stored, cmd, pickup, order>>

FindMerchant(r) ==
    LET row == merchant[cmd[r].merchant] IN
    /\ pc[r] = "merchant"
    /\ pickup' = [pickup EXCEPT ![r] = row.pickup]
    /\ Continue(r, row.active /\ row.kyc = "verified" /\ row.pickup # NoLocation, "price")
    /\ UNCHANGED <<stored, cmd, lines, order>>

(* Asking for escrow lifts the cap only if a licensed provider is          *)
(* configured; otherwise the ordinary rules apply.                         *)
IsEscrow(c) == c.method = "escrow" /\ escrowEnabled

(* order.controller: priced by the server, zero until there is a rule; a   *)
(* fee sent by the client would change the cap.                            *)
DeliveryFee == 0

OrderTotal(r) == CartSubtotal(lines[r]) + DeliveryFee

AdvanceCap(r) == ComputeAdvanceCap(lines[r], OrderTotal(r), IsEscrow(cmd[r]))

(* The order's columns as insertOrder writes them.                         *)
NewOrderRecord(r) ==
    [status |-> "created", method |-> cmd[r].method,
     totalBdt |-> PoishaToTaka(OrderTotal(r)),
     advanceBdt |-> PoishaToTaka(cmd[r].advance),
     capBdt |-> PoishaToTaka(AdvanceCap(r).cap),
     isEscrow |-> AdvanceCap(r).reason = "escrow",
     allItemsReadyToShip |-> AdvanceCap(r).allItemsReadyToShip,
     isSameCity |-> IsSameCity(pickup[r], cmd[r].delivery)]

(* Mutant: an item's ready_to_ship is a live reference to the listing.     *)
InsertItemsLive(r) ==
    [i \in DOMAIN lines[r] |->
        [listing |-> lines[r][i].listing, quantity |-> lines[r][i].quantity,
         unitPriceBdt |-> PoishaToTaka(lines[r][i].unitPrice),
         readyToShip |-> listing[lines[r][i].listing].readyToShip]]

(* insertItems: price and basis of the cap as they were read.              *)
InsertItems(r) ==
    [i \in DOMAIN lines[r] |->
        [listing |-> lines[r][i].listing, quantity |-> lines[r][i].quantity,
         unitPriceBdt |-> PoishaToTaka(lines[r][i].unitPrice),
         readyToShip |-> lines[r][i].readyToShip]]

(* Mutant: the first status is only the column, no event records it.       *)
RecordNoEvent == <<>>

(* recordStatusEvent, with the fromStatus null of a new order.             *)
RecordStatusEvent == <<[from |-> "none", to |-> "created"]>>

InsertPendingTransaction(r) ==
    [status |-> "pending",
     amountBdt |-> PoishaToTaka(IF cmd[r].method = "cod" THEN OrderTotal(r)
                                                         ELSE cmd[r].advance),
     isAdvance |-> cmd[r].method # "cod"]

(* Mutant: the rule that COD carries no advance is dropped.                *)
AcceptableCodAdvance(r) ==
    /\ AdvanceWithinCap(cmd[r].advance, AdvanceCap(r).cap)
    /\ PoishaToTaka(OrderTotal(r)) # MoneyError

(* The advance is rejected, not clamped, and an amount the column cannot   *)
(* hold throws.                                                            *)
Acceptable(r) ==
    /\ AdvanceWithinCap(cmd[r].advance, AdvanceCap(r).cap)
    /\ cmd[r].method = "cod" => cmd[r].advance = 0
    /\ PoishaToTaka(OrderTotal(r)) # MoneyError

(* The locations are read, the order is priced and checked.  Locations are *)
(* never updated, so reading them is not a step of its own.                *)
PriceOrder(r) ==
    /\ pc[r] = "price"
    /\ Continue(r, Acceptable(r), "insert")
    /\ UNCHANGED <<stored, cmd, lines, pickup, order>>

(* The transaction: order, items, first event, pending transaction and     *)
(* the order_confirmed notification.                                       *)
InsertOrder(r) ==
    /\ pc[r] = "insert"
    /\ pc' = [pc EXCEPT ![r] = "placed"]
    /\ order' = [order EXCEPT
                   ![r] = [row |-> NewOrderRecord(r), items |-> InsertItems(r),
                           events |-> RecordStatusEvent,
                           transaction |-> InsertPendingTransaction(r),
                           notified |-> {"order_confirmed"}]]
    /\ UNCHANGED <<stored, cmd, lines, pickup>>

(* A listing, merchant or location that is not there, a query that throws, *)
(* a transaction that is rolled back, or a process that dies.              *)
Fail(r) ==
    /\ pc[r] \in {"new", "merchant", "price", "insert"}
    /\ pc' = [pc EXCEPT ![r] = "rejected"]
    /\ UNCHANGED <<stored, cmd, lines, pickup, order>>

(* A merchant edits a listing; an administrator edits a merchant's role.   *)
EditListing(l, row) ==
    /\ edits < MaxEdits
    /\ edits' = edits + 1
    /\ listing' = [listing EXCEPT ![l] = row]
    /\ UNCHANGED <<escrowEnabled, merchant, pc, cmd, lines, pickup, order>>

EditMerchant(m, row) ==
    /\ edits < MaxEdits
    /\ edits' = edits + 1
    /\ merchant' = [merchant EXCEPT ![m] = row]
    /\ UNCHANGED <<escrowEnabled, listing, pc, cmd, lines, pickup, order>>

Next ==
    \/ \E r \in Requests :
          \/ ResolveCart(r)
          \/ FindMerchant(r)
          \/ PriceOrder(r)
          \/ InsertOrder(r)
          \/ Fail(r)
    \/ \E l \in Listings, row \in ListingRows : EditListing(l, row)
    \/ \E m \in Merchants, row \in MerchantRows : EditMerchant(m, row)

Spec == Init /\ [][Next]_vars

------------------------------------------------------------------------------
Placed == {r \in Requests : order[r] # NotPlaced}

(* The stored amounts of an order, in poisha.                              *)
Total(o) == TakaToPoisha(o.row.totalBdt)
Advance(o) == TakaToPoisha(o.row.advanceBdt)
AmountDue(o) == TakaToPoisha(o.transaction.amountBdt)

(* The order as the payment side sees it: what PaymentLedger calls terms.  *)
TermsOf(o) ==
    [cod |-> o.row.method = "cod", total |-> Total(o), advance |-> Advance(o),
     sameCity |-> o.row.isSameCity]

(* The committed rows of the ledger, read off the orders placed so far.    *)
LedgerTxn ==
    [r \in Requests |->
        IF r \in Placed
        THEN [status |-> order[r].transaction.status, ref |-> NoRef,
              amount |-> AmountDue(order[r]),
              isAdvance |-> order[r].transaction.isAdvance, settledAt |-> NoTime]
        ELSE [status |-> "none", ref |-> NoRef, amount |-> 0,
              isAdvance |-> FALSE, settledAt |-> NoTime]]

LedgerOrd ==
    [r \in Requests |->
        [status |-> IF r \in Placed THEN order[r].row.status ELSE "none",
         terms |-> IF r \in Placed THEN TermsOf(order[r])
                                   ELSE [cod |-> FALSE, total |-> 0,
                                         advance |-> 0, sameCity |-> FALSE],
         advancePaidAt |-> NoTime, deadlineAt |-> NoTime]]

LedgerTimeline ==
    [r \in Requests |-> IF r \in Placed THEN order[r].events ELSE <<>>]

LedgerOutbox ==
    UNION {{[order |-> r, ref |-> NoRef, event |-> e] : e \in order[r].notified} :
             r \in Placed}

Ledger ==
    INSTANCE PaymentLedger WITH
        Orders <- Requests, Refs <- {}, Notices <- {}, Times <- {},
        Terms <- [cod : BOOLEAN, total : Amounts, advance : Amounts,
                  sameCity : BOOLEAN],
        txn <- LedgerTxn, ord <- LedgerOrd, timeline <- LedgerTimeline,
        outbox <- LedgerOutbox

------------------------------------------------------------------------------
(* A placed order's columns have their types; in particular every amount   *)
(* fits its column, so the transaction does not fail half way.             *)
TypeOK ==
    /\ pc \in [Requests -> {"new", "merchant", "price", "insert", "placed", "rejected"}]
    /\ \A r \in Requests : order[r] # NotPlaced <=> pc[r] = "placed"
    /\ \A r \in Placed :
          /\ Storable(order[r].row.totalBdt) /\ Storable(order[r].row.advanceBdt)
          /\ Storable(order[r].row.capBdt)
          /\ Storable(order[r].transaction.amountBdt)

(* ADR-0005: the cap applied to an order is the one its OWN rows call for, *)
(* whatever happened to the listings while it was placed or since: total,  *)
(* ready-to-ship flag and cap follow from the item snapshots kept as       *)
(* evidence.                                                               *)
CapMatchesEvidence ==
    \A r \in Placed :
        LET o == order[r]
            evidence == [i \in DOMAIN o.items |->
                           [quantity |-> o.items[i].quantity,
                            unitPrice |-> TakaToPoisha(o.items[i].unitPriceBdt),
                            readyToShip |-> o.items[i].readyToShip]]
            cap == ComputeAdvanceCap(evidence, Total(o), o.row.isEscrow)
        IN  /\ Total(o) = CartSubtotal(evidence)
            /\ TakaToPoisha(o.row.capBdt) = cap.cap
            /\ o.row.allItemsReadyToShip = cap.allItemsReadyToShip

(* DCOG 2021, compliance rows C1 to C3: unless every item was ready to     *)
(* ship, or payment runs through the configured escrow provider, at most   *)
(* ten percent of the total is taken in advance; and never more than all.  *)
AdvanceLawful ==
    \A r \in Placed :
        LET o == order[r] IN
        /\ Advance(o) <= Total(o)
        /\ \/ 10 * Advance(o) <= Total(o)
           \/ \A i \in DOMAIN o.items : o.items[i].readyToShip
           \/ o.row.method = "escrow" /\ escrowEnabled

(* The pending transaction asks for what the order's own columns say is    *)
(* due: the whole total on delivery with no advance on record, or the      *)
(* advance now.                                                            *)
PaymentDue ==
    \A r \in Placed :
        LET o == order[r] IN
        IF o.transaction.isAdvance
        THEN o.row.method # "cod" /\ AmountDue(o) = Advance(o)
        ELSE o.row.method = "cod" /\ AmountDue(o) = Total(o) /\ Advance(o) = 0

(* createOrder is the ledger's PlaceOrder: whatever it read on the way and *)
(* wherever it fails, it adds nothing to the committed rows, or at once an *)
(* order with its first event, the pending transaction of the amount the   *)
(* settlement side expects, and the notification.  What SettlementProofs   *)
(* shows of payments holds of the orders placed here.                      *)
PlacesLedgerOrders == Ledger!LedgerSpec
==============================================================================
