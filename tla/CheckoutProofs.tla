--------------------------- MODULE CheckoutProofs ----------------------------
(***************************************************************************)
(* Proofs about createOrder, for any catalog, any carts and any number of  *)
(* concurrent requests and edits.                                          *)
(*                                                                         *)
(* The invariant says that everything a placed order stores is a function  *)
(* of what its request read and was asked for, neither of which changes    *)
(* afterwards; the properties are then facts about that function.          *)
(***************************************************************************)
EXTENDS Checkout, MoneyProofs

PCs == {"new", "merchant", "price", "insert", "placed", "rejected"}

(* The rows that InsertOrder writes for request r.                         *)
PlacedOrder(r) ==
    [row |-> NewOrderRecord(r), items |-> InsertItems(r),
     events |-> RecordStatusEvent,
     transaction |-> InsertPendingTransaction(r),
     notified |-> {"order_confirmed"}]

(* Priced lines: a cart with a storable, non-negative price on every line. *)
Priced(ls) ==
    /\ \E n \in Nat : DOMAIN ls = 1 .. n
    /\ \A i \in DOMAIN ls :
          /\ ls[i].unitPrice \in Nat /\ ls[i].unitPrice \div 100 <= MaxTaka
          /\ ls[i].quantity \in Nat

(* What the state of a request says about what it read, checked and wrote. *)
RequestOK(r) ==
    /\ pc[r] \in {"merchant", "price", "insert", "placed"} => Priced(lines[r])
    /\ pc[r] \in {"insert", "placed"} => Acceptable(r)
    /\ order[r] = IF pc[r] = "placed" THEN PlacedOrder(r) ELSE NotPlaced

(* The inductive invariant.                                                *)
CheckoutInv ==
    /\ pc \in [Requests -> PCs]
    /\ cmd \in [Requests -> Commands]
    /\ listing \in [Listings -> ListingRows]
    /\ DOMAIN lines = Requests /\ DOMAIN pickup = Requests /\ DOMAIN order = Requests
    /\ \A r \in Requests : RequestOK(r)

------------------------------------------------------------------------------
(* The amounts of an order.                                                *)

(* What a cart costs is a whole number of poisha.                          *)
LEMMA SubtotalType ==
    ASSUME NEW ls, Priced(ls)
    PROVE  CartSubtotal(ls) \in Nat
  <1> DEFINE amounts == [i \in DOMAIN ls |-> ls[i].unitPrice * ls[i].quantity]
  <1>1. PICK n \in Nat : DOMAIN ls = 1 .. n
    BY DEF Priced
  <1>2. \A i \in 1 .. n : ls[i].unitPrice \in Nat /\ ls[i].quantity \in Nat
    BY <1>1 DEF Priced
  <1>3. \A x, y \in Nat : x * y \in Nat
    OBVIOUS
  <1>4. amounts \in [1 .. n -> Nat]
    BY <1>1, <1>2, <1>3
  <1>5. amounts \in Seq(Nat)
    BY <1>4
  <1> HIDE DEF amounts
  <1>6. Sum(amounts) \in Nat
    BY <1>5, SumAddsUp
  <1> QED
    BY <1>6 DEF CartSubtotal, amounts

(* The cap is at most the total, whichever rule applies, and ten percent   *)
(* of it under the standard rule.                                          *)
LEMMA CapBounds ==
    ASSUME NEW ls, NEW total \in Nat, NEW isEscrow \in BOOLEAN
    PROVE  LET c == ComputeAdvanceCap(ls, total, isEscrow) IN
           /\ c.cap \in Nat /\ c.cap <= total
           /\ 10 * c.cap <= total \/ AllItemsReadyToShip(ls) \/ isEscrow
           /\ c.reason = "escrow" <=> isEscrow
           /\ c.allItemsReadyToShip = AllItemsReadyToShip(ls)
  <1> DEFINE c == ComputeAdvanceCap(ls, total, isEscrow)
             ten == PercentageOf(total, StandardAdvancePercent)
  <1>1. /\ ten \in Nat /\ ten <= total
        /\ 100 * ten <= StandardAdvancePercent * total
    BY StandardCapIsTight
  <1>2. 10 * ten <= total
    BY <1>1 DEF StandardAdvancePercent
  <1>3. /\ c.reason = CapReason(AllItemsReadyToShip(ls), isEscrow)
        /\ c.cap = Cap(c.reason, total)
        /\ c.allItemsReadyToShip = AllItemsReadyToShip(ls)
    BY DEF ComputeAdvanceCap
  <1> HIDE DEF c, ten
  <1>4. CASE isEscrow
    <2>1. c.reason = "escrow"
      BY <1>3, <1>4 DEF CapReason
    <2>2. c.cap = total
      BY <2>1, <1>3 DEF Cap
    <2>3. c.cap \in Nat /\ c.cap <= total
      BY <2>2
    <2> QED
      BY <2>1, <2>3, <1>3, <1>4, Zenon DEF c
  <1>5. CASE ~isEscrow /\ AllItemsReadyToShip(ls)
    <2>1. c.reason = "all_items_ready_to_ship"
      BY <1>3, <1>5 DEF CapReason
    <2>2. c.cap = total
      BY <2>1, <1>3 DEF Cap
    <2>3. c.cap \in Nat /\ c.cap <= total
      BY <2>2
    <2>4. c.reason # "escrow"
      BY <2>1
    <2> QED
      BY <2>3, <2>4, <1>3, <1>5, Zenon DEF c
  <1>6. CASE ~isEscrow /\ ~AllItemsReadyToShip(ls)
    <2>1. c.reason = "standard_cap"
      BY <1>3, <1>6 DEF CapReason
    <2>2. c.cap = ten
      BY <2>1, <1>3 DEF Cap, ten
    <2> QED
      BY <2>1, <2>2, <1>1, <1>2, <1>3, <1>6 DEF c
  <1> QED
    BY <1>4, <1>5, <1>6

(* The amounts of an accepted request: advance within cap within total,    *)
(* and all of them storable.                                               *)
LEMMA AcceptedAmounts ==
    ASSUME NEW r \in Requests, cmd[r] \in Commands, Priced(lines[r]), Acceptable(r)
    PROVE  /\ OrderTotal(r) \in Nat /\ OrderTotal(r) \div 100 <= MaxTaka
           /\ AdvanceCap(r).cap \in Nat /\ AdvanceCap(r).cap \div 100 <= MaxTaka
           /\ cmd[r].advance \in Nat /\ cmd[r].advance \div 100 <= MaxTaka
           /\ cmd[r].advance <= AdvanceCap(r).cap /\ AdvanceCap(r).cap <= OrderTotal(r)
           /\ OrderTotal(r) = CartSubtotal(lines[r])
           /\ \/ 10 * AdvanceCap(r).cap <= OrderTotal(r)
              \/ AllItemsReadyToShip(lines[r])
              \/ IsEscrow(cmd[r])
           /\ AdvanceCap(r).reason = "escrow" <=> IsEscrow(cmd[r])
           /\ AdvanceCap(r).allItemsReadyToShip = AllItemsReadyToShip(lines[r])
  <1>1. CartSubtotal(lines[r]) \in Nat
    BY SubtotalType
  <1>2. OrderTotal(r) \in Nat /\ OrderTotal(r) = CartSubtotal(lines[r])
    BY <1>1 DEF OrderTotal, DeliveryFee
  <1>3. OrderTotal(r) \div 100 <= MaxTaka
    BY <1>2, NotRefused DEF Acceptable
  <1>4. IsEscrow(cmd[r]) \in BOOLEAN
    BY DEF IsEscrow
  <1>5. /\ AdvanceCap(r).cap \in Nat /\ AdvanceCap(r).cap <= OrderTotal(r)
        /\ \/ 10 * AdvanceCap(r).cap <= OrderTotal(r)
           \/ AllItemsReadyToShip(lines[r])
           \/ IsEscrow(cmd[r])
        /\ AdvanceCap(r).reason = "escrow" <=> IsEscrow(cmd[r])
        /\ AdvanceCap(r).allItemsReadyToShip = AllItemsReadyToShip(lines[r])
    BY <1>2, <1>4, CapBounds DEF AdvanceCap
  <1>6. cmd[r].advance \in Nat /\ cmd[r].advance <= AdvanceCap(r).cap
    BY CheckoutAssumption DEF Acceptable, AdvanceWithinCap
  <1>7. \A x, y \in Nat : x <= y => x \div 100 <= y \div 100 /\ x \div 100 \in Nat /\ y \div 100 \in Nat
    OBVIOUS
  <1>8. /\ cmd[r].advance \div 100 <= MaxTaka
        /\ AdvanceCap(r).cap \div 100 <= MaxTaka
    <2>1. PICK t \in Nat, c \in Nat, a \in Nat :
             t = OrderTotal(r) /\ c = AdvanceCap(r).cap /\ a = cmd[r].advance
      BY <1>2, <1>5, <1>6
    <2>2. a <= c /\ c <= t /\ t \div 100 <= MaxTaka /\ MaxTaka \in Nat
      BY <2>1, <1>3, <1>5, <1>6, MoneyAssumption
    <2>3. a \div 100 <= MaxTaka /\ c \div 100 <= MaxTaka
      BY <2>2
    <2> QED
      BY <2>1, <2>3
  <1> QED
    BY <1>2, <1>3, <1>5, <1>6, <1>8

------------------------------------------------------------------------------
(* The invariant.                                                          *)

(* Resolved lines carry the prices of the catalog as it is read.           *)
LEMMA ResolvedPriced ==
    ASSUME CheckoutInv, NEW r \in Requests
    PROVE  Priced(Resolved(cmd[r].lines))
  <1> DEFINE request == cmd[r].lines
             ids == {request[i].listing : i \in DOMAIN request}
  <1>1. request \in Seq([listing : Listings, quantity : Nat])
    BY CheckoutAssumption DEF CheckoutInv
  <1> HIDE DEF request
  <1>2. /\ DOMAIN request = 1 .. Len(request) /\ Len(request) \in Nat
        /\ \A i \in DOMAIN request :
              request[i].listing \in Listings /\ request[i].quantity \in Nat
    <2> DEFINE line == [listing : Listings, quantity : Nat]
    <2>1. \A x \in line : x.listing \in Listings /\ x.quantity \in Nat
      OBVIOUS
    <2>2. request \in Seq(line)
      BY <1>1
    <2> HIDE DEF line
    <2>3. /\ DOMAIN request = 1 .. Len(request) /\ Len(request) \in Nat
          /\ \A i \in 1 .. Len(request) : request[i] \in line
      BY <2>2
    <2> QED
      BY <2>1, <2>3
  <1>3. ASSUME NEW i \in DOMAIN request
        PROVE  /\ FindByIds(ids)[request[i].listing] = listing[request[i].listing]
               /\ listing[request[i].listing] \in ListingRows
    BY <1>2 DEF FindByIds, CheckoutInv
  <1>4. ASSUME NEW i \in DOMAIN request
        PROVE  LET price == TakaToPoisha(FindByIds(ids)[request[i].listing].price)
               IN  price \in Nat /\ price \div 100 <= MaxTaka
    BY <1>3, StoredText, CheckoutAssumption DEF Storable
  <1>5. /\ DOMAIN Resolved(request) = DOMAIN request
        /\ \A i \in DOMAIN request :
              /\ Resolved(request)[i].unitPrice =
                    TakaToPoisha(FindByIds(ids)[request[i].listing].price)
              /\ Resolved(request)[i].quantity = request[i].quantity
    BY DEF Resolved
  <1>6. Priced(Resolved(request))
    BY <1>2, <1>4, <1>5 DEF Priced
  <1> QED
    BY <1>6 DEF request

(* What an order stores depends on nothing but its request's own reads and *)
(* the deployment's configuration.                                         *)
LEMMA OwnReadsOnly ==
    ASSUME NEW r \in Requests, lines'[r] = lines[r], cmd' = cmd,
           escrowEnabled' = escrowEnabled
    PROVE  /\ Acceptable(r)' <=> Acceptable(r)
           /\ pickup'[r] = pickup[r] => PlacedOrder(r)' = PlacedOrder(r)
  <1>1. OrderTotal(r)' = OrderTotal(r)
    BY DEF OrderTotal
  <1>2. IsEscrow(cmd[r])' = IsEscrow(cmd[r])
    BY DEF IsEscrow
  <1>3. AdvanceCap(r)' = AdvanceCap(r)
    BY <1>1, <1>2 DEF AdvanceCap
  <1>4. Acceptable(r)' <=> Acceptable(r)
    BY <1>1, <1>3 DEF Acceptable
  <1>5. InsertItems(r)' = InsertItems(r)
    BY DEF InsertItems
  <1>6. InsertPendingTransaction(r)' = InsertPendingTransaction(r)
    BY <1>1 DEF InsertPendingTransaction
  <1>7. pickup'[r] = pickup[r] => NewOrderRecord(r)' = NewOrderRecord(r)
    BY <1>1, <1>3 DEF NewOrderRecord
  <1> QED
    BY <1>4, <1>5, <1>6, <1>7 DEF PlacedOrder

(* A request that a step does not touch keeps its part.                    *)
LEMMA OtherRequest ==
    ASSUME NEW r \in Requests, RequestOK(r), pc'[r] = pc[r], lines'[r] = lines[r],
           pickup'[r] = pickup[r], order'[r] = order[r], cmd' = cmd,
           escrowEnabled' = escrowEnabled
    PROVE  RequestOK(r)'
  BY OwnReadsOnly DEF RequestOK

(* A step of request r that keeps its part of the invariant keeps it all.  *)
LEMMA RequestStep ==
    ASSUME CheckoutInv, NEW r \in Requests, NEW q \in PCs,
           pc' = [pc EXCEPT ![r] = q],
           DOMAIN lines' = Requests, DOMAIN pickup' = Requests, DOMAIN order' = Requests,
           \A s \in Requests \ {r} : /\ lines'[s] = lines[s]
                                     /\ pickup'[s] = pickup[s]
                                     /\ order'[s] = order[s],
           UNCHANGED <<escrowEnabled, listing, cmd>>,
           RequestOK(r)'
    PROVE  CheckoutInv'
  <1>1. \A s \in Requests \ {r} : pc'[s] = pc[s]
    BY DEF CheckoutInv
  <1>2. \A s \in Requests \ {r} : RequestOK(s)'
    BY <1>1, OtherRequest DEF CheckoutInv
  <1> QED
    BY <1>2 DEF CheckoutInv

LEMMA ResolveCartInv ==
    ASSUME CheckoutInv, NEW r \in Requests, ResolveCart(r)
    PROVE  CheckoutInv'
  <1>1. PICK q \in {"merchant", "rejected"} : pc' = [pc EXCEPT ![r] = q]
    BY DEF ResolveCart, Continue
  <1>2. /\ pc[r] = "new"
        /\ lines' = [lines EXCEPT ![r] = Resolved(cmd[r].lines)]
        /\ UNCHANGED <<escrowEnabled, listing, cmd, pickup, order>>
    BY DEF ResolveCart, stored
  <1>3. pc'[r] = q /\ lines'[r] = Resolved(cmd[r].lines) /\ order[r] = NotPlaced
    BY <1>1, <1>2 DEF CheckoutInv, RequestOK
  <1>4. RequestOK(r)'
    BY <1>2, <1>3, ResolvedPriced DEF RequestOK
  <1>5. q \in PCs
    BY DEF PCs
  <1>6. /\ \A s \in Requests \ {r} : lines'[s] = lines[s]
        /\ DOMAIN lines' = Requests /\ DOMAIN pickup = Requests /\ DOMAIN order = Requests
    BY <1>2 DEF CheckoutInv
  <1> QED
    BY <1>1, <1>2, <1>4, <1>5, <1>6, RequestStep

LEMMA FindMerchantInv ==
    ASSUME CheckoutInv, NEW r \in Requests, FindMerchant(r)
    PROVE  CheckoutInv'
  <1>1. PICK q \in {"price", "rejected"} : pc' = [pc EXCEPT ![r] = q]
    BY DEF FindMerchant, Continue
  <1>2. /\ pc[r] = "merchant"
        /\ \E p : pickup' = [pickup EXCEPT ![r] = p]
        /\ UNCHANGED <<escrowEnabled, listing, cmd, lines, order>>
    BY DEF FindMerchant, stored
  <1>3. pc'[r] = q /\ order[r] = NotPlaced /\ Priced(lines[r])
    BY <1>1, <1>2 DEF CheckoutInv, RequestOK
  <1>4. RequestOK(r)'
    BY <1>2, <1>3 DEF RequestOK
  <1>5. q \in PCs
    BY DEF PCs
  <1>6. /\ \A s \in Requests \ {r} : pickup'[s] = pickup[s]
        /\ DOMAIN lines = Requests /\ DOMAIN pickup' = Requests /\ DOMAIN order = Requests
    BY <1>2 DEF CheckoutInv
  <1> QED
    BY <1>1, <1>2, <1>4, <1>5, <1>6, RequestStep

LEMMA PriceOrderInv ==
    ASSUME CheckoutInv, NEW r \in Requests, PriceOrder(r)
    PROVE  CheckoutInv'
  <1>1. PICK q \in {"insert", "rejected"} :
           pc' = [pc EXCEPT ![r] = q] /\ (q = "insert" => Acceptable(r))
    BY DEF PriceOrder, Continue
  <1>2. /\ pc[r] = "price"
        /\ UNCHANGED <<escrowEnabled, listing, cmd, lines, pickup, order>>
    BY DEF PriceOrder, stored
  <1>3. pc'[r] = q /\ order[r] = NotPlaced /\ Priced(lines[r])
    BY <1>1, <1>2 DEF CheckoutInv, RequestOK
  <1>4. RequestOK(r)'
    BY <1>1, <1>2, <1>3, OwnReadsOnly DEF RequestOK
  <1>5. q \in PCs
    BY DEF PCs
  <1>6. DOMAIN lines = Requests /\ DOMAIN pickup = Requests /\ DOMAIN order = Requests
    BY DEF CheckoutInv
  <1> QED
    BY <1>1, <1>2, <1>4, <1>5, <1>6, RequestStep

LEMMA InsertOrderInv ==
    ASSUME CheckoutInv, NEW r \in Requests, InsertOrder(r)
    PROVE  CheckoutInv'
  <1>1. /\ pc[r] = "insert" /\ pc' = [pc EXCEPT ![r] = "placed"]
        /\ order' = [order EXCEPT ![r] = PlacedOrder(r)]
        /\ UNCHANGED <<escrowEnabled, listing, cmd, lines, pickup>>
    BY DEF InsertOrder, stored, PlacedOrder
  <1>2. /\ pc'[r] = "placed" /\ order'[r] = PlacedOrder(r)
        /\ Priced(lines[r]) /\ Acceptable(r)
    BY <1>1 DEF CheckoutInv, RequestOK
  <1>3. RequestOK(r)'
    BY <1>1, <1>2, OwnReadsOnly DEF RequestOK
  <1>4. "placed" \in PCs
    BY DEF PCs
  <1>5. /\ \A s \in Requests \ {r} : order'[s] = order[s]
        /\ DOMAIN lines = Requests /\ DOMAIN pickup = Requests /\ DOMAIN order' = Requests
    BY <1>1 DEF CheckoutInv
  <1> QED
    BY <1>1, <1>3, <1>4, <1>5, RequestStep

LEMMA FailInv ==
    ASSUME CheckoutInv, NEW r \in Requests, Fail(r)
    PROVE  CheckoutInv'
  <1>1. /\ pc[r] # "placed" /\ pc' = [pc EXCEPT ![r] = "rejected"]
        /\ UNCHANGED <<escrowEnabled, listing, cmd, lines, pickup, order>>
    BY DEF Fail, stored
  <1>2. pc'[r] = "rejected" /\ order[r] = NotPlaced
    BY <1>1 DEF CheckoutInv, RequestOK
  <1>3. RequestOK(r)'
    BY <1>1, <1>2 DEF RequestOK
  <1>4. "rejected" \in PCs
    BY DEF PCs
  <1>5. DOMAIN lines = Requests /\ DOMAIN pickup = Requests /\ DOMAIN order = Requests
    BY DEF CheckoutInv
  <1> QED
    BY <1>1, <1>3, <1>4, <1>5, RequestStep

(* An edit of a listing or a merchant, or a stuttering step, reaches no    *)
(* request.                                                                *)
LEMMA EditInv ==
    ASSUME CheckoutInv, listing' \in [Listings -> ListingRows],
           UNCHANGED <<escrowEnabled, pc, cmd, lines, pickup, order>>
    PROVE  CheckoutInv'
  BY OtherRequest DEF CheckoutInv

(* Every step preserves the invariant.                                     *)
LEMMA NextInv == CheckoutInv /\ [Next]_vars => CheckoutInv'
  <1> SUFFICES ASSUME CheckoutInv, [Next]_vars PROVE CheckoutInv'
    OBVIOUS
  <1>1. ASSUME NEW l \in Listings, NEW row \in ListingRows, EditListing(l, row)
        PROVE  CheckoutInv'
    BY <1>1, EditInv DEF EditListing, CheckoutInv
  <1>2. ASSUME NEW m \in Merchants, NEW row \in MerchantRows, EditMerchant(m, row)
        PROVE  CheckoutInv'
    BY <1>2, EditInv DEF EditMerchant, CheckoutInv
  <1>3. CASE UNCHANGED vars
    BY <1>3, EditInv DEF vars, CheckoutInv
  <1> QED
    BY <1>1, <1>2, <1>3, ResolveCartInv, FindMerchantInv, PriceOrderInv,
       InsertOrderInv, FailInv
    DEF Next

(* The inductive invariant holds throughout.                               *)
THEOREM CheckoutSafety == Spec => []CheckoutInv
  <1>1. Init => CheckoutInv
    BY DEF Init, CheckoutInv, PCs, RequestOK
  <1> QED
    BY <1>1, NextInv, PTL DEF Spec

------------------------------------------------------------------------------
(* What follows for placed orders.                                         *)

(* An order is placed exactly by the requests that got to the end, and its *)
(* stored amounts are read back as the ones that were checked.             *)
LEMMA PlacedFacts ==
    ASSUME CheckoutInv, NEW r \in Placed
    PROVE  /\ r \in Requests /\ pc[r] = "placed"
           /\ cmd[r] \in Commands /\ Priced(lines[r]) /\ Acceptable(r)
           /\ order[r] = PlacedOrder(r)
           /\ Total(order[r]) = OrderTotal(r)
           /\ Advance(order[r]) = cmd[r].advance
           /\ TakaToPoisha(order[r].row.capBdt) = AdvanceCap(r).cap
           /\ AmountDue(order[r]) = IF cmd[r].method = "cod" THEN OrderTotal(r)
                                                           ELSE cmd[r].advance
  <1>1. r \in Requests /\ order[r] # NotPlaced
    BY DEF Placed
  <1>2. /\ pc[r] = "placed" /\ order[r] = PlacedOrder(r)
        /\ cmd[r] \in Commands /\ Priced(lines[r]) /\ Acceptable(r)
    BY <1>1 DEF CheckoutInv, RequestOK
  <1>3. /\ order[r].row.totalBdt = PoishaToTaka(OrderTotal(r))
        /\ order[r].row.advanceBdt = PoishaToTaka(cmd[r].advance)
        /\ order[r].row.capBdt = PoishaToTaka(AdvanceCap(r).cap)
        /\ order[r].transaction.amountBdt =
              PoishaToTaka(IF cmd[r].method = "cod" THEN OrderTotal(r) ELSE cmd[r].advance)
    BY <1>2 DEF PlacedOrder, NewOrderRecord, InsertPendingTransaction
  <1>4. /\ TakaToPoisha(PoishaToTaka(OrderTotal(r))) = OrderTotal(r)
        /\ TakaToPoisha(PoishaToTaka(cmd[r].advance)) = cmd[r].advance
        /\ TakaToPoisha(PoishaToTaka(AdvanceCap(r).cap)) = AdvanceCap(r).cap
    BY <1>1, <1>2, AcceptedAmounts, StoredAmount
  <1> QED
    BY <1>1, <1>2, <1>3, <1>4 DEF Total, Advance, AmountDue

(* A placed order differs from no order.                                   *)
LEMMA PlacedIsRecord ==
    ASSUME NEW r PROVE PlacedOrder(r) # NotPlaced
  <1>1. PlacedOrder(r).events = <<[from |-> "none", to |-> "created"]>>
    BY DEF PlacedOrder, RecordStatusEvent
  <1>2. NotPlaced.events = <<>>
    BY DEF NotPlaced
  <1>3. Len(<<[from |-> "none", to |-> "created"]>>) # Len(<<>>)
    OBVIOUS
  <1> QED
    BY <1>1, <1>2, <1>3

(* Every amount of a placed order fits its column.                         *)
THEOREM TypeCorrect == Spec => []TypeOK
  <1>1. ASSUME CheckoutInv PROVE TypeOK
    <2>1. pc \in [Requests -> PCs]
      BY <1>1 DEF CheckoutInv
    <2>2. \A r \in Requests : order[r] # NotPlaced <=> pc[r] = "placed"
      BY <1>1, PlacedIsRecord DEF CheckoutInv, RequestOK
    <2>3. ASSUME NEW r \in Placed
          PROVE  /\ Storable(order[r].row.totalBdt) /\ Storable(order[r].row.advanceBdt)
                 /\ Storable(order[r].row.capBdt)
                 /\ Storable(order[r].transaction.amountBdt)
      <3>1. /\ r \in Requests /\ cmd[r] \in Commands /\ Priced(lines[r])
            /\ Acceptable(r) /\ order[r] = PlacedOrder(r)
        BY <1>1, PlacedFacts
      <3>2. /\ Storable(PoishaToTaka(OrderTotal(r)))
            /\ Storable(PoishaToTaka(cmd[r].advance))
            /\ Storable(PoishaToTaka(AdvanceCap(r).cap))
        BY <3>1, AcceptedAmounts, StoredAmount DEF Storable
      <3>3. /\ order[r].row.totalBdt = PoishaToTaka(OrderTotal(r))
            /\ order[r].row.advanceBdt = PoishaToTaka(cmd[r].advance)
            /\ order[r].row.capBdt = PoishaToTaka(AdvanceCap(r).cap)
            /\ order[r].transaction.amountBdt =
                  PoishaToTaka(IF cmd[r].method = "cod" THEN OrderTotal(r) ELSE cmd[r].advance)
        BY <3>1 DEF PlacedOrder, NewOrderRecord, InsertPendingTransaction
      <3> QED
        BY <3>2, <3>3
    <2> QED
      BY <2>1, <2>2, <2>3 DEF TypeOK, PCs
  <1> QED
    BY <1>1, CheckoutSafety, PTL

(* No placed order took more in advance than the DCOG 2021 rules allow.    *)
THEOREM AdvancesLawful == Spec => []AdvanceLawful
  <1>1. ASSUME CheckoutInv PROVE AdvanceLawful
    <2> SUFFICES ASSUME NEW r \in Placed
                 PROVE  /\ Advance(order[r]) <= Total(order[r])
                        /\ \/ 10 * Advance(order[r]) <= Total(order[r])
                           \/ \A i \in DOMAIN order[r].items : order[r].items[i].readyToShip
                           \/ order[r].row.method = "escrow" /\ escrowEnabled
      BY DEF AdvanceLawful
    <2>1. /\ r \in Requests /\ cmd[r] \in Commands /\ Priced(lines[r])
          /\ Acceptable(r) /\ order[r] = PlacedOrder(r)
          /\ Total(order[r]) = OrderTotal(r) /\ Advance(order[r]) = cmd[r].advance
      BY <1>1, PlacedFacts
    <2>2. /\ OrderTotal(r) \in Nat /\ AdvanceCap(r).cap \in Nat /\ cmd[r].advance \in Nat
          /\ cmd[r].advance <= AdvanceCap(r).cap /\ AdvanceCap(r).cap <= OrderTotal(r)
          /\ \/ 10 * AdvanceCap(r).cap <= OrderTotal(r)
             \/ AllItemsReadyToShip(lines[r])
             \/ IsEscrow(cmd[r])
      BY <2>1, AcceptedAmounts
    <2>3. ASSUME AllItemsReadyToShip(lines[r])
          PROVE  \A i \in DOMAIN order[r].items : order[r].items[i].readyToShip
      <3>1. order[r].items = InsertItems(r)
        BY <2>1 DEF PlacedOrder
      <3>2. \A i \in DOMAIN lines[r] : InsertItems(r)[i].readyToShip = lines[r][i].readyToShip
        BY DEF InsertItems
      <3>3. DOMAIN InsertItems(r) = DOMAIN lines[r]
        BY DEF InsertItems
      <3> QED
        BY <3>1, <3>2, <3>3, <2>3 DEF AllItemsReadyToShip
    <2>4. ASSUME IsEscrow(cmd[r])
          PROVE  order[r].row.method = "escrow" /\ escrowEnabled
      <3>1. order[r].row.method = cmd[r].method
        BY <2>1 DEF PlacedOrder, NewOrderRecord
      <3> QED
        BY <3>1, <2>4 DEF IsEscrow
    <2>5. cmd[r].advance <= OrderTotal(r)
      BY <2>2
    <2>6. 10 * AdvanceCap(r).cap <= OrderTotal(r) => 10 * cmd[r].advance <= OrderTotal(r)
      BY <2>2
    <2> QED
      BY <2>1, <2>2, <2>3, <2>4, <2>5, <2>6
  <1> QED
    BY <1>1, CheckoutSafety, PTL

(* The pending transaction asks for what the order's own columns say.      *)
THEOREM PaymentIsDue == Spec => []PaymentDue
  <1>1. ASSUME CheckoutInv PROVE PaymentDue
    <2> SUFFICES ASSUME NEW r \in Placed
                 PROVE  IF order[r].transaction.isAdvance
                        THEN /\ order[r].row.method # "cod"
                             /\ AmountDue(order[r]) = Advance(order[r])
                        ELSE /\ order[r].row.method = "cod"
                             /\ AmountDue(order[r]) = Total(order[r])
                             /\ Advance(order[r]) = 0
      BY DEF PaymentDue
    <2>1. /\ Acceptable(r) /\ order[r] = PlacedOrder(r)
          /\ Total(order[r]) = OrderTotal(r) /\ Advance(order[r]) = cmd[r].advance
          /\ AmountDue(order[r]) = IF cmd[r].method = "cod" THEN OrderTotal(r)
                                                          ELSE cmd[r].advance
      BY <1>1, PlacedFacts
    <2>2. order[r].transaction.isAdvance = (cmd[r].method # "cod")
      BY <2>1 DEF PlacedOrder, InsertPendingTransaction
    <2>3. order[r].row.method = cmd[r].method
      BY <2>1 DEF PlacedOrder, NewOrderRecord
    <2>4. cmd[r].method = "cod" => cmd[r].advance = 0
      BY <2>1 DEF Acceptable
    <2> QED
      BY <2>1, <2>2, <2>3, <2>4
  <1> QED
    BY <1>1, CheckoutSafety, PTL

(* The cap on record is the one that the order's own item rows call for:   *)
(* prices go to text and back unchanged, so the evidence has the amounts   *)
(* and the flags of the lines that were checked.                           *)
THEOREM CapHasEvidence == Spec => []CapMatchesEvidence
  <1>1. ASSUME CheckoutInv PROVE CapMatchesEvidence
    <2> DEFINE Evidence(o) ==
                 [i \in DOMAIN o.items |->
                    [quantity |-> o.items[i].quantity,
                     unitPrice |-> TakaToPoisha(o.items[i].unitPriceBdt),
                     readyToShip |-> o.items[i].readyToShip]]
    <2> SUFFICES ASSUME NEW r \in Placed
                 PROVE  LET o == order[r]
                            cap == ComputeAdvanceCap(Evidence(o), Total(o), o.row.isEscrow)
                        IN  /\ Total(o) = CartSubtotal(Evidence(o))
                            /\ TakaToPoisha(o.row.capBdt) = cap.cap
                            /\ o.row.allItemsReadyToShip = cap.allItemsReadyToShip
      BY DEF CapMatchesEvidence
    <2> DEFINE items == InsertItems(r)
               evidence == Evidence(order[r])
               amounts(ls) == [i \in DOMAIN ls |-> ls[i].unitPrice * ls[i].quantity]
    <2>1. /\ r \in Requests /\ cmd[r] \in Commands /\ Priced(lines[r])
          /\ Acceptable(r) /\ order[r] = PlacedOrder(r)
          /\ Total(order[r]) = OrderTotal(r)
          /\ TakaToPoisha(order[r].row.capBdt) = AdvanceCap(r).cap
      BY <1>1, PlacedFacts
    <2>2. order[r].items = items
      BY <2>1 DEF PlacedOrder
    <2>3. /\ DOMAIN items = DOMAIN lines[r]
          /\ \A i \in DOMAIN lines[r] :
                /\ items[i].quantity = lines[r][i].quantity
                /\ items[i].unitPriceBdt = PoishaToTaka(lines[r][i].unitPrice)
                /\ items[i].readyToShip = lines[r][i].readyToShip
      BY DEF InsertItems
    <2>4. \A i \in DOMAIN lines[r] :
             TakaToPoisha(items[i].unitPriceBdt) = lines[r][i].unitPrice
      BY <2>1, <2>3, StoredAmount DEF Priced
    <2>5. /\ DOMAIN evidence = DOMAIN items
          /\ \A i \in DOMAIN items :
                /\ evidence[i].quantity = items[i].quantity
                /\ evidence[i].unitPrice = TakaToPoisha(items[i].unitPriceBdt)
                /\ evidence[i].readyToShip = items[i].readyToShip
      BY <2>2
    <2> HIDE DEF items, evidence
    <2>6. /\ DOMAIN evidence = DOMAIN lines[r]
          /\ \A i \in DOMAIN lines[r] :
                /\ evidence[i].quantity = lines[r][i].quantity
                /\ evidence[i].unitPrice = lines[r][i].unitPrice
                /\ evidence[i].readyToShip = lines[r][i].readyToShip
      BY <2>3, <2>4, <2>5
    <2>7. amounts(evidence) = amounts(lines[r])
      BY <2>6
    <2>8. CartSubtotal(evidence) = CartSubtotal(lines[r])
      BY <2>7 DEF CartSubtotal
    <2>9. AllItemsReadyToShip(evidence) = AllItemsReadyToShip(lines[r])
      BY <2>6 DEF AllItemsReadyToShip
    <2>10. order[r].row.isEscrow = IsEscrow(cmd[r])
      <3>1. order[r].row.isEscrow = (AdvanceCap(r).reason = "escrow")
        BY <2>1 DEF PlacedOrder, NewOrderRecord
      <3>2. AdvanceCap(r).reason = "escrow" <=> IsEscrow(cmd[r])
        BY <2>1, AcceptedAmounts
      <3> QED
        BY <3>1, <3>2 DEF IsEscrow
    <2>11. ComputeAdvanceCap(evidence, Total(order[r]), order[r].row.isEscrow) = AdvanceCap(r)
      BY <2>1, <2>9, <2>10 DEF ComputeAdvanceCap, AdvanceCap
    <2>12. OrderTotal(r) = CartSubtotal(lines[r])
      BY <2>1, AcceptedAmounts
    <2>13. order[r].row.allItemsReadyToShip = AdvanceCap(r).allItemsReadyToShip
      BY <2>1 DEF PlacedOrder, NewOrderRecord
    <2> QED
      BY <2>1, <2>8, <2>11, <2>12, <2>13 DEF evidence
  <1> QED
    BY <1>1, CheckoutSafety, PTL

------------------------------------------------------------------------------
(* createOrder implements the ledger's PlaceOrder.                         *)

(* What InsertOrder writes, as the payment side reads it.                  *)
LEMMA NewOrderTerms ==
    ASSUME NEW r \in Requests, cmd[r] \in Commands, Priced(lines[r]), Acceptable(r)
    PROVE  LET o == PlacedOrder(r)
               t == TermsOf(o)
           IN  /\ t \in [cod : BOOLEAN, total : Nat, advance : Nat, sameCity : BOOLEAN]
               /\ AmountDue(o) = Ledger!AmountOwed(t)
               /\ o.transaction.isAdvance = ~t.cod
  <1> DEFINE o == PlacedOrder(r)
             t == TermsOf(o)
  <1>1. /\ o.row.method = cmd[r].method
        /\ o.row.isSameCity = IsSameCity(pickup[r], cmd[r].delivery)
        /\ o.row.totalBdt = PoishaToTaka(OrderTotal(r))
        /\ o.row.advanceBdt = PoishaToTaka(cmd[r].advance)
        /\ o.transaction.isAdvance = (cmd[r].method # "cod")
        /\ o.transaction.amountBdt =
              PoishaToTaka(IF cmd[r].method = "cod" THEN OrderTotal(r) ELSE cmd[r].advance)
    BY DEF PlacedOrder, NewOrderRecord, InsertPendingTransaction
  <1> HIDE DEF o
  <1>2. /\ OrderTotal(r) \in Nat /\ cmd[r].advance \in Nat
        /\ TakaToPoisha(PoishaToTaka(OrderTotal(r))) = OrderTotal(r)
        /\ TakaToPoisha(PoishaToTaka(cmd[r].advance)) = cmd[r].advance
    BY AcceptedAmounts, StoredAmount
  <1>3. /\ t.cod = (cmd[r].method = "cod")
        /\ t.total = OrderTotal(r) /\ t.advance = cmd[r].advance
        /\ t = [cod |-> o.row.method = "cod", total |-> OrderTotal(r),
                advance |-> cmd[r].advance, sameCity |-> o.row.isSameCity]
    BY <1>1, <1>2 DEF TermsOf, Total, Advance
  <1>4. o.row.isSameCity \in BOOLEAN
    BY <1>1 DEF IsSameCity
  <1>5. t \in [cod : BOOLEAN, total : Nat, advance : Nat, sameCity : BOOLEAN]
    BY <1>2, <1>3, <1>4
  <1>6. AmountDue(o) = IF cmd[r].method = "cod" THEN OrderTotal(r) ELSE cmd[r].advance
    BY <1>1, <1>2 DEF AmountDue
  <1>7. AmountDue(o) = Ledger!AmountOwed(t)
    BY <1>3, <1>6 DEF Ledger!AmountOwed
  <1> QED
    BY <1>1, <1>3, <1>5, <1>7 DEF o

(* The transaction that ends createOrder is a step of the ledger.          *)
LEMMA InsertIsPlaceOrder ==
    ASSUME CheckoutInv, NEW r \in Requests, InsertOrder(r), Amounts = Nat
    PROVE  Ledger!LedgerNext
  <1> DEFINE o == PlacedOrder(r)
  <1>1. PICK t : t = TermsOf(o)
    OBVIOUS
  <1>2. /\ pc[r] = "insert" /\ order[r] = NotPlaced
        /\ cmd[r] \in Commands /\ Priced(lines[r]) /\ Acceptable(r)
    BY DEF InsertOrder, CheckoutInv, RequestOK
  <1>3. /\ t \in [cod : BOOLEAN, total : Nat, advance : Nat, sameCity : BOOLEAN]
        /\ AmountDue(o) = Ledger!AmountOwed(t)
        /\ o.transaction.isAdvance = ~t.cod
    BY <1>1, <1>2, NewOrderTerms
  <1>4. /\ o.transaction.status = "pending" /\ o.row.status = "created"
        /\ o.events = <<[from |-> "none", to |-> "created"]>>
        /\ o.notified = {"order_confirmed"}
    BY DEF PlacedOrder, InsertPendingTransaction, NewOrderRecord, RecordStatusEvent
  <1>5. o # NotPlaced
    BY PlacedIsRecord
  <1>6. order' = [order EXCEPT ![r] = o] /\ DOMAIN order = Requests
    BY DEF InsertOrder, PlacedOrder, CheckoutInv
  <1> HIDE DEF o
  <1>7. /\ order'[r] = o /\ \A s \in Requests \ {r} : order'[s] = order[s]
        /\ r \notin Placed /\ r \in Placed'
        /\ \A s \in Requests \ {r} : s \in Placed' <=> s \in Placed
    BY <1>2, <1>5, <1>6 DEF Placed
  <1>8. LedgerTxn' = [LedgerTxn EXCEPT
                        ![r] = [Ledger!NoTxn EXCEPT !.status = "pending",
                                                    !.amount = Ledger!AmountOwed(t),
                                                    !.isAdvance = ~t.cod]]
    <2>1. LedgerTxn'[r] = [status |-> "pending", ref |-> NoRef,
                           amount |-> Ledger!AmountOwed(t),
                           isAdvance |-> ~t.cod, settledAt |-> NoTime]
      BY <1>3, <1>4, <1>7 DEF LedgerTxn
    <2>2. \A s \in Requests \ {r} : LedgerTxn'[s] = LedgerTxn[s]
      BY <1>7 DEF LedgerTxn
    <2>3. [Ledger!NoTxn EXCEPT !.status = "pending", !.amount = Ledger!AmountOwed(t),
                               !.isAdvance = ~t.cod] =
             [status |-> "pending", ref |-> NoRef, amount |-> Ledger!AmountOwed(t),
              isAdvance |-> ~t.cod, settledAt |-> NoTime]
      <3>1. Ledger!NoTxn = [status |-> "none", ref |-> NoRef, amount |-> 0,
                            isAdvance |-> FALSE, settledAt |-> NoTime]
        BY DEF Ledger!NoTxn, Ledger!NoTime, NoTime
      <3> DEFINE x == [Ledger!NoTxn EXCEPT !.status = "pending",
                                           !.amount = Ledger!AmountOwed(t),
                                           !.isAdvance = ~t.cod]
      <3>2. /\ x = [k \in DOMAIN x |-> x[k]]
            /\ DOMAIN x = {"status", "ref", "amount", "isAdvance", "settledAt"}
            /\ x.status = "pending" /\ x.ref = NoRef /\ x.amount = Ledger!AmountOwed(t)
            /\ x.isAdvance = ~t.cod /\ x.settledAt = NoTime
        BY <3>1
      <3> HIDE DEF x
      <3>3. x = [status |-> "pending", ref |-> NoRef, amount |-> Ledger!AmountOwed(t),
                 isAdvance |-> ~t.cod, settledAt |-> NoTime]
        BY <3>2
      <3> QED
        BY <3>3 DEF x
    <2> QED
      BY <2>1, <2>2, <2>3 DEF LedgerTxn
  <1>9. LedgerOrd' = [LedgerOrd EXCEPT
                        ![r] = [Ledger!NoOrder EXCEPT !.status = "created", !.terms = t]]
    <2>1. LedgerOrd'[r] = [status |-> "created", terms |-> t,
                           advancePaidAt |-> NoTime, deadlineAt |-> NoTime]
      BY <1>1, <1>4, <1>7 DEF LedgerOrd
    <2>2. \A s \in Requests \ {r} : LedgerOrd'[s] = LedgerOrd[s]
      BY <1>7 DEF LedgerOrd
    <2>3. [Ledger!NoOrder EXCEPT !.status = "created", !.terms = t] =
             [status |-> "created", terms |-> t,
              advancePaidAt |-> NoTime, deadlineAt |-> NoTime]
      <3>1. Ledger!NoOrder =
               [status |-> "none",
                terms |-> [cod |-> FALSE, total |-> 0, advance |-> 0, sameCity |-> FALSE],
                advancePaidAt |-> NoTime, deadlineAt |-> NoTime]
        BY DEF Ledger!NoOrder, Ledger!NoTime, NoTime
      <3> DEFINE x == [Ledger!NoOrder EXCEPT !.status = "created", !.terms = t]
      <3>2. /\ x = [k \in DOMAIN x |-> x[k]]
            /\ DOMAIN x = {"status", "terms", "advancePaidAt", "deadlineAt"}
            /\ x.status = "created" /\ x.terms = t
            /\ x.advancePaidAt = NoTime /\ x.deadlineAt = NoTime
        BY <3>1
      <3> HIDE DEF x
      <3>3. x = [status |-> "created", terms |-> t,
                 advancePaidAt |-> NoTime, deadlineAt |-> NoTime]
        BY <3>2
      <3> QED
        BY <3>3 DEF x
    <2> QED
      BY <2>1, <2>2, <2>3 DEF LedgerOrd
  <1>10. LedgerTimeline' = [LedgerTimeline EXCEPT
                              ![r] = Append(@, [from |-> "none", to |-> "created"])]
    <2>1. LedgerTimeline'[r] = <<[from |-> "none", to |-> "created"]>>
      BY <1>4, <1>7 DEF LedgerTimeline
    <2>2. LedgerTimeline[r] = <<>>
      BY <1>7 DEF LedgerTimeline
    <2>3. \A s \in Requests \ {r} : LedgerTimeline'[s] = LedgerTimeline[s]
      BY <1>7 DEF LedgerTimeline
    <2>4. \A x : Append(<<>>, x) = <<x>>
      OBVIOUS
    <2> QED
      BY <2>1, <2>2, <2>3, <2>4 DEF LedgerTimeline
  <1>11. LedgerOutbox' = Ledger!Enqueued(LedgerOutbox, [order |-> r, ref |-> NoRef,
                                                        event |-> "order_confirmed"])
    <2> DEFINE Keys(s, box) == {[order |-> s, ref |-> NoRef, event |-> e] : e \in box.notified}
               key == [order |-> r, ref |-> NoRef, event |-> "order_confirmed"]
    <2>1. Ledger!Enqueued(LedgerOutbox, key) = LedgerOutbox \cup {key}
      BY DEF Ledger!Enqueued
    <2>2. Placed' = Placed \cup {r}
      BY <1>7 DEF Placed
    <2>3. \A s \in Placed : order'[s] = order[s]
      BY <1>7 DEF Placed
    <2>4. Keys(r, o) = {key}
      BY <1>4
    <2>5. LedgerOutbox' = UNION {Keys(s, order'[s]) : s \in Placed'}
      BY DEF LedgerOutbox
    <2>6. LedgerOutbox = UNION {Keys(s, order[s]) : s \in Placed}
      BY DEF LedgerOutbox
    <2> HIDE DEF Keys, key
    <2>7. LedgerOutbox' = LedgerOutbox \cup {key}
      BY <2>2, <2>3, <2>4, <2>5, <2>6, <1>7
    <2> QED
      BY <2>1, <2>7 DEF key
  <1>12. LedgerOrd[r].status = "none"
    BY <1>7 DEF LedgerOrd
  <1>13. Ledger!PlaceOrder(r, t)
    BY <1>8, <1>9, <1>10, <1>11, <1>12 DEF Ledger!PlaceOrder
  <1> QED
    BY <1>3, <1>13 DEF Ledger!LedgerNext

(* Every other step leaves the committed rows alone.                       *)
LEMMA OrdersUnchanged ==
    ASSUME order' = order
    PROVE  UNCHANGED Ledger!ledger
  <1>1. Placed' = Placed
    BY DEF Placed
  <1> QED
    BY <1>1 DEF Ledger!ledger, LedgerTxn, LedgerOrd, LedgerTimeline, LedgerOutbox

(* createOrder implements the ledger that SettlementProofs is about: each  *)
(* of its steps, with every catalog and merchant edit in between, adds     *)
(* nothing to the committed rows or is one PlaceOrder.  Amounts, which a   *)
(* model bounds, is every natural number here.                             *)
THEOREM ImplementsLedger ==
    ASSUME Amounts = Nat
    PROVE  Spec => PlacesLedgerOrders
  <1>1. Init => Ledger!LedgerInit
    <2> SUFFICES ASSUME Init PROVE Ledger!LedgerInit
      OBVIOUS
    <2>1. order = [r \in Requests |-> NotPlaced]
      BY DEF Init
    <2>2. Placed = {}
      BY <2>1 DEF Placed
    <2>3. LedgerTxn = [o \in Requests |-> Ledger!NoTxn]
      BY <2>2 DEF LedgerTxn, Ledger!NoTxn, Ledger!NoTime, NoTime
    <2>4. LedgerOrd = [o \in Requests |-> Ledger!NoOrder]
      BY <2>2 DEF LedgerOrd, Ledger!NoOrder, Ledger!NoTime, NoTime
    <2>5. LedgerTimeline = [o \in Requests |-> <<>>]
      BY <2>2 DEF LedgerTimeline
    <2>6. LedgerOutbox = {}
      BY <2>2 DEF LedgerOutbox
    <2> QED
      BY <2>3, <2>4, <2>5, <2>6 DEF Ledger!LedgerInit
  <1>2. ASSUME CheckoutInv, [Next]_vars
        PROVE  [Ledger!LedgerNext]_(Ledger!ledger)
    <2>1. ASSUME NEW r \in Requests, InsertOrder(r) PROVE Ledger!LedgerNext
      BY <1>2, <2>1, InsertIsPlaceOrder
    <2>2. ASSUME ~\E r \in Requests : InsertOrder(r) PROVE order' = order
      BY <1>2, <2>2 DEF Next, vars, ResolveCart, FindMerchant, PriceOrder, Fail,
                        EditListing, EditMerchant
    <2> QED
      BY <2>1, <2>2, OrdersUnchanged
  <1> QED
    BY <1>1, <1>2, CheckoutSafety, PTL DEF Spec, PlacesLedgerOrders, Ledger!LedgerSpec
==============================================================================
