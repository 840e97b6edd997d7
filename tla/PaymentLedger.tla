---------------------------- MODULE PaymentLedger ----------------------------
(***************************************************************************)
(* What the payment side of the API promises, stated over the COMMITTED    *)
(* rows only: the transaction row of each order, the order row, the        *)
(* append-only status timeline and the notification outbox.                *)
(*                                                                         *)
(* An order is placed in one step, and a settlement notice is applied in   *)
(* one step; nothing else ever changes these rows.  Settlement.tla runs    *)
(* the same notices as interleaved SQL statements of concurrent requests   *)
(* and is shown to implement this specification.                           *)
(***************************************************************************)
EXTENDS DeliveryClock, Sequences

CONSTANTS
    Orders,   \* identifiers of orders
    Refs,     \* (aggregator, aggregator_ref) pairs
    NoRef,    \* the NULL of both columns
    Terms,    \* what an order may be placed with: see PaymentTerms
    Notices,  \* what aggregators may send: see SettlementNotices
    Times     \* the instants at which a payment may have occurred

Outcomes == {"success", "failed"}

PaymentTerms ==
    [cod : BOOLEAN, total : Nat, advance : Nat, sameCity : BOOLEAN]

SettlementNotices ==
    [order : Orders, ref : Refs, amount : Nat, outcome : Outcomes]

ASSUME LedgerAssumption ==
    /\ NoRef \notin Refs
    /\ Terms \subseteq PaymentTerms
    /\ Notices \subseteq SettlementNotices
    /\ Times \subseteq Nat

VARIABLES
    txn,       \* the order's row of table transaction
    ord,       \* the order's row of table app_order
    timeline,  \* the order's rows of table order_status_event
    outbox     \* rows of table notification_outbox, by dedupe key

ledger == <<txn, ord, timeline, outbox>>

------------------------------------------------------------------------------
(* Rows.  Status "none" is the absence of the row.                         *)

TxnStatuses == {"none", "pending", "settled", "failed"}

OrderStatuses == {"none", "created", "confirmed", "awaiting_payment"}

TxnRow ==
    [status : TxnStatuses, ref : Refs \cup {NoRef}, amount : Nat,
     isAdvance : BOOLEAN, settledAt : Times \cup {NoTime}]

OrderRow ==
    [status : OrderStatuses, terms : PaymentTerms,
     advancePaidAt : Times \cup {NoTime}, deadlineAt : Nat \cup {NoTime}]

StatusEvent == [from : OrderStatuses, to : OrderStatuses]

NotifiableEvents == {"order_confirmed", "payment_received", "payment_failed"}

(* The push and the SMS row of an event are inserted together and differ   *)
(* only in the channel suffix, so one key stands for both.                 *)
DedupeKey == [order : Orders, ref : Refs \cup {NoRef}, event : NotifiableEvents]

NoTxn ==
    [status |-> "none", ref |-> NoRef, amount |-> 0,
     isAdvance |-> FALSE, settledAt |-> NoTime]

NoOrder ==
    [status |-> "none",
     terms |-> [cod |-> FALSE, total |-> 0, advance |-> 0, sameCity |-> FALSE],
     advancePaidAt |-> NoTime, deadlineAt |-> NoTime]

------------------------------------------------------------------------------
(* Pieces of a settlement, shared with the statement-level model.          *)

Success(n) == n.outcome = "success"

(* The column values markSettled and markFailed write.  markFailed leaves  *)
(* settled_at alone.                                                       *)
MarkedTxn(row, n, at) ==
    IF Success(n)
    THEN [row EXCEPT !.status = "settled", !.ref = n.ref, !.settledAt = at]
    ELSE [row EXCEPT !.status = "failed", !.ref = n.ref]

(* Mutant: a status the order_status enumeration does not have.            *)
SettlementStatusUnknown(n) == IF Success(n) THEN "paid" ELSE "awaiting_payment"

SettlementStatus(n) == IF Success(n) THEN "confirmed" ELSE "awaiting_payment"

(* The key ignores the order: settle:<aggregator>:<ref>:<event>.  A row    *)
(* carries its order_id as a plain column.                                 *)
SettlementKey(n) ==
    [order |-> n.order, ref |-> n.ref,
     event |-> IF Success(n) THEN "payment_received" ELSE "payment_failed"]

(* INSERT ... ON CONFLICT (dedupe_key) DO NOTHING.                         *)
Enqueued(box, key) ==
    IF \E k \in box : k.ref = key.ref /\ k.event = key.event /\ key.ref # NoRef
    THEN box
    ELSE box \cup {key}

(* Mutant: the guard on an already stamped clock is dropped.               *)
ClockedOrderAgain(row, isAdvance, n, at) ==
    IF Success(n) /\ isAdvance
    THEN [row EXCEPT !.advancePaidAt = at,
                     !.deadlineAt = ComputeDeliveryDeadline(at, row.terms.sameCity)]
    ELSE row

(* Only the first advance starts the clock; COD never does.                *)
ClockedOrder(row, isAdvance, n, at) ==
    IF Success(n) /\ isAdvance /\ row.advancePaidAt = NoTime
    THEN [row EXCEPT !.advancePaidAt = at,
                     !.deadlineAt = ComputeDeliveryDeadline(at, row.terms.sameCity)]
    ELSE row

------------------------------------------------------------------------------
LedgerInit ==
    /\ txn = [o \in Orders |-> NoTxn]
    /\ ord = [o \in Orders |-> NoOrder]
    /\ timeline = [o \in Orders |-> <<>>]
    /\ outbox = {}

(* A COD order owes its total on delivery, any other method owes the       *)
(* advance now.                                                            *)
AmountOwed(t) == IF t.cod THEN t.total ELSE t.advance

(* Mutant: the pending transaction is always for the order's total.        *)
PlaceOrderOwingTotal(o, t) ==
    /\ ord[o].status = "none"
    /\ ord' = [ord EXCEPT ![o] = [NoOrder EXCEPT !.status = "created", !.terms = t]]
    /\ timeline' = [timeline EXCEPT
                      ![o] = Append(@, [from |-> "none", to |-> "created"])]
    /\ txn' = [txn EXCEPT ![o] = [NoTxn EXCEPT !.status = "pending",
                                               !.amount = t.total,
                                               !.isAdvance = ~t.cod]]
    /\ outbox' = Enqueued(outbox, [order |-> o, ref |-> NoRef,
                                   event |-> "order_confirmed"])

(* The one transaction that ends createOrder: order, first status event,   *)
(* pending transaction and notification together.                          *)
PlaceOrder(o, t) ==
    /\ ord[o].status = "none"
    /\ ord' = [ord EXCEPT ![o] = [NoOrder EXCEPT !.status = "created",
                                                 !.terms = t]]
    /\ timeline' = [timeline EXCEPT
                      ![o] = Append(@, [from |-> "none", to |-> "created"])]
    /\ txn' = [txn EXCEPT
                 ![o] = [NoTxn EXCEPT
                           !.status = "pending",
                           !.amount = AmountOwed(t),
                           !.isAdvance = ~t.cod]]
    /\ outbox' = Enqueued(outbox, [order |-> o, ref |-> NoRef,
                                   event |-> "order_confirmed"])

(* A settlement notice takes effect.  That the row must still be pending   *)
(* is NOT promised: a delivery already under way when another one commits  *)
(* is applied on top of it.                                                *)
ApplyNotice(n, at) ==
    LET o == n.order IN
    /\ txn[o].status # "none"
    /\ n.amount = txn[o].amount
    /\ \A other \in Orders \ {o} : txn[other].ref # n.ref
    /\ txn' = [txn EXCEPT ![o] = MarkedTxn(@, n, at)]
    /\ timeline' = [timeline EXCEPT
                      ![o] = Append(@, [from |-> ord[o].status,
                                        to |-> SettlementStatus(n)])]
    /\ outbox' = Enqueued(outbox, SettlementKey(n))
    /\ ord' = [ord EXCEPT
                 ![o] = ClockedOrder([@ EXCEPT !.status = SettlementStatus(n)],
                                     txn[o].isAdvance, n, at)]

LedgerNext ==
    \/ \E o \in Orders, t \in Terms : PlaceOrder(o, t)
    \/ \E n \in Notices, at \in Times : ApplyNotice(n, at)

LedgerSpec == LedgerInit /\ [][LedgerNext]_ledger

------------------------------------------------------------------------------
(* Properties of the committed rows.                                       *)

(* Every row has the columns and column types of the schema.               *)
LedgerTypeOK ==
    /\ txn \in [Orders -> TxnRow]
    /\ ord \in [Orders -> OrderRow]
    /\ timeline \in [Orders -> Seq(StatusEvent)]
    /\ outbox \subseteq DedupeKey

(* The order and its transaction never desync (note 3 of the schema): the  *)
(* order status a reader sees is the one its payment row calls for, in     *)
(* every committed state, whatever deliveries race and wherever a request  *)
(* dies between its statements.                                            *)
OrderPaymentInSync ==
    \A o \in Orders :
        ord[o].status = CASE txn[o].status = "none"    -> "none"
                          [] txn[o].status = "pending" -> "created"
                          [] txn[o].status = "settled" -> "confirmed"
                          [] txn[o].status = "failed"  -> "awaiting_payment"

(* The clock of an order o is either untouched or wholly stamped: the      *)
(* deadline is the payment instant plus the window of the order's cities.  *)
ClockWhole(o) ==
    IF ord[o].advancePaidAt = NoTime
    THEN ord[o].deadlineAt = NoTime
    ELSE ord[o].deadlineAt =
           ComputeDeliveryDeadline(ord[o].advancePaidAt, ord[o].terms.sameCity)

(* Compliance row C4: a settled advance always has a running clock whose   *)
(* deadline is the regulated one, and neither a COD order nor an order     *)
(* still waiting for its payment has one.                                  *)
ClockRunsForAdvances ==
    \A o \in Orders :
        /\ ClockWhole(o)
        /\ txn[o].isAdvance /\ txn[o].status = "settled"
              => ord[o].advancePaidAt # NoTime
        /\ ~txn[o].isAdvance \/ txn[o].status \in {"none", "pending"}
              => ord[o].advancePaidAt = NoTime

(* An aggregator reference is recorded on one order at most (the UNIQUE    *)
(* constraint of table transaction), also when two deliveries carry it to  *)
(* two orders at once; and exactly the answered payments carry one.        *)
RefRecordedOnce ==
    /\ \A o1, o2 \in Orders :
          o1 # o2 /\ txn[o1].ref = txn[o2].ref => txn[o1].ref = NoRef
    /\ \A o \in Orders :
          txn[o].ref = NoRef <=> txn[o].status \in {"none", "pending"}

(* The timeline kept as evidence (compliance row C10) is a chain: each     *)
(* event leaves the status its predecessor entered, the first enters       *)
(* created, and the last one entered is the order's status column.         *)
TimelineIsChain ==
    \A o \in Orders :
        LET tl == timeline[o] IN
        /\ tl = <<>> <=> ord[o].status = "none"
        /\ tl # <<>> => /\ tl[1] = [from |-> "none", to |-> "created"]
                        /\ tl[Len(tl)].to = ord[o].status
        /\ \A i \in 1 .. Len(tl) - 1 : tl[i + 1].from = tl[i].to

(* A stamped clock is never moved: restarting it would silently extend a   *)
(* regulated deadline (payment.service.ts, the advancePaidAt guard).       *)
ClockNeverRestarts ==
    [][\A o \in Orders :
          ord[o].advancePaidAt # NoTime =>
              /\ ord'[o].advancePaidAt = ord[o].advancePaidAt
              /\ ord'[o].deadlineAt = ord[o].deadlineAt]_ledger

(* Each aggregator reference belongs to one order, as an aggregator that   *)
(* numbers its payments sends them.                                        *)
OwnRefs == \A n, m \in Notices : n.ref = m.ref => n.order = m.order

(* The outbox promises exactly what the committed rows say: a notification *)
(* is there only if the status it announces is on the order's timeline (a  *)
(* rolled-back settlement announces nothing), and the payment row's        *)
(* present outcome has been announced if references are not shared.        *)
OutboxMatchesTimeline ==
    /\ \A k \in outbox :
          \E i \in 1 .. Len(timeline[k.order]) :
              timeline[k.order][i].to =
                  CASE k.event = "order_confirmed"  -> "created"
                    [] k.event = "payment_received" -> "confirmed"
                    [] k.event = "payment_failed"   -> "awaiting_payment"
    /\ \A o \in Orders :
          OwnRefs /\ txn[o].ref # NoRef =>
              [order |-> o, ref |-> txn[o].ref,
               event |-> IF txn[o].status = "settled"
                         THEN "payment_received" ELSE "payment_failed"] \in outbox

(* A replayed webhook is a no-op, not a second settlement                  *)
(* (payment.service.ts, header): no step extends the timeline of an order  *)
(* for a reference that its payment row already carries.                   *)
ReplayIsNoOp ==
    [][\A o \in Orders :
          txn[o].ref # NoRef /\ txn'[o].ref = txn[o].ref
              => timeline'[o] = timeline[o]]_ledger
==============================================================================
