---------------------------- MODULE LedgerProofs -----------------------------
(***************************************************************************)
(* Proofs about the committed rows: LedgerInv is inductive for LedgerSpec. *)
(* Settlement implements LedgerSpec (SettlementProofs), so everything      *)
(* proved here holds of the statement-level model too.                     *)
(***************************************************************************)
EXTENDS PaymentLedger, TLAPS

(* The inductive invariant: types, the order's agreement with its payment, *)
(* the clock, the uniqueness of references and the chain of status events. *)
LedgerInv ==
    /\ LedgerTypeOK
    /\ OrderPaymentInSync
    /\ ClockRunsForAdvances
    /\ RefRecordedOnce
    /\ TimelineIsChain

------------------------------------------------------------------------------
(* What the operators on rows return.                                      *)

(* markSettled and markFailed keep a transaction row a transaction row;    *)
(* they write the status and the reference and leave the amount and        *)
(* is_advance alone.                                                       *)
LEMMA MarkedTxnType ==
    ASSUME NEW row \in TxnRow, NEW n \in Notices, NEW at \in Times
    PROVE  /\ MarkedTxn(row, n, at) \in TxnRow
           /\ MarkedTxn(row, n, at).ref = n.ref
           /\ MarkedTxn(row, n, at).amount = row.amount
           /\ MarkedTxn(row, n, at).isAdvance = row.isAdvance
           /\ MarkedTxn(row, n, at).status =
                 IF Success(n) THEN "settled" ELSE "failed"
  BY LedgerAssumption
  DEF MarkedTxn, TxnRow, TxnStatuses, Success, SettlementNotices

(* A deadline lies on the time line: an instant plus a whole number of     *)
(* days.                                                                   *)
LEMMA DeadlineType ==
    ASSUME NEW at \in Times, NEW sameCity
    PROVE  ComputeDeliveryDeadline(at, sameCity) \in Nat
  <1>1. at \in Nat /\ MsPerDay \in Nat
    BY LedgerAssumption, MsPerDayAssumption
  <1> QED
    BY <1>1 DEF ComputeDeliveryDeadline, DeliveryWindowDays,
                SameCityDeliveryDays, DifferentCityDeliveryDays

(* Stamping the clock changes neither the status nor the terms.            *)
LEMMA ClockedOrderType ==
    ASSUME NEW row \in OrderRow, NEW isAdvance \in BOOLEAN,
           NEW n \in Notices, NEW at \in Times
    PROVE  /\ ClockedOrder(row, isAdvance, n, at) \in OrderRow
           /\ ClockedOrder(row, isAdvance, n, at).status = row.status
           /\ ClockedOrder(row, isAdvance, n, at).terms = row.terms
  BY DeadlineType DEF ClockedOrder, OrderRow

(* The clock of a row is stamped afterwards iff it was, or the notice      *)
(* settles an advance; a stamped clock is kept as it is.                   *)
LEMMA ClockedOrderStamp ==
    ASSUME NEW row \in OrderRow, NEW isAdvance \in BOOLEAN,
           NEW n \in Notices, NEW at \in Times
    PROVE  LET new == ClockedOrder(row, isAdvance, n, at) IN
           /\ row.advancePaidAt # NoTime =>
                 /\ new.advancePaidAt = row.advancePaidAt
                 /\ new.deadlineAt = row.deadlineAt
           /\ row.advancePaidAt = NoTime /\ Success(n) /\ isAdvance =>
                 /\ new.advancePaidAt = at
                 /\ new.deadlineAt = ComputeDeliveryDeadline(at, row.terms.sameCity)
           /\ row.advancePaidAt = NoTime /\ ~(Success(n) /\ isAdvance) =>
                 /\ new.advancePaidAt = NoTime
                 /\ new.deadlineAt = row.deadlineAt
  BY DEF ClockedOrder, OrderRow

(* An instant is not NULL.                                                 *)
LEMMA TimesNotNull == \A at \in Times : at # NoTime
  BY LedgerAssumption DEF NoTime

(* Both outcomes lead to a status of the enumeration, never to "none".     *)
LEMMA SettlementStatusType ==
    ASSUME NEW n \in Notices
    PROVE  /\ SettlementStatus(n) \in OrderStatuses
           /\ SettlementStatus(n) =
                 IF Success(n) THEN "confirmed" ELSE "awaiting_payment"
  BY DEF SettlementStatus, OrderStatuses

(* A settlement's notification key is a key of the outbox.                 *)
LEMMA SettlementKeyType ==
    ASSUME NEW n \in Notices PROVE SettlementKey(n) \in DedupeKey
  BY LedgerAssumption DEF SettlementKey, DedupeKey, NotifiableEvents, SettlementNotices

------------------------------------------------------------------------------
(* No row is there at first, and that satisfies the invariant.             *)
LEMMA LedgerInitInv == LedgerInit => LedgerInv
  <1> SUFFICES ASSUME LedgerInit PROVE LedgerInv
    OBVIOUS
  <1> USE DEF LedgerInit, NoTxn, NoOrder
  <1>1. LedgerTypeOK
    BY DEF LedgerTypeOK, TxnRow, OrderRow, TxnStatuses, OrderStatuses, PaymentTerms
  <1>2. OrderPaymentInSync
    BY DEF OrderPaymentInSync
  <1>3. ClockRunsForAdvances
    BY DEF ClockRunsForAdvances, ClockWhole
  <1>4. RefRecordedOnce
    BY DEF RefRecordedOnce
  <1>5. TimelineIsChain
    BY DEF TimelineIsChain
  <1> QED
    BY <1>1, <1>2, <1>3, <1>4, <1>5 DEF LedgerInv

(* Enqueuing keeps the outbox a set of keys.                               *)
LEMMA EnqueuedType ==
    ASSUME NEW box \in SUBSET DedupeKey, NEW key \in DedupeKey
    PROVE  Enqueued(box, key) \in SUBSET DedupeKey
  BY DEF Enqueued

(* Appending an event that leaves the status the chain ended in keeps the  *)
(* chain, and the new event is the last one.                               *)
LEMMA AppendKeepsChain ==
    ASSUME NEW tl \in Seq(StatusEvent), NEW e \in StatusEvent,
           tl # <<>> => tl[Len(tl)].to = e.from,
           \A i \in 1 .. Len(tl) - 1 : tl[i + 1].from = tl[i].to
    PROVE  LET new == Append(tl, e) IN
           /\ new \in Seq(StatusEvent)
           /\ new # <<>>
           /\ new[1] = IF tl = <<>> THEN e ELSE tl[1]
           /\ new[Len(new)] = e
           /\ \A i \in 1 .. Len(new) - 1 : new[i + 1].from = new[i].to
  <1> DEFINE new == Append(tl, e)
  <1>1. /\ Len(tl) \in Nat
        /\ Len(new) = Len(tl) + 1
        /\ new \in Seq(StatusEvent)
        /\ new[Len(new)] = e
        /\ \A i \in 1 .. Len(tl) : new[i] = tl[i]
    OBVIOUS
  <1>2. tl = <<>> <=> Len(tl) = 0
    OBVIOUS
  <1>3. new # <<>>
    BY <1>1
  <1>4. new[1] = IF tl = <<>> THEN e ELSE tl[1]
    <2>1. CASE tl = <<>>
      BY <2>1, <1>1, <1>2
    <2>2. CASE tl # <<>>
      BY <2>2, <1>1, <1>2
    <2> QED
      BY <2>1, <2>2
  <1>5. ASSUME NEW i \in 1 .. Len(new) - 1
        PROVE  new[i + 1].from = new[i].to
    <2>1. CASE i < Len(tl)
      <3>1. i \in 1 .. Len(tl) - 1 /\ i + 1 \in 1 .. Len(tl) /\ i \in 1 .. Len(tl)
        BY <2>1, <1>1
      <3> HIDE DEF new
      <3> QED
        BY <3>1, <1>1
    <2>2. CASE i = Len(tl)
      <3>1. tl # <<>> /\ i \in 1 .. Len(tl) /\ i + 1 = Len(new)
        BY <2>2, <1>1, <1>2
      <3> HIDE DEF new
      <3> QED
        BY <3>1, <2>2, <1>1
    <2> QED
      BY <2>1, <2>2, <1>1
  <1> QED
    BY <1>1, <1>3, <1>4, <1>5

------------------------------------------------------------------------------
(* createOrder's transaction preserves the invariant.                      *)
LEMMA PlaceOrderInv ==
    ASSUME LedgerInv, NEW o \in Orders, NEW t \in Terms, PlaceOrder(o, t)
    PROVE  LedgerInv'
  <1> DEFINE key == [order |-> o, ref |-> NoRef, event |-> "order_confirmed"]
             row == [NoOrder EXCEPT !.status = "created", !.terms = t]
             pay == [NoTxn EXCEPT !.status = "pending", !.amount = AmountOwed(t),
                                  !.isAdvance = ~t.cod]
             evt == [from |-> "none", to |-> "created"]
  <1>1. /\ t \in PaymentTerms
        /\ AmountOwed(t) \in Nat
    BY LedgerAssumption DEF AmountOwed, PaymentTerms
  <1>2. /\ pay \in TxnRow
        /\ pay.status = "pending" /\ pay.ref = NoRef
    BY <1>1 DEF NoTxn, TxnRow, TxnStatuses, PaymentTerms
  <1>3. /\ row \in OrderRow
        /\ row.status = "created"
        /\ row.advancePaidAt = NoTime /\ row.deadlineAt = NoTime
    BY <1>1 DEF NoOrder, OrderRow, OrderStatuses, PaymentTerms
  <1>4. key \in DedupeKey
    BY DEF DedupeKey, NotifiableEvents
  <1>5. evt \in StatusEvent
    BY DEF StatusEvent, OrderStatuses
  <1>6. /\ txn' = [txn EXCEPT ![o] = pay]
        /\ ord' = [ord EXCEPT ![o] = row]
        /\ timeline' = [timeline EXCEPT ![o] = Append(timeline[o], evt)]
        /\ outbox' = Enqueued(outbox, key)
        /\ ord[o].status = "none"
    BY DEF PlaceOrder
  <1>7. timeline[o] = <<>>
    BY <1>6 DEF LedgerInv, TimelineIsChain
  <1> HIDE DEF key, row, pay, evt
  <1>8. LedgerTypeOK'
    BY <1>2, <1>3, <1>4, <1>5, <1>6, EnqueuedType DEF LedgerInv, LedgerTypeOK
  <1>9. OrderPaymentInSync'
    BY <1>2, <1>3, <1>6 DEF LedgerInv, LedgerTypeOK, OrderPaymentInSync
  <1>10. ClockRunsForAdvances'
    BY <1>2, <1>3, <1>6
    DEF LedgerInv, LedgerTypeOK, ClockRunsForAdvances, ClockWhole
  <1>11. RefRecordedOnce'
    BY <1>2, <1>6 DEF LedgerInv, LedgerTypeOK, RefRecordedOnce
  <1>12. TimelineIsChain'
    <2> SUFFICES ASSUME NEW p \in Orders
                 PROVE  LET tl == timeline'[p] IN
                        /\ tl = <<>> <=> ord'[p].status = "none"
                        /\ tl # <<>> =>
                              /\ tl[1] = [from |-> "none", to |-> "created"]
                              /\ tl[Len(tl)].to = ord'[p].status
                        /\ \A i \in 1 .. Len(tl) - 1 : tl[i + 1].from = tl[i].to
      BY DEF TimelineIsChain
    <2>1. CASE p = o
      <3>1. timeline'[p] = Append(<<>>, evt) /\ ord'[p] = row
        BY <2>1, <1>6, <1>7 DEF LedgerInv, LedgerTypeOK
      <3>2. timeline'[p] = <<evt>>
        BY <3>1
      <3> QED
        BY <3>1, <3>2, <1>3 DEF evt
    <2>2. CASE p # o
      BY <2>2, <1>6 DEF LedgerInv, LedgerTypeOK, TimelineIsChain
    <2> QED
      BY <2>1, <2>2
  <1> QED
    BY <1>8, <1>9, <1>10, <1>11, <1>12 DEF LedgerInv

(* What an applied notice does to the rows of its order, with the types    *)
(* of the rows it writes.                                                  *)
LEMMA ApplyNoticeRows ==
    ASSUME LedgerInv, NEW n \in Notices, NEW at \in Times, ApplyNotice(n, at)
    PROVE  LET o == n.order
               pay == MarkedTxn(txn[o], n, at)
               moved == [ord[o] EXCEPT !.status = SettlementStatus(n)]
               row == ClockedOrder(moved, txn[o].isAdvance, n, at)
               evt == [from |-> ord[o].status, to |-> SettlementStatus(n)]
           IN  /\ o \in Orders /\ n.ref \in Refs
               /\ txn' = [txn EXCEPT ![o] = pay] /\ pay \in TxnRow
               /\ ord' = [ord EXCEPT ![o] = row] /\ row \in OrderRow
               /\ moved \in OrderRow
               /\ moved.terms = ord[o].terms
               /\ moved.status = SettlementStatus(n)
               /\ moved.advancePaidAt = ord[o].advancePaidAt
               /\ moved.deadlineAt = ord[o].deadlineAt
               /\ timeline' = [timeline EXCEPT ![o] = Append(timeline[o], evt)]
               /\ evt \in StatusEvent
               /\ outbox' = Enqueued(outbox, SettlementKey(n))
               /\ txn[o].status # "none"
               /\ \A other \in Orders \ {o} : txn[other].ref # n.ref
  <1> DEFINE o == n.order
             moved == [ord[o] EXCEPT !.status = SettlementStatus(n)]
  <1>1. o \in Orders /\ n.ref \in Refs
    BY LedgerAssumption DEF SettlementNotices
  <1>2. txn[o] \in TxnRow /\ ord[o] \in OrderRow
    BY <1>1 DEF LedgerInv, LedgerTypeOK
  <1>3. /\ moved \in OrderRow
        /\ moved.terms = ord[o].terms
        /\ moved.status = SettlementStatus(n)
        /\ moved.advancePaidAt = ord[o].advancePaidAt
        /\ moved.deadlineAt = ord[o].deadlineAt
    BY <1>2, SettlementStatusType DEF OrderRow
  <1>4. MarkedTxn(txn[o], n, at) \in TxnRow
    BY <1>2, MarkedTxnType
  <1>5. txn[o].isAdvance \in BOOLEAN
    BY <1>2 DEF TxnRow
  <1>6. ClockedOrder(moved, txn[o].isAdvance, n, at) \in OrderRow
    <2> HIDE DEF moved
    <2> QED
      BY <1>3, <1>5, ClockedOrderType
  <1>7. [from |-> ord[o].status, to |-> SettlementStatus(n)] \in StatusEvent
    BY <1>2, SettlementStatusType DEF OrderRow, StatusEvent
  <1> QED
    BY <1>1, <1>2, <1>3, <1>4, <1>6, <1>7 DEF ApplyNotice

(* An applied settlement notice preserves the invariant.                   *)
LEMMA ApplyNoticeInv ==
    ASSUME LedgerInv, NEW n \in Notices, NEW at \in Times, ApplyNotice(n, at)
    PROVE  LedgerInv'
  <1> DEFINE o == n.order
             pay == MarkedTxn(txn[o], n, at)
             moved == [ord[o] EXCEPT !.status = SettlementStatus(n)]
             row == ClockedOrder(moved, txn[o].isAdvance, n, at)
             evt == [from |-> ord[o].status, to |-> SettlementStatus(n)]
  <1>1. /\ o \in Orders /\ n.ref \in Refs
        /\ txn' = [txn EXCEPT ![o] = pay] /\ pay \in TxnRow
        /\ ord' = [ord EXCEPT ![o] = row] /\ row \in OrderRow
        /\ moved \in OrderRow
        /\ moved.terms = ord[o].terms
        /\ moved.status = SettlementStatus(n)
        /\ moved.advancePaidAt = ord[o].advancePaidAt
        /\ moved.deadlineAt = ord[o].deadlineAt
        /\ timeline' = [timeline EXCEPT ![o] = Append(timeline[o], evt)]
        /\ evt \in StatusEvent
        /\ evt.from = ord[o].status /\ evt.to = SettlementStatus(n)
        /\ outbox' = Enqueued(outbox, SettlementKey(n))
        /\ txn[o].status # "none"
        /\ \A other \in Orders \ {o} : txn[other].ref # n.ref
    BY ApplyNoticeRows
  <1>2. txn[o] \in TxnRow /\ ord[o] \in OrderRow /\ txn[o].isAdvance \in BOOLEAN
    BY <1>1 DEF LedgerInv, LedgerTypeOK, TxnRow
  <1>3. /\ pay.ref = n.ref
        /\ pay.isAdvance = txn[o].isAdvance
        /\ pay.status = IF Success(n) THEN "settled" ELSE "failed"
    BY <1>2, MarkedTxnType
  <1> HIDE DEF moved, pay, evt
  <1>4. /\ row.status = SettlementStatus(n)
        /\ row.terms = ord[o].terms
    BY <1>1, <1>2, ClockedOrderType
  <1>5. /\ moved.advancePaidAt # NoTime =>
              /\ row.advancePaidAt = moved.advancePaidAt
              /\ row.deadlineAt = moved.deadlineAt
        /\ moved.advancePaidAt = NoTime /\ Success(n) /\ txn[o].isAdvance =>
              /\ row.advancePaidAt = at
              /\ row.deadlineAt = ComputeDeliveryDeadline(at, moved.terms.sameCity)
        /\ moved.advancePaidAt = NoTime /\ ~(Success(n) /\ txn[o].isAdvance) =>
              /\ row.advancePaidAt = NoTime
              /\ row.deadlineAt = moved.deadlineAt
    BY <1>1, <1>2, ClockedOrderStamp
  <1> HIDE DEF row, o
  <1>6. LedgerTypeOK'
    <2>1. outbox' \in SUBSET DedupeKey
      BY <1>1, SettlementKeyType, EnqueuedType DEF LedgerInv, LedgerTypeOK
    <2> QED
      BY <2>1, <1>1 DEF LedgerInv, LedgerTypeOK
  <1>7. OrderPaymentInSync'
    BY <1>1, <1>3, <1>4, SettlementStatusType
    DEF LedgerInv, LedgerTypeOK, OrderPaymentInSync
  <1>8. ClockRunsForAdvances'
    <2> SUFFICES ASSUME NEW p \in Orders
                 PROVE  /\ ClockWhole(p)'
                        /\ txn'[p].isAdvance /\ txn'[p].status = "settled"
                              => ord'[p].advancePaidAt # NoTime
                        /\ ~txn'[p].isAdvance \/ txn'[p].status \in {"none", "pending"}
                              => ord'[p].advancePaidAt = NoTime
      BY DEF ClockRunsForAdvances
    <2>1. CASE p # o
      BY <2>1, <1>1 DEF LedgerInv, LedgerTypeOK, ClockRunsForAdvances, ClockWhole
    <2>2. CASE p = o
      <3>1. txn'[p] = pay /\ ord'[p] = row
        BY <2>2, <1>1 DEF LedgerInv, LedgerTypeOK
      <3>2. /\ ClockWhole(o)
            /\ ~txn[o].isAdvance => ord[o].advancePaidAt = NoTime
        BY <1>1 DEF LedgerInv, ClockRunsForAdvances
      <3>3. ClockWhole(p)'
        BY <3>1, <3>2, <2>2, <1>1, <1>4, <1>5, TimesNotNull DEF ClockWhole
      <3> QED
        BY <3>1, <3>2, <3>3, <1>1, <1>2, <1>3, <1>5, TimesNotNull
    <2> QED
      BY <2>1, <2>2
  <1>9. RefRecordedOnce'
    BY <1>1, <1>3, LedgerAssumption DEF LedgerInv, LedgerTypeOK, RefRecordedOnce
  <1>10. TimelineIsChain'
    <2> SUFFICES ASSUME NEW p \in Orders
                 PROVE  LET tl == timeline'[p] IN
                        /\ tl = <<>> <=> ord'[p].status = "none"
                        /\ tl # <<>> =>
                              /\ tl[1] = [from |-> "none", to |-> "created"]
                              /\ tl[Len(tl)].to = ord'[p].status
                        /\ \A i \in 1 .. Len(tl) - 1 : tl[i + 1].from = tl[i].to
      BY DEF TimelineIsChain
    <2>1. CASE p # o
      BY <2>1, <1>1 DEF LedgerInv, LedgerTypeOK, TimelineIsChain
    <2>2. CASE p = o
      <3>1. timeline'[p] = Append(timeline[o], evt) /\ ord'[p] = row
        BY <2>2, <1>1 DEF LedgerInv, LedgerTypeOK
      <3>2. ord[o].status # "none"
        BY <1>1, <1>2 DEF LedgerInv, OrderPaymentInSync, TxnRow, TxnStatuses
      <3>3. /\ timeline[o] \in Seq(StatusEvent)
            /\ timeline[o] # <<>>
            /\ timeline[o][1] = [from |-> "none", to |-> "created"]
            /\ timeline[o][Len(timeline[o])].to = evt.from
            /\ \A i \in 1 .. Len(timeline[o]) - 1 :
                  timeline[o][i + 1].from = timeline[o][i].to
        BY <3>2, <1>1 DEF LedgerInv, LedgerTypeOK, TimelineIsChain
      <3>4. LET new == Append(timeline[o], evt) IN
            /\ new # <<>>
            /\ new[1] = timeline[o][1]
            /\ new[Len(new)] = evt
            /\ \A i \in 1 .. Len(new) - 1 : new[i + 1].from = new[i].to
        BY <3>3, <1>1, AppendKeepsChain
      <3>5. SettlementStatus(n) # "none"
        BY SettlementStatusType
      <3> QED
        BY <3>1, <3>3, <3>4, <3>5, <1>1, <1>4
    <2> QED
      BY <2>1, <2>2
  <1> QED
    BY <1>6, <1>7, <1>8, <1>9, <1>10 DEF LedgerInv

(* A step that leaves the four tables alone preserves the invariant.       *)
LEMMA LedgerStutterInv == LedgerInv /\ UNCHANGED ledger => LedgerInv'
  <1> SUFFICES ASSUME LedgerInv, UNCHANGED ledger PROVE LedgerInv'
    OBVIOUS
  <1>1. /\ txn' = txn /\ ord' = ord
        /\ timeline' = timeline /\ outbox' = outbox
    BY DEF ledger
  <1>2. LedgerTypeOK'
    BY <1>1 DEF LedgerInv, LedgerTypeOK
  <1>3. OrderPaymentInSync'
    BY <1>1 DEF LedgerInv, OrderPaymentInSync
  <1>4. ClockRunsForAdvances'
    BY <1>1 DEF LedgerInv, ClockRunsForAdvances, ClockWhole
  <1>5. RefRecordedOnce'
    BY <1>1 DEF LedgerInv, RefRecordedOnce
  <1>6. TimelineIsChain'
    BY <1>1 DEF LedgerInv, TimelineIsChain
  <1> QED
    BY <1>2, <1>3, <1>4, <1>5, <1>6 DEF LedgerInv

(* Every step of the ledger preserves the invariant.                       *)
LEMMA LedgerStepInv == LedgerInv /\ [LedgerNext]_ledger => LedgerInv'
  BY PlaceOrderInv, ApplyNoticeInv, LedgerStutterInv DEF LedgerNext

(* The committed rows satisfy the invariant in every state of every        *)
(* behaviour in which orders are placed and notices applied atomically.    *)
THEOREM LedgerSafety == LedgerSpec => []LedgerInv
  BY LedgerInitInv, LedgerStepInv, PTL DEF LedgerSpec

(* The delivery clock, once stamped, is never moved.                       *)
THEOREM LedgerClockNeverRestarts == LedgerSpec => ClockNeverRestarts
  <1> DEFINE Kept == \A o \in Orders :
                        ord[o].advancePaidAt # NoTime =>
                            /\ ord'[o].advancePaidAt = ord[o].advancePaidAt
                            /\ ord'[o].deadlineAt = ord[o].deadlineAt
  <1>1. ASSUME LedgerInv, NEW o \in Orders, NEW t \in Terms, PlaceOrder(o, t)
        PROVE  Kept
    <2>1. ord[o].advancePaidAt = NoTime
      BY <1>1 DEF PlaceOrder, LedgerInv, LedgerTypeOK, OrderPaymentInSync,
                  ClockRunsForAdvances, TxnRow, TxnStatuses
    <2> QED
      BY <1>1, <2>1 DEF PlaceOrder, LedgerInv, LedgerTypeOK
  <1>2. ASSUME LedgerInv, NEW n \in Notices, NEW at \in Times, ApplyNotice(n, at)
        PROVE  Kept
    <2> DEFINE o == n.order
               moved == [ord[o] EXCEPT !.status = SettlementStatus(n)]
               row == ClockedOrder(moved, txn[o].isAdvance, n, at)
    <2>1. /\ o \in Orders
          /\ ord' = [ord EXCEPT ![o] = row]
          /\ moved \in OrderRow
          /\ moved.advancePaidAt = ord[o].advancePaidAt
          /\ moved.deadlineAt = ord[o].deadlineAt
      BY <1>2, ApplyNoticeRows
    <2>2. txn[o].isAdvance \in BOOLEAN
      BY <2>1, <1>2 DEF LedgerInv, LedgerTypeOK, TxnRow
    <2> HIDE DEF moved
    <2>3. moved.advancePaidAt # NoTime =>
             /\ row.advancePaidAt = moved.advancePaidAt
             /\ row.deadlineAt = moved.deadlineAt
      BY <2>1, <2>2, ClockedOrderStamp
    <2> HIDE DEF row, o
    <2> QED
      BY <1>2, <2>1, <2>3 DEF LedgerInv, LedgerTypeOK
  <1>3. LedgerInv /\ [LedgerNext]_ledger => [Kept]_ledger
    BY <1>1, <1>2 DEF LedgerNext
  <1> QED
    BY <1>3, LedgerSafety, PTL DEF LedgerSpec, ClockNeverRestarts

------------------------------------------------------------------------------
(* The outbox.                                                             *)

(* A notification that carries a payment reference was queued for a notice *)
(* with that reference, and for the order of that notice.                  *)
KeysFromNotices ==
    \A k \in outbox :
        k.ref # NoRef => \E n \in Notices : n.order = k.order /\ n.ref = k.ref

(* What is inductive about the outbox, beside LedgerInv.                   *)
OutboxInv == KeysFromNotices /\ OutboxMatchesTimeline

(* The order status that a notification announces.                         *)
Announced(event) ==
    CASE event = "order_confirmed"  -> "created"
      [] event = "payment_received" -> "confirmed"
      [] event = "payment_failed"   -> "awaiting_payment"

(* The key under which the present outcome of order o's payment row is     *)
(* announced.                                                              *)
OutcomeKey(o) ==
    [order |-> o, ref |-> txn[o].ref,
     event |-> IF txn[o].status = "settled"
               THEN "payment_received" ELSE "payment_failed"]

(* Keys are only ever added, and the only key that can be added is the one *)
(* asked for; without a clash it is there afterwards.                      *)
LEMMA EnqueuedKeys ==
    ASSUME NEW box, NEW key
    PROVE  /\ box \subseteq Enqueued(box, key)
           /\ Enqueued(box, key) \subseteq box \cup {key}
           /\ \/ key \in Enqueued(box, key)
              \/ /\ key.ref # NoRef
                 /\ \E k \in box : k.ref = key.ref /\ k.event = key.event
  BY DEF Enqueued

(* If order p's timeline only grows by the event e, then it still shows    *)
(* what it showed, and it shows e.                                         *)
LEMMA AppendShows ==
    ASSUME NEW tl \in Seq(StatusEvent), NEW e \in StatusEvent
    PROVE  /\ \A s : (\E i \in 1 .. Len(tl) : tl[i].to = s)
                        => \E i \in 1 .. Len(Append(tl, e)) : Append(tl, e)[i].to = s
           /\ \E i \in 1 .. Len(Append(tl, e)) : Append(tl, e)[i].to = e.to
  <1> DEFINE new == Append(tl, e)
  <1>1. /\ Len(tl) \in Nat
        /\ Len(new) = Len(tl) + 1
        /\ new[Len(new)] = e
        /\ \A i \in 1 .. Len(tl) : new[i] = tl[i]
    OBVIOUS
  <1> HIDE DEF new
  <1>2. ASSUME NEW s, NEW i \in 1 .. Len(tl), tl[i].to = s
        PROVE  \E j \in 1 .. Len(new) : new[j].to = s
    BY <1>1, <1>2
  <1>3. \E j \in 1 .. Len(new) : new[j].to = e.to
    BY <1>1
  <1> QED
    BY <1>2, <1>3 DEF new

(* The step of the outbox that both actions take: order o's timeline grows *)
(* by an event e, and a key that announces e is enqueued for o.            *)
LEMMA OutboxStep ==
    ASSUME LedgerInv, OutboxInv,
           NEW o \in Orders, NEW e \in StatusEvent, NEW key \in DedupeKey,
           timeline' = [timeline EXCEPT ![o] = Append(timeline[o], e)],
           outbox' = Enqueued(outbox, key),
           key.order = o, Announced(key.event) = e.to,
           key.ref # NoRef => \E n \in Notices : n.order = o /\ n.ref = key.ref
    PROVE  /\ KeysFromNotices'
           /\ \A k \in outbox' :
                 \E i \in 1 .. Len(timeline'[k.order]) :
                     timeline'[k.order][i].to = Announced(k.event)
           /\ OwnRefs => key \in outbox'
  <1>1. /\ outbox \subseteq outbox'
        /\ outbox' \subseteq outbox \cup {key}
    BY EnqueuedKeys
  <1>2. KeysFromNotices'
    BY <1>1 DEF OutboxInv, KeysFromNotices
  <1>3. ASSUME NEW k \in outbox'
        PROVE  \E i \in 1 .. Len(timeline'[k.order]) :
                   timeline'[k.order][i].to = Announced(k.event)
    <2>1. timeline \in [Orders -> Seq(StatusEvent)] /\ outbox \subseteq DedupeKey
      BY DEF LedgerInv, LedgerTypeOK
    <2>2. CASE k \in outbox
      <3>1. k.order \in Orders
        BY <2>1, <2>2 DEF DedupeKey
      <3>2. \E i \in 1 .. Len(timeline[k.order]) :
               timeline[k.order][i].to = Announced(k.event)
        BY <2>2 DEF OutboxInv, OutboxMatchesTimeline, Announced
      <3>3. CASE k.order # o
        BY <3>1, <3>2, <3>3, <2>1
      <3>4. CASE k.order = o
        <4>1. timeline'[k.order] = Append(timeline[o], e) /\ timeline[o] \in Seq(StatusEvent)
          BY <3>4, <2>1
        <4> QED
          BY <4>1, <3>2, <3>4, AppendShows
      <3> QED
        BY <3>3, <3>4
    <2>3. CASE k = key
      <3>1. timeline'[o] = Append(timeline[o], e) /\ timeline[o] \in Seq(StatusEvent)
        BY <2>1
      <3> QED
        BY <3>1, <2>3, AppendShows
    <2> QED
      BY <2>2, <2>3, <1>1
  <1>4. ASSUME OwnRefs PROVE key \in outbox'
    <2>1. ASSUME NEW k \in outbox, key.ref # NoRef,
                 k.ref = key.ref, k.event = key.event
          PROVE  k = key
      <3>1. k.order = o
        <4>1. PICK n \in Notices : n.order = o /\ n.ref = key.ref
          BY <2>1
        <4>2. PICK m \in Notices : m.order = k.order /\ m.ref = k.ref
          BY <2>1 DEF OutboxInv, KeysFromNotices
        <4> QED
          BY <4>1, <4>2, <2>1, <1>4 DEF OwnRefs
      <3>2. k \in DedupeKey
        BY DEF LedgerInv, LedgerTypeOK
      <3> QED
        BY <3>1, <3>2, <2>1 DEF DedupeKey
    <2> QED
      BY <2>1, <1>1, EnqueuedKeys
  <1> QED
    BY <1>2, <1>3, <1>4

(* createOrder announces the order it creates.                             *)
LEMMA PlaceOrderOutbox ==
    ASSUME LedgerInv, OutboxInv, NEW o \in Orders, NEW t \in Terms,
           PlaceOrder(o, t)
    PROVE  OutboxInv'
  <1> DEFINE key == [order |-> o, ref |-> NoRef, event |-> "order_confirmed"]
             evt == [from |-> "none", to |-> "created"]
  <1>1. /\ key \in DedupeKey /\ evt \in StatusEvent
        /\ timeline' = [timeline EXCEPT ![o] = Append(timeline[o], evt)]
        /\ outbox' = Enqueued(outbox, key)
        /\ key.order = o /\ key.ref = NoRef
        /\ Announced(key.event) = evt.to
    BY DEF PlaceOrder, DedupeKey, NotifiableEvents, StatusEvent, OrderStatuses, Announced
  <1> HIDE DEF key, evt
  <1>2. /\ KeysFromNotices'
        /\ \A k \in outbox' :
              \E i \in 1 .. Len(timeline'[k.order]) :
                  timeline'[k.order][i].to = Announced(k.event)
    BY <1>1, OutboxStep
  <1>3. ASSUME NEW p \in Orders, OwnRefs, txn'[p].ref # NoRef
        PROVE  OutcomeKey(p)' \in outbox'
    <2>1. txn'[p] = txn[p] /\ outbox \subseteq outbox'
      BY <1>1, <1>3, EnqueuedKeys DEF PlaceOrder, NoTxn, LedgerInv, LedgerTypeOK
    <2> QED
      BY <2>1, <1>3 DEF OutboxInv, OutboxMatchesTimeline, OutcomeKey
  <1> QED
    BY <1>2, <1>3 DEF OutboxInv, OutboxMatchesTimeline, OutcomeKey, Announced

(* An applied notice announces the outcome it records.                     *)
LEMMA ApplyNoticeOutbox ==
    ASSUME LedgerInv, OutboxInv, NEW n \in Notices, NEW at \in Times,
           ApplyNotice(n, at)
    PROVE  OutboxInv'
  <1> DEFINE o == n.order
             key == SettlementKey(n)
             pay == MarkedTxn(txn[o], n, at)
             evt == [from |-> ord[o].status, to |-> SettlementStatus(n)]
  <1>1. /\ o \in Orders /\ n.ref \in Refs
        /\ txn' = [txn EXCEPT ![o] = pay]
        /\ timeline' = [timeline EXCEPT ![o] = Append(timeline[o], evt)]
        /\ evt \in StatusEvent
        /\ outbox' = Enqueued(outbox, key)
    BY ApplyNoticeRows
  <1>2. /\ key \in DedupeKey
        /\ key = [order |-> o, ref |-> n.ref,
                  event |-> IF Success(n) THEN "payment_received" ELSE "payment_failed"]
        /\ Announced(key.event) = evt.to
    BY SettlementKeyType DEF SettlementKey, Announced, SettlementStatus
  <1>3. txn[o] \in TxnRow
    BY <1>1 DEF LedgerInv, LedgerTypeOK
  <1>4. pay.ref = n.ref /\ pay.status = IF Success(n) THEN "settled" ELSE "failed"
    BY <1>3, MarkedTxnType
  <1> HIDE DEF key, evt, pay
  <1>5. key.order = o /\ key.ref = n.ref
    BY <1>2
  <1> HIDE DEF o
  <1>6. \E m \in Notices : m.order = o /\ m.ref = key.ref
    BY <1>5 DEF o
  <1>7. /\ KeysFromNotices'
        /\ \A k \in outbox' :
              \E i \in 1 .. Len(timeline'[k.order]) :
                  timeline'[k.order][i].to = Announced(k.event)
        /\ OwnRefs => key \in outbox'
    BY <1>1, <1>2, <1>5, <1>6, OutboxStep
  <1>8. ASSUME NEW p \in Orders, OwnRefs, txn'[p].ref # NoRef
        PROVE  OutcomeKey(p)' \in outbox'
    <2>1. CASE p = o
      <3>1. txn'[p] = pay
        BY <2>1, <1>1 DEF LedgerInv, LedgerTypeOK
      <3>2. OutcomeKey(p)' = key
        BY <3>1, <2>1, <1>2, <1>4 DEF OutcomeKey
      <3> QED
        BY <3>2, <1>7, <1>8
    <2>2. CASE p # o
      <3>1. txn'[p] = txn[p] /\ outbox \subseteq outbox'
        BY <2>2, <1>1, EnqueuedKeys DEF LedgerInv, LedgerTypeOK
      <3> QED
        BY <3>1, <1>8 DEF OutboxInv, OutboxMatchesTimeline, OutcomeKey
    <2> QED
      BY <2>1, <2>2
  <1> QED
    BY <1>7, <1>8 DEF OutboxInv, OutboxMatchesTimeline, OutcomeKey, Announced

(* The outbox announces exactly what the committed rows say.               *)
THEOREM LedgerOutboxCorrect == LedgerSpec => []OutboxMatchesTimeline
  <1>1. LedgerInit => OutboxInv
    BY DEF LedgerInit, NoTxn, OutboxInv, KeysFromNotices, OutboxMatchesTimeline
  <1>2. LedgerInv /\ OutboxInv /\ UNCHANGED ledger => OutboxInv'
    BY DEF ledger, OutboxInv, KeysFromNotices, OutboxMatchesTimeline
  <1>3. LedgerInv /\ OutboxInv /\ [LedgerNext]_ledger => OutboxInv'
    BY <1>2, PlaceOrderOutbox, ApplyNoticeOutbox DEF LedgerNext
  <1>4. OutboxInv => OutboxMatchesTimeline
    BY DEF OutboxInv
  <1> QED
    BY <1>1, <1>3, <1>4, LedgerSafety, PTL DEF LedgerSpec

------------------------------------------------------------------------------
(* The buyer's countdown (daysRemaining) is "negative once breached", and  *)
(* only then: the whole-day rounding never hides a breach of the deadline  *)
(* by a millisecond and never announces one early.                         *)
THEOREM CountdownShowsBreach ==
    ASSUME NEW deadlineAt \in Nat, NEW now \in Nat
    PROVE  IsOverdue(deadlineAt, now) <=> DaysRemaining(deadlineAt, now) < 0
  <1> DEFINE x == deadlineAt - now
             q == x \div MsPerDay
  <1>1. MsPerDay \in Nat /\ MsPerDay > 0
    BY MsPerDayAssumption
  <1>2. x \in Int /\ q \in Int
    BY <1>1
  <1>3. x = MsPerDay * q + (x % MsPerDay) /\ x % MsPerDay \in 0 .. MsPerDay - 1
    BY <1>1, <1>2
  <1>4. q >= 0 => MsPerDay * q >= 0
    BY <1>1, <1>2
  <1>5. q < 0 => MsPerDay * q <= -MsPerDay
    BY <1>1, <1>2
  <1>6. x < 0 <=> q < 0
    BY <1>1, <1>2, <1>3, <1>4, <1>5
  <1>7. deadlineAt # NoTime
    BY DEF NoTime
  <1> QED
    BY <1>6, <1>7 DEF IsOverdue, DaysRemaining
==============================================================================
