----------------------------- MODULE Settlement ------------------------------
(***************************************************************************)
(* PaymentService.applySettlement as concurrent requests execute it.       *)
(*                                                                         *)
(* A worker is one webhook request in flight, in whichever API process: a  *)
(* connection, an open READ COMMITTED transaction (PgUnitOfWork) and the   *)
(* position in applySettlement.  One action is one awaited SQL statement.  *)
(* A SELECT sees the committed rows and the worker's own writes; an UPDATE *)
(* waits for the row's other writer to end and then applies to the row it  *)
(* left behind.  Uncommitted writes are kept in draft and reach the        *)
(* committed rows of PaymentLedger at COMMIT, all of them or none.         *)
(***************************************************************************)
EXTENDS PaymentLedger, FiniteSets

CONSTANTS
    Workers,    \* webhook requests that can be in flight at once
    NoJob,      \* what an idle worker works on
    MaxFaults   \* how many transactions may be lost to a fault

ASSUME SettlementAssumption == IsFiniteSet(Workers) /\ MaxFaults \in Nat

VARIABLES
    pc,      \* position of each worker in applySettlement
    job,     \* the notice it applies, and when the payment occurred
    draft,   \* its uncommitted writes
    faults   \* transactions lost so far

vars == <<txn, ord, timeline, outbox, pc, job, draft, faults>>

Reading == {"find_ref", "find_pending", "mark"}   \* nothing written yet

Writing == {"transition", "notify", "clock", "commit"}

RowLocked == {"index"} \cup Writing  \* holds the lock of the transaction row

(* The rows a transaction has written for its order, and the outbox rows   *)
(* it has inserted.                                                        *)
Drafts == [txn : TxnRow, ord : OrderRow, event : StatusEvent,
           inserted : SUBSET DedupeKey]

NoDraft ==
    [txn |-> NoTxn, ord |-> NoOrder, event |-> [from |-> "none", to |-> "none"],
     inserted |-> {}]

(* late: the order's payment was already answered when the webhook came    *)
(* in.  Only a property reads it.                                          *)
Jobs == [notice : Notices, at : Times, late : BOOLEAN]

Order(w) == job[w].notice.order

Init ==
    /\ LedgerInit
    /\ pc = [w \in Workers |-> "idle"]
    /\ job = [w \in Workers |-> NoJob]
    /\ draft = [w \in Workers |-> NoDraft]
    /\ faults = 0

(* The transaction ends: its connection goes back to the pool.             *)
End(w) ==
    /\ pc' = [pc EXCEPT ![w] = "idle"]
    /\ job' = [job EXCEPT ![w] = NoJob]
    /\ draft' = [draft EXCEPT ![w] = NoDraft]

(* Moves worker w on to the statement next, with d as what it has written. *)
Proceed(w, next, d) ==
    /\ pc' = [pc EXCEPT ![w] = next]
    /\ draft' = [draft EXCEPT ![w] = d]
    /\ UNCHANGED <<job, faults>>

------------------------------------------------------------------------------
Place(o, t) ==
    /\ PlaceOrder(o, t)
    /\ UNCHANGED <<pc, job, draft, faults>>

(* A signed webhook arrives and BEGIN is sent.  Aggregators repeat a       *)
(* webhook until it is answered, and after, so any notice can arrive at    *)
(* any time; occurredAt is the payload's, or the server's clock.           *)
Receive(w, n, at) ==
    /\ pc[w] = "idle"
    /\ pc' = [pc EXCEPT ![w] = "find_ref"]
    /\ job' = [job EXCEPT
                 ![w] = [notice |-> n, at |-> at,
                         late |-> txn[n.order].status \in {"settled", "failed"}]]
    /\ UNCHANGED <<ledger, draft, faults>>

(* The idempotency check.  A known reference is answered "duplicate".      *)
FindByAggregatorRef(w) ==
    /\ pc[w] = "find_ref"
    /\ IF \E o \in Orders : txn[o].ref = job[w].notice.ref
       THEN End(w) /\ UNCHANGED faults
       ELSE Proceed(w, "find_pending", draft[w])
    /\ UNCHANGED ledger

(* Mutant: the SELECT forgets status = 'pending'.                          *)
FindPendingAnyStatus(w) ==
    /\ pc[w] = "find_pending"
    /\ IF txn[Order(w)].amount = job[w].notice.amount
       THEN Proceed(w, "mark", draft[w])
       ELSE End(w) /\ UNCHANGED faults
    /\ UNCHANGED ledger

(* The pending row, and its amount against the aggregator's; otherwise the *)
(* webhook is answered "rejected".  The SELECT takes no lock.              *)
FindPendingForOrder(w) ==
    /\ pc[w] = "find_pending"
    /\ IF /\ txn[Order(w)].status = "pending"
          /\ txn[Order(w)].amount = job[w].notice.amount
       THEN Proceed(w, "mark", draft[w])
       ELSE End(w) /\ UNCHANGED faults
    /\ UNCHANGED ledger

(* Nobody else has an uncommitted UPDATE of order o's transaction row.     *)
RowFree(w, o) == \A v \in Workers \ {w} : pc[v] \in RowLocked => Order(v) # o

(* Mutant: the row is not locked until the transaction ends.               *)
MarkUnlocked(w) ==
    /\ pc[w] = "mark"
    /\ Proceed(w, "index", draft[w])
    /\ UNCHANGED ledger

(* markSettled or markFailed: UPDATE transaction ... WHERE id, by the id   *)
(* read before, whatever the row's status has become since.  First the row *)
(* is waited for and locked ...                                            *)
Mark(w) ==
    /\ pc[w] = "mark"
    /\ RowFree(w, Order(w))
    /\ Proceed(w, "index", draft[w])
    /\ UNCHANGED ledger

(* w waits for v to end: v's uncommitted UPDATE gives w's reference to     *)
(* v's row, or takes it away from it.                                      *)
WaitsFor(w, v) ==
    LET ref == job[w].notice.ref IN
    /\ v # w
    /\ pc[w] = "index"
    /\ \/ pc[v] \in Writing /\ draft[v].txn.ref = ref
       \/ pc[v] \in RowLocked /\ txn[Order(v)].ref = ref

(* The draft of a worker that has marked its order's row.                  *)
MarkedDraft(w) ==
    [draft[w] EXCEPT
       !.txn = MarkedTxn(txn[Order(w)], job[w].notice, job[w].at)]

(* Mutants of EnterRef: the UNIQUE constraint is missing; the UPDATE       *)
(* matches no row; a violation is caught and the UPDATE tried again.       *)
EnterRefWithoutUnique(w) ==
    /\ pc[w] = "index"
    /\ Proceed(w, "transition", MarkedDraft(w))
    /\ UNCHANGED ledger

EnterRefMissesRow(w) ==
    /\ pc[w] = "index"
    /\ Proceed(w, "transition", [draft[w] EXCEPT !.txn = txn[Order(w)]])
    /\ UNCHANGED ledger

EnterRefOrRetry(w) ==
    LET n == job[w].notice IN
    /\ pc[w] = "index"
    /\ \A v \in Workers : ~WaitsFor(w, v)
    /\ IF \E o \in Orders \ {n.order} : txn[o].ref = n.ref
       THEN Proceed(w, "index", draft[w])
       ELSE Proceed(w, "transition", MarkedDraft(w))
    /\ UNCHANGED ledger

(* ... then, with the row locked, the new reference goes into the unique   *)
(* index, after every transaction whose end decides whether it may.  A     *)
(* reference another row carries violates the UNIQUE constraint, and the   *)
(* exception rolls the transaction back.                                   *)
EnterRef(w) ==
    LET n == job[w].notice IN
    /\ pc[w] = "index"
    /\ \A v \in Workers : ~WaitsFor(w, v)
    /\ IF \E o \in Orders \ {n.order} : txn[o].ref = n.ref
       THEN End(w) /\ UNCHANGED faults
       ELSE Proceed(w, "transition", MarkedDraft(w))
    /\ UNCHANGED ledger

(* Mutants of TransitionStatus: the status column is forgotten; both       *)
(* writes go to the pool instead of the transaction.                       *)
TransitionEventOnly(w) ==
    /\ pc[w] = "transition"
    /\ Proceed(w, "notify",
               [draft[w] EXCEPT
                  !.event = [from |-> ord[Order(w)].status,
                             to |-> SettlementStatus(job[w].notice)],
                  !.ord = ord[Order(w)]])
    /\ UNCHANGED ledger

TransitionOutside(w) ==
    LET row == [ord[Order(w)] EXCEPT !.status = SettlementStatus(job[w].notice)] IN
    /\ pc[w] = "transition"
    /\ ord' = [ord EXCEPT ![Order(w)] = row]
    /\ Proceed(w, "notify",
               [draft[w] EXCEPT
                  !.event = [from |-> ord[Order(w)].status, to |-> row.status],
                  !.ord = row])
    /\ UNCHANGED <<txn, timeline, outbox>>

(* transitionStatus: reads the order's status, inserts the status event    *)
(* and updates the status column.                                          *)
TransitionStatus(w) ==
    LET to == SettlementStatus(job[w].notice) IN
    /\ pc[w] = "transition"
    /\ Proceed(w, "notify",
               [draft[w] EXCEPT
                  !.event = [from |-> ord[Order(w)].status, to |-> to],
                  !.ord = [ord[Order(w)] EXCEPT !.status = to]])
    /\ UNCHANGED ledger

(* Mutants of NotifyCustomer: COD starts the clock too; the outbox row is  *)
(* inserted outside the transaction.                                       *)
NotifyThenAlwaysClock(w) ==
    /\ pc[w] = "notify"
    /\ Proceed(w, IF Success(job[w].notice) THEN "clock" ELSE "commit",
               [draft[w] EXCEPT
                  !.inserted = Enqueued(outbox, SettlementKey(job[w].notice)) \ outbox])
    /\ UNCHANGED ledger

NotifyOutside(w) ==
    LET n == job[w].notice IN
    /\ pc[w] = "notify"
    /\ outbox' = Enqueued(outbox, SettlementKey(n))
    /\ Proceed(w, IF Success(n) /\ draft[w].txn.isAdvance THEN "clock" ELSE "commit",
               draft[w])
    /\ UNCHANGED <<txn, ord, timeline>>

(* notifyCustomer, INSERT ... ON CONFLICT DO NOTHING.  After it, a COD     *)
(* settlement or a failure has nothing left to do.                         *)
NotifyCustomer(w) ==
    LET n == job[w].notice IN
    /\ pc[w] = "notify"
    /\ Proceed(w, IF Success(n) /\ draft[w].txn.isAdvance THEN "clock" ELSE "commit",
               [draft[w] EXCEPT
                  !.inserted = Enqueued(outbox, SettlementKey(n)) \ outbox])
    /\ UNCHANGED ledger

(* findForSettlement and, unless the clock is stamped, startDeliveryClock. *)
StartDeliveryClock(w) ==
    /\ pc[w] = "clock"
    /\ Proceed(w, "commit",
               [draft[w] EXCEPT
                  !.ord = ClockedOrder(@, TRUE, job[w].notice, job[w].at)])
    /\ UNCHANGED ledger

(* COMMIT, and the answer "applied".                                       *)
Commit(w) ==
    LET o == Order(w) IN
    /\ pc[w] = "commit"
    /\ txn' = [txn EXCEPT ![o] = draft[w].txn]
    /\ ord' = [ord EXCEPT ![o] = draft[w].ord]
    /\ timeline' = [timeline EXCEPT ![o] = Append(@, draft[w].event)]
    /\ outbox' = outbox \cup draft[w].inserted
    /\ End(w)
    /\ UNCHANGED faults

(* A statement throws, the connection drops, the process dies, or the      *)
(* deadlock detector picks the transaction: PostgreSQL rolls it back and   *)
(* the request fails.                                                      *)
Fault(w) ==
    /\ pc[w] # "idle"
    /\ faults < MaxFaults
    /\ faults' = faults + 1
    /\ End(w)
    /\ UNCHANGED ledger

Step(w) ==
    \/ FindByAggregatorRef(w)
    \/ FindPendingForOrder(w)
    \/ Mark(w)
    \/ EnterRef(w)
    \/ TransitionStatus(w)
    \/ NotifyCustomer(w)
    \/ StartDeliveryClock(w)
    \/ Commit(w)

Next ==
    \/ \E o \in Orders, t \in Terms : Place(o, t)
    \/ \E w \in Workers :
          \/ \E n \in Notices, at \in Times : Receive(w, n, at)
          \/ Step(w)
          \/ Fault(w)

Spec == Init /\ [][Next]_vars

(* A request keeps running and PostgreSQL grants row locks in the order    *)
(* they were asked for, so a worker that can repeatedly proceed does;      *)
(* aggregators keep repeating a webhook, and some request gets to run it.  *)
Fairness ==
    /\ \A w \in Workers : SF_vars(Step(w))
    /\ \A n \in Notices :
          SF_vars(\E w \in Workers, at \in Times : Receive(w, n, at))

FairSpec == Spec /\ Fairness

------------------------------------------------------------------------------
(* Every variable has its type.                                            *)
TypeOK ==
    /\ LedgerTypeOK
    /\ pc \in [Workers -> {"idle"} \cup Reading \cup RowLocked]
    /\ job \in [Workers -> Jobs \cup {NoJob}]
    /\ draft \in [Workers -> Drafts]
    /\ faults \in 0 .. MaxFaults

(* A webhook that comes in after the order's payment has been answered     *)
(* never writes anything, whatever reference, amount or outcome it         *)
(* carries: it is answered "duplicate" or "rejected".  No answered payment *)
(* becomes pending again under a delivery that is still reading.           *)
LateDeliveryWritesNothing ==
    \A w \in Workers :
        pc[w] # "idle" /\ job[w].late => pc[w] \in {"find_ref", "find_pending"}

(* The payment of an order can be applied again only by requests that were *)
(* already in flight when it was first applied, so an order never has more *)
(* settlement events than requests can be in flight at once.               *)
ReappliedOnlyInFlight ==
    \A o \in Orders : Len(timeline[o]) <= 1 + Cardinality(Workers)

(* A request inside its transaction eventually ends it, so row locks and   *)
(* connections come back, although one that holds its order's row may be   *)
(* waiting for the index entry of another one while others wait for the    *)
(* row.                                                                    *)
EveryWebhookAnswered ==
    \A w \in Workers : pc[w] # "idle" ~> pc[w] = "idle"

(* w is in a circle of requests that wait for each other.                  *)
Deadlocked(w) ==
    \E C \in SUBSET Workers :
        /\ w \in C
        /\ \A v \in C :
              /\ \E u \in C : WaitsFor(v, u)
              /\ \E u \in C : WaitsFor(u, v)

(* Requests that lock rows and index entries in this order can still wait  *)
(* for each other in a circle, when an aggregator mixes up references, but *)
(* a circle never costs an order its first settlement: all in it are about *)
(* to apply an answered payment once more.                                 *)
CirclesOnlyReapply ==
    \A w \in Workers : Deadlocked(w) => txn[Order(w)].status \in {"settled", "failed"}

(* Lost transactions are made good by the aggregator's retries: an order   *)
(* whose payment is reported with the amount its buyer was asked for (the  *)
(* total on delivery, the advance otherwise), under a reference reported   *)
(* for no other order, does not stay pending.                              *)
PaymentEventuallyRecorded ==
    \A n \in Notices :
        LET o == n.order
            own == \A m \in Notices : m.ref = n.ref => m.order = o
        IN  own =>
              (ord[o].status = "created" /\ n.amount = AmountOwed(ord[o].terms)
                 ~> txn[o].status \in {"settled", "failed"})
==============================================================================
