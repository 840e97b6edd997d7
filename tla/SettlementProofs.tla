--------------------------- MODULE SettlementProofs --------------------------
(***************************************************************************)
(* Settlement implements PaymentLedger, for any number of orders,          *)
(* references, concurrent requests and faults: the interleaved statements  *)
(* of applySettlement change the committed rows only by placing an order   *)
(* or applying a notice as one atomic step.                                *)
(***************************************************************************)
EXTENDS Settlement, LedgerProofs, FiniteSetTheorems

(* A busy worker has a job.                                                *)
JobOK(w) == pc[w] # "idle" => job[w] \in Jobs

(* A worker that found its pending row works on a row that is still there, *)
(* for the amount that was checked: rows never go away, amounts never      *)
(* change.                                                                 *)
FoundOK(w) ==
    pc[w] \in {"mark"} \cup RowLocked =>
        /\ txn[Order(w)].status # "none"
        /\ txn[Order(w)].amount = job[w].notice.amount

(* The order row as transitionStatus leaves it.                            *)
Moved(w) == [ord[Order(w)] EXCEPT !.status = SettlementStatus(job[w].notice)]

(* The outbox rows that notifyCustomer inserts for w's notice.             *)
NewKeys(w) == Enqueued(outbox, SettlementKey(job[w].notice)) \ outbox

(* What a worker past the unique index has drafted is what ApplyNotice      *)
(* would make of the COMMITTED rows now: nothing its statements read has   *)
(* changed since, although they read it at different times.                *)
DraftOK(w) ==
    LET n == job[w].notice IN
    pc[w] \in Writing =>
        /\ \A other \in Orders \ {n.order} : txn[other].ref # n.ref
        /\ draft[w].txn = MarkedTxn(txn[n.order], n, job[w].at)
        /\ pc[w] # "transition" =>
              draft[w].event = [from |-> ord[n.order].status,
                                to |-> SettlementStatus(n)]
        /\ pc[w] \in {"notify", "clock"} => draft[w].ord = Moved(w)
        /\ pc[w] = "clock" => Success(n) /\ txn[n.order].isAdvance
        /\ pc[w] = "commit" =>
              draft[w].ord = ClockedOrder(Moved(w), txn[n.order].isAdvance,
                                          n, job[w].at)
        /\ pc[w] \in {"clock", "commit"} => draft[w].inserted = NewKeys(w)

(* Two workers with a row lock hold different rows, and two that are past  *)
(* the unique index write different references.                            *)
Exclusive ==
    \A v, w \in Workers :
        v # w =>
            /\ pc[v] \in RowLocked /\ pc[w] \in RowLocked => Order(v) # Order(w)
            /\ pc[v] \in Writing /\ pc[w] \in Writing =>
                  job[v].notice.ref # job[w].notice.ref

(* An order whose payment was answered when a webhook came in stays        *)
(* answered, and the webhook has not got past its reads.                   *)
LateOK(w) ==
    pc[w] # "idle" /\ job[w].late =>
        /\ txn[Order(w)].status \in {"settled", "failed"}
        /\ pc[w] \in {"find_ref", "find_pending"}

(* The part of every worker.                                               *)
WorkersOK ==
    \A w \in Workers : JobOK(w) /\ FoundOK(w) /\ DraftOK(w) /\ LateOK(w)

(* The inductive invariant.                                                *)
SettlementInv == TypeOK /\ LedgerInv /\ Exclusive /\ WorkersOK

PCs == {"idle"} \cup Reading \cup RowLocked

------------------------------------------------------------------------------
(* A busy worker's job is a notice about an order, with a reference and an *)
(* instant.                                                                *)
LEMMA JobFacts ==
    ASSUME SettlementInv, NEW w \in Workers, pc[w] # "idle"
    PROVE  /\ job[w] \in Jobs
           /\ job[w].notice \in Notices
           /\ job[w].at \in Times
           /\ job[w].late \in BOOLEAN
           /\ Order(w) \in Orders
           /\ job[w].notice.ref \in Refs
           /\ txn[Order(w)] \in TxnRow
           /\ ord[Order(w)] \in OrderRow
           /\ draft[w] \in Drafts
  BY LedgerAssumption
  DEF SettlementInv, WorkersOK, JobOK, Jobs, Order, SettlementNotices,
      TypeOK, LedgerTypeOK

(* A worker that a step does not touch keeps its part of the invariant, if *)
(* the step leaves the committed rows alone.                               *)
LEMMA BystanderQuiet ==
    ASSUME SettlementInv, NEW v \in Workers, UNCHANGED ledger,
           pc'[v] = pc[v], job'[v] = job[v], draft'[v] = draft[v]
    PROVE  JobOK(v)' /\ FoundOK(v)' /\ DraftOK(v)' /\ LateOK(v)'
  <1>1. JobOK(v) /\ FoundOK(v) /\ DraftOK(v) /\ LateOK(v)
    BY DEF SettlementInv, WorkersOK
  <1>2. txn' = txn /\ ord' = ord /\ outbox' = outbox
    BY DEF ledger
  <1>3. JobOK(v)'
    BY <1>1 DEF JobOK
  <1>4. FoundOK(v)'
    BY <1>1, <1>2 DEF FoundOK, Order
  <1>5. DraftOK(v)'
    BY <1>1, <1>2 DEF DraftOK, Moved, NewKeys, Order
  <1>6. LateOK(v)'
    BY <1>1, <1>2 DEF LateOK, Order
  <1> QED
    BY <1>3, <1>4, <1>5, <1>6

(* A step of one worker that leaves the committed rows alone preserves the *)
(* invariant if that worker's part holds afterwards and, should it hold a  *)
(* row or an index entry then, nobody else holds it.                       *)
LEMMA LocalStep ==
    ASSUME SettlementInv, NEW w \in Workers, UNCHANGED ledger,
           NEW q \in PCs, NEW jb \in Jobs \cup {NoJob}, NEW d \in Drafts,
           pc' = [pc EXCEPT ![w] = q],
           job' = [job EXCEPT ![w] = jb],
           draft' = [draft EXCEPT ![w] = d],
           faults' \in 0 .. MaxFaults,
           JobOK(w)', FoundOK(w)', DraftOK(w)', LateOK(w)',
           \A v \in Workers \ {w} :
               /\ q \in RowLocked /\ pc[v] \in RowLocked =>
                     Order(v) # jb.notice.order
               /\ q \in Writing /\ pc[v] \in Writing =>
                     job[v].notice.ref # jb.notice.ref
    PROVE  SettlementInv'
  <1>1. /\ pc \in [Workers -> PCs]
        /\ job \in [Workers -> Jobs \cup {NoJob}]
        /\ draft \in [Workers -> Drafts]
    BY DEF SettlementInv, TypeOK, PCs
  <1>2. LedgerInv'
    BY LedgerStutterInv DEF SettlementInv
  <1>3. TypeOK'
    BY <1>1, <1>2 DEF TypeOK, LedgerInv, PCs
  <1>4. \A v \in Workers \ {w} :
           pc'[v] = pc[v] /\ job'[v] = job[v] /\ draft'[v] = draft[v]
    BY <1>1
  <1>5. pc'[w] = q /\ job'[w] = jb
    BY <1>1
  <1>6. WorkersOK'
    BY <1>4, BystanderQuiet DEF WorkersOK
  <1>7. Exclusive'
    <2> SUFFICES ASSUME NEW u \in Workers, NEW v \in Workers, u # v
                 PROVE  /\ pc'[u] \in RowLocked /\ pc'[v] \in RowLocked =>
                              Order(u)' # Order(v)'
                        /\ pc'[u] \in Writing /\ pc'[v] \in Writing =>
                              job'[u].notice.ref # job'[v].notice.ref
      BY DEF Exclusive
    <2>1. CASE u # w /\ v # w
      BY <2>1, <1>4 DEF SettlementInv, Exclusive, Order
    <2>2. CASE u = w
      BY <2>2, <1>4, <1>5 DEF Order
    <2>3. CASE v = w
      BY <2>3, <1>4, <1>5 DEF Order
    <2> QED
      BY <2>1, <2>2, <2>3
  <1> QED
    BY <1>2, <1>3, <1>6, <1>7 DEF SettlementInv

(* An empty draft is a draft.                                              *)
LEMMA NoDraftType == NoDraft \in Drafts
  BY DEF NoDraft, Drafts, NoTxn, NoOrder, TxnRow, OrderRow, TxnStatuses,
         OrderStatuses, PaymentTerms, StatusEvent

(* Ending a transaction without COMMIT: a "duplicate" or "rejected"        *)
(* answer, a constraint violation or a fault.                              *)
LEMMA EndInv ==
    ASSUME SettlementInv, NEW w \in Workers, End(w), UNCHANGED ledger,
           faults' \in 0 .. MaxFaults
    PROVE  SettlementInv'
  <1>1. pc'[w] = "idle"
    BY DEF End, SettlementInv, TypeOK
  <1>2. JobOK(w)' /\ FoundOK(w)' /\ DraftOK(w)' /\ LateOK(w)'
    BY <1>1 DEF JobOK, FoundOK, DraftOK, LateOK, RowLocked, Writing
  <1>3. "idle" \in PCs /\ "idle" \notin RowLocked /\ "idle" \notin Writing
    BY DEF PCs, RowLocked, Writing
  <1> QED
    BY <1>2, <1>3, NoDraftType, LocalStep DEF End

(* The initial state.                                                      *)
LEMMA InitInv == Init => SettlementInv
  <1> SUFFICES ASSUME Init PROVE SettlementInv
    OBVIOUS
  <1>1. LedgerInv
    BY LedgerInitInv DEF Init
  <1>2. TypeOK
    BY <1>1, NoDraftType, SettlementAssumption DEF Init, TypeOK, LedgerInv
  <1>3. \A w \in Workers : pc[w] = "idle"
    BY DEF Init
  <1>4. Exclusive
    BY <1>3 DEF Exclusive, RowLocked, Writing
  <1>5. WorkersOK
    BY <1>3 DEF WorkersOK, JobOK, FoundOK, DraftOK, LateOK, RowLocked, Writing
  <1> QED
    BY <1>1, <1>2, <1>4, <1>5 DEF SettlementInv

------------------------------------------------------------------------------
(* One lemma per statement of applySettlement.                             *)

(* Arriving, a webhook is late only if its payment has been answered, and  *)
(* it has read and written nothing.                                        *)
LEMMA ReceiveInv ==
    ASSUME SettlementInv, NEW w \in Workers, NEW n \in Notices,
           NEW at \in Times, Receive(w, n, at)
    PROVE  SettlementInv'
  <1> DEFINE jb == [notice |-> n, at |-> at,
                    late |-> txn[n.order].status \in {"settled", "failed"}]
  <1>1. /\ pc' = [pc EXCEPT ![w] = "find_ref"]
        /\ job' = [job EXCEPT ![w] = jb]
        /\ draft' = [draft EXCEPT ![w] = draft[w]]
        /\ UNCHANGED ledger /\ txn' = txn
        /\ faults' \in 0 .. MaxFaults
    BY DEF Receive, SettlementInv, TypeOK, ledger
  <1>2. jb \in Jobs /\ draft[w] \in Drafts /\ "find_ref" \in PCs
    BY DEF Jobs, SettlementInv, TypeOK, PCs, Reading
  <1>3. pc'[w] = "find_ref" /\ job'[w] = jb
    BY <1>1 DEF SettlementInv, TypeOK
  <1>4. JobOK(w)'
    BY <1>2, <1>3 DEF JobOK
  <1>5. FoundOK(w)' /\ DraftOK(w)'
    BY <1>3 DEF FoundOK, DraftOK, RowLocked, Writing
  <1>6. LateOK(w)'
    <2>1. jb.notice = n /\ jb.late = (txn[n.order].status \in {"settled", "failed"})
      OBVIOUS
    <2>2. jb.late => txn[jb.notice.order].status \in {"settled", "failed"}
      BY <2>1, Zenon
    <2> HIDE DEF jb
    <2> QED
      BY <1>1, <1>3, <2>2 DEF LateOK, Order
  <1>7. "find_ref" \notin RowLocked /\ "find_ref" \notin Writing
    BY DEF RowLocked, Writing
  <1> HIDE DEF jb
  <1> QED
    BY <1>1, <1>2, <1>4, <1>5, <1>6, <1>7, LocalStep

(* A worker moves on to the next statement: the invariant needs its own    *)
(* part afterwards, the row to be free when it locks it and the reference  *)
(* to be free when it enters it.                                           *)
LEMMA ProceedInv ==
    ASSUME SettlementInv, NEW w \in Workers, pc[w] # "idle",
           NEW q \in PCs, NEW d \in Drafts, Proceed(w, q, d), UNCHANGED ledger,
           FoundOK(w)', DraftOK(w)',
           job[w].late => q \in {"find_ref", "find_pending"},
           \A v \in Workers \ {w} :
               /\ q \in RowLocked /\ pc[w] \notin RowLocked /\ pc[v] \in RowLocked =>
                     Order(v) # Order(w)
               /\ q \in Writing /\ pc[w] \notin Writing /\ pc[v] \in Writing =>
                     job[v].notice.ref # job[w].notice.ref
    PROVE  SettlementInv'
  <1>1. /\ pc' = [pc EXCEPT ![w] = q]
        /\ job' = [job EXCEPT ![w] = job[w]]
        /\ draft' = [draft EXCEPT ![w] = d]
        /\ job' = job /\ txn' = txn
        /\ faults' \in 0 .. MaxFaults
    BY DEF Proceed, SettlementInv, TypeOK, ledger
  <1>2. pc'[w] = q /\ job[w] \in Jobs
    BY <1>1, JobFacts DEF SettlementInv, TypeOK
  <1>3. JobOK(w)'
    BY <1>1, <1>2 DEF JobOK
  <1>4. LateOK(w)'
    BY <1>1, <1>2 DEF LateOK, Order, SettlementInv, WorkersOK
  <1>5. \A v \in Workers \ {w} :
           /\ q \in RowLocked /\ pc[v] \in RowLocked =>
                 Order(v) # job[w].notice.order
           /\ q \in Writing /\ pc[v] \in Writing =>
                 job[v].notice.ref # job[w].notice.ref
    BY DEF SettlementInv, Exclusive, Order
  <1> QED
    BY <1>1, <1>2, <1>3, <1>4, <1>5, LocalStep

(* The idempotency check reads only.                                       *)
LEMMA FindByAggregatorRefInv ==
    ASSUME SettlementInv, NEW w \in Workers, FindByAggregatorRef(w)
    PROVE  SettlementInv'
  <1>1. pc[w] = "find_ref" /\ UNCHANGED ledger
    BY DEF FindByAggregatorRef
  <1>2. CASE End(w) /\ UNCHANGED faults
    BY <1>1, <1>2, EndInv DEF SettlementInv, TypeOK
  <1>3. CASE Proceed(w, "find_pending", draft[w])
    <2>1. pc'[w] = "find_pending"
      BY <1>3 DEF Proceed, SettlementInv, TypeOK
    <2>2. FoundOK(w)' /\ DraftOK(w)'
      BY <2>1 DEF FoundOK, DraftOK, RowLocked, Writing
    <2>3. /\ "find_pending" \in PCs \ RowLocked /\ "find_pending" \notin Writing
          /\ draft[w] \in Drafts
      BY DEF PCs, Reading, RowLocked, Writing, SettlementInv, TypeOK
    <2> QED
      BY <1>1, <1>3, <2>2, <2>3, ProceedInv
  <1> QED
    BY <1>2, <1>3 DEF FindByAggregatorRef

(* The pending row is there and its amount matches when the worker goes on, *)
(* and a late webhook does not.                                            *)
LEMMA FindPendingForOrderInv ==
    ASSUME SettlementInv, NEW w \in Workers, FindPendingForOrder(w)
    PROVE  SettlementInv'
  <1>1. pc[w] = "find_pending" /\ UNCHANGED ledger
    BY DEF FindPendingForOrder
  <1>2. CASE End(w) /\ UNCHANGED faults
    BY <1>1, <1>2, EndInv DEF SettlementInv, TypeOK
  <1>3. CASE /\ txn[Order(w)].status = "pending"
             /\ txn[Order(w)].amount = job[w].notice.amount
             /\ Proceed(w, "mark", draft[w])
    <2>1. pc'[w] = "mark" /\ job' = job /\ txn' = txn
      BY <1>1, <1>3 DEF Proceed, SettlementInv, TypeOK, ledger
    <2>2. FoundOK(w)' /\ DraftOK(w)'
      BY <1>3, <2>1 DEF FoundOK, DraftOK, RowLocked, Writing, Order
    <2>3. ~job[w].late
      BY <1>1, <1>3 DEF SettlementInv, WorkersOK, LateOK
    <2>4. "mark" \in PCs \ RowLocked /\ "mark" \notin Writing /\ draft[w] \in Drafts
      BY DEF PCs, Reading, RowLocked, Writing, SettlementInv, TypeOK
    <2> QED
      BY <1>1, <1>3, <2>2, <2>3, <2>4, ProceedInv
  <1> QED
    BY <1>2, <1>3 DEF FindPendingForOrder

(* The UPDATE locks the row: from here on the worker excludes others from  *)
(* it.                                                                     *)
LEMMA MarkInv ==
    ASSUME SettlementInv, NEW w \in Workers, Mark(w)
    PROVE  SettlementInv'
  <1>1. /\ pc[w] = "mark" /\ UNCHANGED ledger
        /\ RowFree(w, Order(w)) /\ Proceed(w, "index", draft[w])
    BY DEF Mark
  <1>2. pc'[w] = "index" /\ job' = job /\ txn' = txn
    BY <1>1 DEF Proceed, SettlementInv, TypeOK, ledger
  <1>3. FoundOK(w)' /\ DraftOK(w)'
    BY <1>1, <1>2 DEF SettlementInv, WorkersOK, FoundOK, DraftOK, Order, RowLocked, Writing
  <1>4. ~job[w].late
    BY <1>1 DEF SettlementInv, WorkersOK, LateOK
  <1>5. "index" \in PCs /\ "index" \notin Writing /\ draft[w] \in Drafts
    BY DEF PCs, RowLocked, Writing, SettlementInv, TypeOK
  <1>6. \A v \in Workers \ {w} : pc[v] \in RowLocked => Order(v) # Order(w)
    BY <1>1 DEF RowFree
  <1> QED
    BY <1>1, <1>3, <1>4, <1>5, <1>6, ProceedInv

(* The index entry: from here on the worker excludes others from the       *)
(* reference too.                                                          *)
LEMMA EnterRefInv ==
    ASSUME SettlementInv, NEW w \in Workers, EnterRef(w)
    PROVE  SettlementInv'
  <1> DEFINE n == job[w].notice
             d == MarkedDraft(w)
  <1>1. /\ pc[w] = "index" /\ pc[w] \in RowLocked /\ UNCHANGED ledger
        /\ \A v \in Workers : ~WaitsFor(w, v)
    BY DEF EnterRef, RowLocked
  <1>2. CASE End(w) /\ UNCHANGED faults
    BY <1>1, <1>2, EndInv DEF SettlementInv, TypeOK
  <1>3. CASE /\ ~ \E o \in Orders \ {n.order} : txn[o].ref = n.ref
             /\ Proceed(w, "transition", d)
    <2>1. /\ n \in Notices /\ job[w].at \in Times /\ Order(w) \in Orders
          /\ txn[Order(w)] \in TxnRow /\ draft[w] \in Drafts
      BY <1>1, JobFacts
    <2>2. MarkedTxn(txn[Order(w)], n, job[w].at) \in TxnRow
      BY <2>1, MarkedTxnType
    <2>3. d \in Drafts /\ d.txn = MarkedTxn(txn[Order(w)], n, job[w].at)
      BY <2>1, <2>2 DEF MarkedDraft, Drafts
    <2>4. /\ pc'[w] = "transition" /\ job' = job /\ txn' = txn
          /\ draft'[w] = d
      BY <1>1, <1>3 DEF Proceed, SettlementInv, TypeOK, ledger
    <2> HIDE DEF d
    <2>5. FoundOK(w)'
      BY <1>1, <2>4 DEF SettlementInv, WorkersOK, FoundOK, Order
    <2>6. DraftOK(w)'
      BY <1>3, <2>3, <2>4 DEF DraftOK, Order
    <2>7. ~job[w].late
      BY <1>1 DEF SettlementInv, WorkersOK, LateOK
    <2>8. ASSUME NEW v \in Workers \ {w}, pc[v] \in Writing
          PROVE  job[v].notice.ref # n.ref
      <3>1. pc[v] # "idle"
        BY <2>8 DEF Writing
      <3>2. /\ job[v].notice \in Notices /\ job[v].at \in Times
            /\ txn[Order(v)] \in TxnRow
        BY <3>1, JobFacts
      <3>3. draft[v].txn = MarkedTxn(txn[Order(v)], job[v].notice, job[v].at)
        BY <2>8 DEF SettlementInv, WorkersOK, DraftOK, Order
      <3>4. draft[v].txn.ref = job[v].notice.ref
        BY <3>2, <3>3, MarkedTxnType
      <3> QED
        BY <1>1, <2>8, <3>4 DEF WaitsFor
    <2>9. "transition" \in PCs
      BY DEF PCs, RowLocked, Writing
    <2> QED
      BY <1>1, <1>3, <2>3, <2>5, <2>6, <2>7, <2>8, <2>9, ProceedInv
  <1> QED
    BY <1>2, <1>3 DEF EnterRef

(* The order row as transitionStatus leaves it is an order row.            *)
LEMMA MovedType ==
    ASSUME SettlementInv, NEW w \in Workers, pc[w] # "idle"
    PROVE  Moved(w) \in OrderRow
  <1>1. ord[Order(w)] \in OrderRow /\ job[w].notice \in Notices
    BY JobFacts
  <1>2. SettlementStatus(job[w].notice) \in OrderStatuses
    BY <1>1, SettlementStatusType
  <1> QED
    BY <1>1, <1>2 DEF Moved, OrderRow

(* A writing worker's late flag is off.                                    *)
LEMMA WriterNotLate ==
    ASSUME SettlementInv, NEW w \in Workers, pc[w] \in Writing
    PROVE  ~job[w].late
  BY DEF SettlementInv, WorkersOK, LateOK, Writing

(* The status event and the status column, drafted from the committed row. *)
LEMMA TransitionStatusInv ==
    ASSUME SettlementInv, NEW w \in Workers, TransitionStatus(w)
    PROVE  SettlementInv'
  <1> DEFINE n == job[w].notice
             evt == [from |-> ord[Order(w)].status, to |-> SettlementStatus(n)]
             d == [draft[w] EXCEPT !.event = evt, !.ord = Moved(w)]
  <1>1. /\ pc[w] = "transition" /\ pc[w] \in Writing \cap RowLocked /\ UNCHANGED ledger
        /\ Proceed(w, "notify", d)
    BY DEF TransitionStatus, Moved, RowLocked, Writing
  <1>2. /\ n \in Notices /\ ord[Order(w)] \in OrderRow /\ draft[w] \in Drafts
    BY <1>1, JobFacts
  <1>3. evt \in StatusEvent
    BY <1>2, SettlementStatusType DEF StatusEvent, OrderRow
  <1>4. Moved(w) \in OrderRow
    BY <1>1, MovedType
  <1> HIDE DEF evt
  <1>5. d \in Drafts /\ d.event = evt /\ d.ord = Moved(w) /\ d.txn = draft[w].txn
    BY <1>2, <1>3, <1>4 DEF Drafts
  <1> HIDE DEF d
  <1>6. /\ pc'[w] = "notify" /\ draft'[w] = d /\ job' = job
        /\ txn' = txn /\ ord' = ord
    BY <1>1 DEF Proceed, SettlementInv, TypeOK, ledger
  <1>7. FoundOK(w)'
    BY <1>1, <1>6 DEF SettlementInv, WorkersOK, FoundOK, Order, RowLocked, Writing
  <1>8. Moved(w)' = Moved(w)
    BY <1>6 DEF Moved, Order
  <1>9. DraftOK(w)'
    BY <1>1, <1>5, <1>6, <1>8 DEF SettlementInv, WorkersOK, DraftOK, Order, evt
  <1>10. "notify" \in PCs /\ ~job[w].late
    BY <1>1, WriterNotLate DEF PCs, RowLocked, Writing
  <1> QED
    BY <1>1, <1>5, <1>7, <1>9, <1>10, ProceedInv

(* The notification, and whether a clock is to be started at all.          *)
LEMMA NotifyCustomerInv ==
    ASSUME SettlementInv, NEW w \in Workers, NotifyCustomer(w)
    PROVE  SettlementInv'
  <1> DEFINE n == job[w].notice
             q == IF Success(n) /\ draft[w].txn.isAdvance THEN "clock" ELSE "commit"
             d == [draft[w] EXCEPT !.inserted = NewKeys(w)]
  <1>1. /\ pc[w] = "notify" /\ pc[w] \in Writing \cap RowLocked /\ UNCHANGED ledger
        /\ Proceed(w, q, d)
    BY DEF NotifyCustomer, NewKeys, RowLocked, Writing
  <1>2. /\ n \in Notices /\ job[w].at \in Times
        /\ txn[Order(w)] \in TxnRow /\ draft[w] \in Drafts
    BY <1>1, JobFacts
  <1>3. NewKeys(w) \in SUBSET DedupeKey
    BY <1>2, SettlementKeyType, EnqueuedType
    DEF NewKeys, SettlementInv, TypeOK, LedgerTypeOK
  <1>4. /\ d \in Drafts /\ d.txn = draft[w].txn /\ d.event = draft[w].event
        /\ d.ord = draft[w].ord /\ d.inserted = NewKeys(w)
    BY <1>2, <1>3 DEF Drafts
  <1>5. q \in {"clock", "commit"} /\ q \in PCs /\ q \in Writing
    BY DEF PCs, RowLocked, Writing
  <1>6. draft[w].txn = MarkedTxn(txn[Order(w)], n, job[w].at)
    BY <1>1 DEF SettlementInv, WorkersOK, DraftOK, Order
  <1>7. draft[w].txn.isAdvance = txn[Order(w)].isAdvance
    BY <1>2, <1>6, MarkedTxnType
  <1>8. q = "clock" <=> Success(n) /\ txn[Order(w)].isAdvance
    BY <1>7
  <1> HIDE DEF d, q
  <1>9. /\ pc'[w] = q /\ draft'[w] = d /\ job' = job
        /\ txn' = txn /\ ord' = ord /\ outbox' = outbox
    BY <1>1, <1>5 DEF Proceed, SettlementInv, TypeOK, ledger
  <1>10. FoundOK(w)'
    BY <1>1, <1>9 DEF SettlementInv, WorkersOK, FoundOK, Order, RowLocked, Writing
  <1>11. Moved(w)' = Moved(w) /\ NewKeys(w)' = NewKeys(w)
    BY <1>9 DEF Moved, NewKeys, Order
  <1>12. q = "commit" =>
            d.ord = ClockedOrder(Moved(w), txn[Order(w)].isAdvance, n, job[w].at)
    <2> SUFFICES ASSUME q = "commit"
                 PROVE  d.ord = ClockedOrder(Moved(w), txn[Order(w)].isAdvance,
                                             n, job[w].at)
      OBVIOUS
    <2>1. d.ord = Moved(w)
      BY <1>1, <1>4 DEF SettlementInv, WorkersOK, DraftOK
    <2>2. ~(Success(n) /\ txn[Order(w)].isAdvance)
      BY <1>8
    <2> QED
      BY <2>1, <2>2 DEF ClockedOrder
  <1>13. DraftOK(w)'
    BY <1>1, <1>4, <1>5, <1>8, <1>9, <1>11, <1>12
    DEF SettlementInv, WorkersOK, DraftOK, Order
  <1>14. ~job[w].late
    BY <1>1, WriterNotLate
  <1> QED
    BY <1>1, <1>4, <1>5, <1>10, <1>13, <1>14, ProceedInv

(* The clock, from the order row as this transaction has left it.          *)
LEMMA StartDeliveryClockInv ==
    ASSUME SettlementInv, NEW w \in Workers, StartDeliveryClock(w)
    PROVE  SettlementInv'
  <1> DEFINE n == job[w].notice
             row == ClockedOrder(Moved(w), TRUE, n, job[w].at)
             d == [draft[w] EXCEPT !.ord = row]
  <1>1. /\ pc[w] = "clock" /\ pc[w] \in Writing \cap RowLocked /\ UNCHANGED ledger
    BY DEF StartDeliveryClock, RowLocked, Writing
  <1>2. /\ draft[w].ord = Moved(w) /\ Success(n) /\ txn[Order(w)].isAdvance
    BY <1>1 DEF SettlementInv, WorkersOK, DraftOK, Order
  <1>3. Proceed(w, "commit", d)
    BY <1>2 DEF StartDeliveryClock
  <1>4. /\ n \in Notices /\ job[w].at \in Times
        /\ txn[Order(w)] \in TxnRow /\ draft[w] \in Drafts
    BY <1>1, JobFacts
  <1>5. row \in OrderRow
    BY <1>1, <1>4, MovedType, ClockedOrderType
  <1>6. row = ClockedOrder(Moved(w), txn[Order(w)].isAdvance, n, job[w].at)
    BY <1>2 DEF ClockedOrder
  <1> HIDE DEF row
  <1>7. /\ d \in Drafts /\ d.txn = draft[w].txn /\ d.event = draft[w].event
        /\ d.ord = row /\ d.inserted = draft[w].inserted
    BY <1>4, <1>5 DEF Drafts
  <1> HIDE DEF d
  <1>8. /\ pc'[w] = "commit" /\ draft'[w] = d /\ job' = job
        /\ txn' = txn /\ ord' = ord /\ outbox' = outbox
    BY <1>1, <1>3 DEF Proceed, SettlementInv, TypeOK, ledger
  <1>9. FoundOK(w)'
    BY <1>1, <1>8 DEF SettlementInv, WorkersOK, FoundOK, Order, RowLocked, Writing
  <1>10. Moved(w)' = Moved(w) /\ NewKeys(w)' = NewKeys(w)
    BY <1>8 DEF Moved, NewKeys, Order
  <1>11. DraftOK(w)'
    BY <1>1, <1>6, <1>7, <1>8, <1>10 DEF SettlementInv, WorkersOK, DraftOK, Order
  <1>12. "commit" \in PCs /\ ~job[w].late
    BY <1>1, WriterNotLate DEF PCs, RowLocked, Writing
  <1> QED
    BY <1>1, <1>3, <1>7, <1>9, <1>11, <1>12, ProceedInv

------------------------------------------------------------------------------
(* Steps that change committed rows.                                       *)

(* COMMIT installs exactly what ApplyNotice describes: the settlement is   *)
(* atomic at its commit point.                                             *)
LEMMA CommitApplies ==
    ASSUME SettlementInv, NEW w \in Workers, Commit(w)
    PROVE  ApplyNotice(job[w].notice, job[w].at)
  <1> DEFINE n == job[w].notice
             o == Order(w)
  <1>1. pc[w] = "commit" /\ pc[w] \in Writing
    BY DEF Commit, RowLocked, Writing
  <1>2. /\ \A other \in Orders \ {o} : txn[other].ref # n.ref
        /\ draft[w].txn = MarkedTxn(txn[o], n, job[w].at)
        /\ draft[w].event = [from |-> ord[o].status, to |-> SettlementStatus(n)]
        /\ draft[w].ord = ClockedOrder(Moved(w), txn[o].isAdvance, n, job[w].at)
        /\ draft[w].inserted = NewKeys(w)
    BY <1>1 DEF SettlementInv, WorkersOK, DraftOK, Order
  <1>3. txn[o].status # "none" /\ n.amount = txn[o].amount
    BY <1>1 DEF SettlementInv, WorkersOK, FoundOK, RowLocked, Writing
  <1>4. outbox \cup NewKeys(w) = Enqueued(outbox, SettlementKey(n))
    BY DEF NewKeys, Enqueued
  <1>5. outbox' = Enqueued(outbox, SettlementKey(n))
    BY <1>2, <1>4 DEF Commit
  <1>6. txn' = [txn EXCEPT ![o] = MarkedTxn(txn[o], n, job[w].at)]
    BY <1>2 DEF Commit
  <1>7. timeline' = [timeline EXCEPT
                       ![o] = Append(timeline[o], [from |-> ord[o].status,
                                                   to |-> SettlementStatus(n)])]
    BY <1>2 DEF Commit
  <1>8. ord' = [ord EXCEPT ![o] = ClockedOrder(Moved(w), txn[o].isAdvance,
                                               n, job[w].at)]
    BY <1>2 DEF Commit
  <1> QED
    BY <1>2, <1>3, <1>5, <1>6, <1>7, <1>8 DEF ApplyNotice, Order, Moved

(* Inserting a notification does not change which rows a notice with       *)
(* another reference would insert.                                         *)
LEMMA EnqueueOther ==
    ASSUME NEW box, NEW k1, NEW k2, k1.ref # k2.ref
    PROVE  Enqueued(Enqueued(box, k1), k2) \ Enqueued(box, k1)
             = Enqueued(box, k2) \ box
  BY DEF Enqueued

(* A worker that has not written yet survives a change of the committed    *)
(* rows that keeps rows in place, amounts fixed and answers answered.      *)
LEMMA BystanderReading ==
    ASSUME SettlementInv, NEW v \in Workers, pc[v] \notin Writing,
           pc'[v] = pc[v], job'[v] = job[v],
           pc[v] # "idle" /\ txn[Order(v)].status # "none" =>
               /\ txn'[Order(v)].status # "none"
               /\ txn'[Order(v)].amount = txn[Order(v)].amount,
           pc[v] # "idle" /\ txn[Order(v)].status \in {"settled", "failed"} =>
               txn'[Order(v)].status \in {"settled", "failed"}
    PROVE  JobOK(v)' /\ FoundOK(v)' /\ DraftOK(v)' /\ LateOK(v)'
  <1>1. JobOK(v) /\ FoundOK(v) /\ LateOK(v)
    BY DEF SettlementInv, WorkersOK
  <1>2. Order(v)' = Order(v)
    BY DEF Order
  <1>3. JobOK(v)' /\ DraftOK(v)'
    BY <1>1 DEF JobOK, DraftOK
  <1>4. FoundOK(v)'
    BY <1>1, <1>2 DEF FoundOK, RowLocked, Writing
  <1>5. LateOK(v)'
    BY <1>1, <1>2 DEF LateOK
  <1> QED
    BY <1>3, <1>4, <1>5

(* A worker holding its row lock survives a change of other orders' rows   *)
(* that involves another reference: everything its statements have read is *)
(* still so.                                                               *)
LEMMA BystanderWriting ==
    ASSUME SettlementInv, NEW v \in Workers, pc[v] \in Writing,
           pc'[v] = pc[v], job'[v] = job[v], draft'[v] = draft[v],
           txn'[Order(v)] = txn[Order(v)], ord'[Order(v)] = ord[Order(v)],
           \A other \in Orders \ {Order(v)} : txn'[other].ref # job[v].notice.ref,
           NEW k, k.ref # job[v].notice.ref, outbox' = Enqueued(outbox, k)
    PROVE  JobOK(v)' /\ FoundOK(v)' /\ DraftOK(v)' /\ LateOK(v)'
  <1>1. JobOK(v) /\ FoundOK(v) /\ DraftOK(v) /\ LateOK(v)
    BY DEF SettlementInv, WorkersOK
  <1>2. Order(v)' = Order(v)
    BY DEF Order
  <1>3. JobOK(v)'
    BY <1>1 DEF JobOK
  <1>4. FoundOK(v)'
    BY <1>1, <1>2 DEF FoundOK, RowLocked, Writing
  <1>5. LateOK(v)'
    BY <1>1, <1>2 DEF LateOK
  <1>6. Moved(v)' = Moved(v)
    BY <1>2 DEF Moved
  <1>7. SettlementKey(job[v].notice).ref = job[v].notice.ref
    BY DEF SettlementKey
  <1>8. NewKeys(v)' = NewKeys(v)
    BY <1>7, EnqueueOther DEF NewKeys
  <1>9. DraftOK(v)'
    BY <1>1, <1>2, <1>6, <1>8 DEF DraftOK, Order
  <1> QED
    BY <1>3, <1>4, <1>5, <1>9

(* A new order disturbs no webhook in flight: none of them can have found  *)
(* its row before.                                                         *)
LEMMA PlaceInv ==
    ASSUME SettlementInv, NEW o \in Orders, NEW t \in Terms, Place(o, t)
    PROVE  SettlementInv'
  <1> DEFINE key == [order |-> o, ref |-> NoRef, event |-> "order_confirmed"]
  <1>1. /\ PlaceOrder(o, t) /\ pc' = pc /\ job' = job /\ draft' = draft
        /\ faults' = faults
    BY DEF Place
  <1>2. LedgerInv'
    BY <1>1, PlaceOrderInv DEF SettlementInv
  <1>3. TypeOK'
    BY <1>1, <1>2 DEF SettlementInv, TypeOK, LedgerInv
  <1>4. Exclusive'
    BY <1>1 DEF SettlementInv, Exclusive, Order
  <1>5. txn[o].status = "none"
    BY <1>1 DEF SettlementInv, LedgerInv, LedgerTypeOK, OrderPaymentInSync,
                PlaceOrder, TxnRow, TxnStatuses
  <1>6. /\ \A p \in Orders \ {o} : txn'[p] = txn[p] /\ ord'[p] = ord[p]
        /\ txn'[o].ref = NoRef
        /\ outbox' = Enqueued(outbox, key)
    BY <1>1 DEF PlaceOrder, SettlementInv, TypeOK, LedgerTypeOK, NoTxn
  <1>7. ASSUME NEW v \in Workers
        PROVE  JobOK(v)' /\ FoundOK(v)' /\ DraftOK(v)' /\ LateOK(v)'
    <2>1. CASE pc[v] \notin Writing
      <3>1. pc[v] # "idle" => Order(v) \in Orders
        BY JobFacts
      <3> QED
        BY <1>1, <1>5, <1>6, <2>1, <3>1, BystanderReading
    <2>2. CASE pc[v] \in Writing
      <3>1. pc[v] # "idle"
        BY <2>2 DEF RowLocked, Writing
      <3>2. Order(v) \in Orders /\ job[v].notice.ref \in Refs
        BY <3>1, JobFacts
      <3>3. /\ txn[Order(v)].status # "none"
            /\ \A other \in Orders \ {Order(v)} : txn[other].ref # job[v].notice.ref
        BY <2>2 DEF SettlementInv, WorkersOK, FoundOK, DraftOK, Order, RowLocked, Writing
      <3>4. Order(v) # o
        BY <1>5, <3>3
      <3>5. key.ref # job[v].notice.ref /\ NoRef # job[v].notice.ref
        BY <3>2, LedgerAssumption
      <3>6. \A other \in Orders \ {Order(v)} : txn'[other].ref # job[v].notice.ref
        BY <1>6, <3>3, <3>5
      <3> HIDE DEF key
      <3> QED
        BY <1>1, <1>6, <2>2, <3>2, <3>4, <3>5, <3>6, BystanderWriting
    <2> QED
      BY <2>1, <2>2
  <1> QED
    BY <1>2, <1>3, <1>4, <1>7 DEF SettlementInv, WorkersOK

(* COMMIT: the ledger part follows from CommitApplies, the other workers'  *)
(* parts from Exclusive.                                                   *)
LEMMA CommitInv ==
    ASSUME SettlementInv, NEW w \in Workers, Commit(w)
    PROVE  SettlementInv'
  <1> DEFINE n == job[w].notice
             o == Order(w)
             pay == MarkedTxn(txn[o], n, job[w].at)
  <1>1. /\ pc[w] = "commit" /\ pc[w] \in Writing /\ pc[w] # "idle"
        /\ End(w) /\ faults' = faults
    BY DEF Commit, RowLocked, Writing
  <1>2. /\ n \in Notices /\ job[w].at \in Times /\ o \in Orders
        /\ txn[o] \in TxnRow
    BY <1>1, JobFacts
  <1>3. ApplyNotice(n, job[w].at)
    BY CommitApplies
  <1>4. LedgerInv'
    BY <1>2, <1>3, ApplyNoticeInv DEF SettlementInv
  <1>5. /\ pc' = [pc EXCEPT ![w] = "idle"]
        /\ job' = [job EXCEPT ![w] = NoJob]
        /\ draft' = [draft EXCEPT ![w] = NoDraft]
    BY <1>1 DEF End
  <1>6. /\ pc'[w] = "idle"
        /\ \A v \in Workers \ {w} :
              pc'[v] = pc[v] /\ job'[v] = job[v] /\ draft'[v] = draft[v]
    BY <1>5 DEF SettlementInv, TypeOK
  <1>7. TypeOK'
    BY <1>1, <1>4, <1>5, NoDraftType DEF SettlementInv, TypeOK, LedgerInv
  <1>8. Exclusive'
    BY <1>6 DEF SettlementInv, Exclusive, Order, RowLocked, Writing
  <1>9. /\ txn' = [txn EXCEPT ![o] = pay]
        /\ \A p \in Orders \ {o} : txn'[p] = txn[p] /\ ord'[p] = ord[p]
        /\ txn'[o] = pay
        /\ outbox' = Enqueued(outbox, SettlementKey(n))
    BY <1>2, <1>3 DEF ApplyNotice, Order, SettlementInv, TypeOK, LedgerTypeOK
  <1>10. /\ pay.ref = n.ref /\ pay.amount = txn[o].amount
         /\ pay.status \in {"settled", "failed"}
    BY <1>2, MarkedTxnType
  <1> HIDE DEF pay
  <1>11. ASSUME NEW v \in Workers \ {w}
         PROVE  JobOK(v)' /\ FoundOK(v)' /\ DraftOK(v)' /\ LateOK(v)'
    <2>1. CASE pc[v] \notin Writing
      <3>1. pc[v] # "idle" => Order(v) \in Orders
        BY JobFacts
      <3>2. pc[v] # "idle" =>
               /\ txn'[Order(v)].amount = txn[Order(v)].amount
               /\ txn'[Order(v)] = txn[Order(v)]
                     \/ txn'[Order(v)].status \in {"settled", "failed"}
        BY <1>9, <1>10, <3>1
      <3> QED
        BY <1>6, <2>1, <3>2, BystanderReading
    <2>2. CASE pc[v] \in Writing
      <3>1. pc[v] # "idle"
        BY <2>2 DEF RowLocked, Writing
      <3>2. Order(v) \in Orders
        BY <3>1, JobFacts
      <3>3. Order(v) # o /\ job[v].notice.ref # n.ref
        BY <1>1, <2>2 DEF SettlementInv, Exclusive, RowLocked, Writing
      <3>4. \A other \in Orders \ {Order(v)} : txn[other].ref # job[v].notice.ref
        BY <2>2 DEF SettlementInv, WorkersOK, DraftOK, Order
      <3>5. \A other \in Orders \ {Order(v)} : txn'[other].ref # job[v].notice.ref
        BY <1>9, <1>10, <3>3, <3>4
      <3>6. SettlementKey(n).ref # job[v].notice.ref
        BY <3>3 DEF SettlementKey
      <3> QED
        BY <1>6, <1>9, <2>2, <3>2, <3>3, <3>5, <3>6, BystanderWriting
    <2> QED
      BY <2>1, <2>2
  <1>12. JobOK(w)' /\ FoundOK(w)' /\ DraftOK(w)' /\ LateOK(w)'
    BY <1>6 DEF JobOK, FoundOK, DraftOK, LateOK, RowLocked, Writing
  <1> QED
    BY <1>4, <1>7, <1>8, <1>11, <1>12 DEF SettlementInv, WorkersOK

(* A rolled-back transaction leaves no trace.                              *)
LEMMA FaultInv ==
    ASSUME SettlementInv, NEW w \in Workers, Fault(w)
    PROVE  SettlementInv'
  <1>1. End(w) /\ UNCHANGED ledger
    BY DEF Fault
  <1>2. faults' \in 0 .. MaxFaults
    BY SettlementAssumption DEF Fault, SettlementInv, TypeOK
  <1> QED
    BY <1>1, <1>2, EndInv

------------------------------------------------------------------------------
(* Every step preserves the inductive invariant.                           *)
LEMMA NextInv == SettlementInv /\ [Next]_vars => SettlementInv'
  <1> SUFFICES ASSUME SettlementInv, [Next]_vars PROVE SettlementInv'
    OBVIOUS
  <1>1. ASSUME NEW w \in Workers, Step(w) PROVE SettlementInv'
    BY <1>1, FindByAggregatorRefInv, FindPendingForOrderInv, MarkInv, EnterRefInv,
       TransitionStatusInv, NotifyCustomerInv, StartDeliveryClockInv, CommitInv
    DEF Step
  <1>2. CASE Next
    BY <1>1, <1>2, PlaceInv, ReceiveInv, FaultInv DEF Next
  <1>3. CASE UNCHANGED vars
    <2>1. /\ UNCHANGED ledger /\ pc' = pc /\ job' = job /\ draft' = draft
          /\ faults' = faults
      BY <1>3 DEF vars, ledger
    <2>2. LedgerInv'
      BY <2>1, LedgerStutterInv DEF SettlementInv
    <2>3. TypeOK'
      BY <2>1, <2>2 DEF SettlementInv, TypeOK, LedgerInv
    <2>4. WorkersOK'
      BY <2>1, BystanderQuiet DEF WorkersOK
    <2>5. Exclusive'
      BY <2>1 DEF SettlementInv, Exclusive, Order
    <2> QED
      BY <2>2, <2>3, <2>4, <2>5 DEF SettlementInv
  <1> QED
    BY <1>2, <1>3

(* The inductive invariant holds throughout, whatever the number of        *)
(* concurrent requests and faults.                                         *)
THEOREM SettlementSafety == Spec => []SettlementInv
  BY InitInv, NextInv, PTL DEF Spec

(* Type correctness of the statement-level model.                          *)
THEOREM TypeCorrect == Spec => []TypeOK
  <1>1. SettlementInv => TypeOK
    BY DEF SettlementInv
  <1> QED
    BY <1>1, SettlementSafety, PTL

(* A statement that is not a COMMIT and not the placing of an order leaves *)
(* the committed rows alone; those two are atomic steps of the ledger.     *)
LEMMA StepRefines == SettlementInv /\ [Next]_vars => [LedgerNext]_ledger
  <1> SUFFICES ASSUME SettlementInv, [Next]_vars PROVE [LedgerNext]_ledger
    OBVIOUS
  <1>1. ASSUME NEW w \in Workers, Step(w)
        PROVE  UNCHANGED ledger \/ Commit(w)
    BY <1>1 DEF Step, FindByAggregatorRef, FindPendingForOrder, Mark, EnterRef,
                TransitionStatus, NotifyCustomer, StartDeliveryClock
  <1>2. ASSUME NEW w \in Workers, Commit(w) PROVE LedgerNext
    <2>1. job[w].notice \in Notices /\ job[w].at \in Times
      BY <1>2, JobFacts DEF Commit
    <2> QED
      BY <1>2, <2>1, CommitApplies DEF LedgerNext
  <1>3. ASSUME NEW o \in Orders, NEW t \in Terms, Place(o, t) PROVE LedgerNext
    BY <1>3 DEF Place, LedgerNext
  <1>4. ASSUME NEW w \in Workers, NEW n \in Notices, NEW at \in Times,
               Receive(w, n, at)
        PROVE  UNCHANGED ledger
    BY <1>4 DEF Receive
  <1>5. ASSUME NEW w \in Workers, Fault(w) PROVE UNCHANGED ledger
    BY <1>5 DEF Fault
  <1>6. CASE UNCHANGED vars
    BY <1>6 DEF vars, ledger
  <1>7. CASE Next
    BY <1>1, <1>2, <1>3, <1>4, <1>5, <1>7 DEF Next
  <1> QED
    BY <1>6, <1>7

(* The interleaved statements of concurrent applySettlement calls          *)
(* implement atomic application: the settlement transactions of the code   *)
(* are serialisable in the order they commit.                              *)
THEOREM SettlementImplementsLedger == Spec => LedgerSpec
  <1>1. Init => LedgerInit
    BY DEF Init
  <1> QED
    BY <1>1, StepRefines, SettlementSafety, PTL DEF Spec, LedgerSpec

(* The order and its payment never desync: note 3 of the schema.           *)
THEOREM OrderAndPaymentInSync == Spec => []OrderPaymentInSync
  <1>1. LedgerInv => OrderPaymentInSync
    BY DEF LedgerInv
  <1> QED
    BY <1>1, SettlementImplementsLedger, LedgerSafety, PTL

(* The delivery clock runs for exactly the advances that were settled and  *)
(* shows the regulated deadline.                                           *)
THEOREM ClockCorrect == Spec => []ClockRunsForAdvances
  <1>1. LedgerInv => ClockRunsForAdvances
    BY DEF LedgerInv
  <1> QED
    BY <1>1, SettlementImplementsLedger, LedgerSafety, PTL

(* The delivery clock is never restarted by a later or racing settlement.  *)
THEOREM ClockKept == Spec => ClockNeverRestarts
  BY SettlementImplementsLedger, LedgerClockNeverRestarts, PTL

(* One aggregator reference settles one order.                             *)
THEOREM RefsUnique == Spec => []RefRecordedOnce
  <1>1. LedgerInv => RefRecordedOnce
    BY DEF LedgerInv
  <1> QED
    BY <1>1, SettlementImplementsLedger, LedgerSafety, PTL

(* The status timeline is a chain that ends in the order's status.         *)
THEOREM TimelineCorrect == Spec => []TimelineIsChain
  <1>1. LedgerInv => TimelineIsChain
    BY DEF LedgerInv
  <1> QED
    BY <1>1, SettlementImplementsLedger, LedgerSafety, PTL

(* Nothing is announced that was not committed, and every payment outcome  *)
(* on a row has been announced, however deliveries interleave.             *)
THEOREM OutboxCorrect == Spec => []OutboxMatchesTimeline
  BY SettlementImplementsLedger, LedgerOutboxCorrect, PTL

(* A webhook that comes in after the payment was answered writes nothing.  *)
THEOREM LateDeliveriesInert == Spec => []LateDeliveryWritesNothing
  <1>1. SettlementInv => LateDeliveryWritesNothing
    BY DEF SettlementInv, WorkersOK, LateOK, LateDeliveryWritesNothing
  <1> QED
    BY <1>1, SettlementSafety, PTL

(* Whoever is waited for while itself waiting for an index entry has a row *)
(* with a reference: its order has been answered before.                   *)
LEMMA WaitedForWhileWaiting ==
    ASSUME SettlementInv, NEW u \in Workers, NEW v \in Workers, NEW w \in Workers,
           WaitsFor(u, v), WaitsFor(v, w)
    PROVE  txn[Order(v)].status \in {"settled", "failed"}
  <1>1. pc[u] = "index" /\ pc[v] = "index" /\ txn[Order(v)].ref = job[u].notice.ref
    BY DEF WaitsFor, Writing
  <1>2. /\ job[u].notice.ref \in Refs /\ Order(v) \in Orders
        /\ txn[Order(v)] \in TxnRow /\ txn[Order(v)].status # "none"
    BY <1>1, JobFacts DEF SettlementInv, WorkersOK, FoundOK, RowLocked
  <1>3. txn[Order(v)].status \notin {"none", "pending"}
    BY <1>1, <1>2, LedgerAssumption DEF SettlementInv, LedgerInv, RefRecordedOnce
  <1> QED
    BY <1>2, <1>3 DEF TxnRow, TxnStatuses

(* A circle of waiting requests never holds up an order's first            *)
(* settlement: every request in it would apply an answered payment again,  *)
(* so the one that PostgreSQL aborts loses nothing.                        *)
THEOREM CirclesLoseNothing == Spec => []CirclesOnlyReapply
  <1>1. SettlementInv => CirclesOnlyReapply
    <2> SUFFICES ASSUME SettlementInv, NEW w \in Workers, Deadlocked(w)
                 PROVE  txn[Order(w)].status \in {"settled", "failed"}
      BY DEF CirclesOnlyReapply
    <2>1. PICK u \in Workers, v \in Workers : WaitsFor(u, w) /\ WaitsFor(w, v)
      BY DEF Deadlocked
    <2> QED
      BY <2>1, WaitedForWhileWaiting
  <1> QED
    BY <1>1, SettlementSafety, PTL


------------------------------------------------------------------------------
(* How often one payment can be applied.                                   *)

(* The requests that have found order o's row pending and will mark it, or *)
(* have marked it and not committed yet.                                   *)
Applying(o) ==
    {w \in Workers : pc[w] \in {"mark"} \cup RowLocked /\ Order(w) = o}

(* A pending order has its first event only.  Once its payment has been    *)
(* answered, each further event uses up a request that was applying then:  *)
(* no new request gets past findPendingForOrder.                           *)
EventsBounded ==
    \A o \in Orders :
        /\ txn[o].status = "pending" => Len(timeline[o]) = 1
        /\ txn[o].status \in {"settled", "failed"} =>
              Len(timeline[o]) + Cardinality(Applying(o)) <= 1 + Cardinality(Workers)

(* Requests are finitely many, and so are those applying a payment.        *)
LEMMA ApplyingFinite ==
    ASSUME NEW S \in SUBSET Workers, NEW T \in SUBSET S
    PROVE  /\ IsFiniteSet(S) /\ IsFiniteSet(T)
           /\ Cardinality(Workers) \in Nat
           /\ Cardinality(S) \in Nat /\ Cardinality(T) \in Nat
           /\ Cardinality(T) <= Cardinality(S)
           /\ Cardinality(S) <= Cardinality(Workers)
  <1>1. IsFiniteSet(Workers)
    BY SettlementAssumption
  <1>2. IsFiniteSet(S) /\ Cardinality(S) <= Cardinality(Workers)
    BY <1>1, FS_Subset
  <1>3. IsFiniteSet(T) /\ Cardinality(T) <= Cardinality(S)
    BY <1>2, FS_Subset
  <1> QED
    BY <1>1, <1>2, <1>3, FS_CardinalityType

(* A step that commits nothing lets no request start to apply a payment    *)
(* that has been answered.                                                 *)
LEMMA QuietEvents ==
    ASSUME SettlementInv, EventsBounded, UNCHANGED ledger,
           \A o \in Orders : txn[o].status \in {"settled", "failed"} =>
              Applying(o)' \subseteq Applying(o)
    PROVE  EventsBounded'
  <1> SUFFICES ASSUME NEW o \in Orders, txn[o].status \in {"settled", "failed"}
               PROVE  Len(timeline[o]) + Cardinality(Applying(o)')
                         <= 1 + Cardinality(Workers)
    BY DEF EventsBounded, ledger
  <1>1. Len(timeline[o]) + Cardinality(Applying(o)) <= 1 + Cardinality(Workers)
    BY DEF EventsBounded
  <1>2. Applying(o) \in SUBSET Workers /\ Applying(o)' \in SUBSET Applying(o)
    BY DEF Applying
  <1>3. /\ Cardinality(Applying(o)') <= Cardinality(Applying(o))
        /\ Cardinality(Applying(o)') \in Nat /\ Cardinality(Applying(o)) \in Nat
        /\ Cardinality(Workers) \in Nat
    BY <1>2, ApplyingFinite
  <1>4. Len(timeline[o]) \in Nat
    BY DEF SettlementInv, TypeOK, LedgerTypeOK
  <1> QED
    BY <1>1, <1>3, <1>4

(* A COMMIT adds one event and takes its request away.                     *)
LEMMA CommitEvents ==
    ASSUME SettlementInv, EventsBounded, NEW w \in Workers, Commit(w)
    PROVE  EventsBounded'
  <1> DEFINE n == job[w].notice
  <1>1. pc[w] = "commit" /\ pc[w] \in Writing /\ pc[w] # "idle"
    BY DEF Commit, RowLocked, Writing
  <1>o. PICK o \in Orders : o = Order(w)
    BY <1>1, JobFacts
  <1>2. n \in Notices /\ job[w].at \in Times /\ txn[o] \in TxnRow
    BY <1>1, <1>o, JobFacts
  <1>3. /\ txn' = [txn EXCEPT ![o] = MarkedTxn(txn[o], n, job[w].at)]
        /\ \E e \in StatusEvent :
              timeline' = [timeline EXCEPT ![o] = Append(timeline[o], e)]
        /\ txn[o].status # "none"
    BY <1>2, <1>o, CommitApplies, ApplyNoticeRows DEF SettlementInv, Order
  <1>4. MarkedTxn(txn[o], n, job[w].at).status \in {"settled", "failed"}
    BY <1>2, MarkedTxnType
  <1>5. /\ txn \in [Orders -> TxnRow]
        /\ timeline \in [Orders -> Seq(StatusEvent)]
        /\ pc \in [Workers -> PCs]
        /\ job \in [Workers -> Jobs \cup {NoJob}]
    BY DEF SettlementInv, TypeOK, LedgerTypeOK, PCs
  <1>6. pc' = [pc EXCEPT ![w] = "idle"] /\ job' = [job EXCEPT ![w] = NoJob]
    BY DEF Commit, End
  <1>7. \A p \in Orders : Applying(p)' = Applying(p) \ {w}
    BY <1>5, <1>6 DEF Applying, Order, RowLocked, Writing
  <1> HIDE DEF n
  <1>8. ASSUME NEW p \in Orders, p # o
        PROVE  /\ txn'[p].status = "pending" => Len(timeline'[p]) = 1
               /\ txn'[p].status \in {"settled", "failed"} =>
                     Len(timeline'[p]) + Cardinality(Applying(p)')
                        <= 1 + Cardinality(Workers)
    <2>1. txn'[p] = txn[p] /\ timeline'[p] = timeline[p]
      BY <1>2, <1>3, <1>5, <1>8
    <2>2. /\ Cardinality(Applying(p)') <= Cardinality(Applying(p))
          /\ Cardinality(Applying(p)') \in Nat /\ Cardinality(Applying(p)) \in Nat
          /\ Cardinality(Workers) \in Nat
      <3>1. Applying(p) \in SUBSET Workers /\ Applying(p)' \in SUBSET Applying(p)
        BY <1>7 DEF Applying
      <3> QED
        BY <3>1, ApplyingFinite
    <2>3. Len(timeline[p]) \in Nat
      BY <1>5
    <2> QED
      BY <2>1, <2>2, <2>3 DEF EventsBounded
  <1>9. Len(timeline'[o]) + Cardinality(Applying(o)') <= 1 + Cardinality(Workers)
    <2>1. Len(timeline'[o]) = Len(timeline[o]) + 1 /\ Len(timeline[o]) \in Nat
      BY <1>2, <1>3, <1>5
    <2>2. w \in Applying(o) /\ Applying(o) \in SUBSET Workers
      BY <1>1, <1>o DEF Applying, RowLocked
    <2>3. /\ Cardinality(Applying(o)') = Cardinality(Applying(o)) - 1
          /\ Cardinality(Applying(o)) \in Nat
          /\ Cardinality(Applying(o)) <= Cardinality(Workers)
          /\ Cardinality(Workers) \in Nat
      <3>1. IsFiniteSet(Applying(o))
        BY <2>2, ApplyingFinite
      <3>2. Cardinality(Applying(o) \ {w}) = Cardinality(Applying(o)) - 1
        BY <3>1, <2>2, FS_RemoveElement
      <3> QED
        BY <3>2, <2>2, <1>7, ApplyingFinite
    <2>4. CASE txn[o].status = "pending"
      <3>1. Len(timeline[o]) = 1
        BY <2>4, <1>o DEF EventsBounded
      <3> QED
        BY <3>1, <2>1, <2>3
    <2>5. CASE txn[o].status \in {"settled", "failed"}
      BY <2>1, <2>3, <2>5, <1>2 DEF EventsBounded
    <2> QED
      BY <2>4, <2>5, <1>2, <1>3 DEF TxnRow, TxnStatuses
  <1>10. txn'[o].status # "pending"
    BY <1>2, <1>3, <1>4, <1>5
  <1> QED
    BY <1>8, <1>9, <1>10 DEF EventsBounded

(* A placed order has its first event and nobody applying its payment      *)
(* matters yet.                                                            *)
LEMMA PlaceEvents ==
    ASSUME SettlementInv, EventsBounded, NEW o \in Orders, NEW t \in Terms,
           Place(o, t)
    PROVE  EventsBounded'
  <1> DEFINE e == [from |-> "none", to |-> "created"]
  <1>1. /\ txn \in [Orders -> TxnRow]
        /\ timeline \in [Orders -> Seq(StatusEvent)]
    BY DEF SettlementInv, TypeOK, LedgerTypeOK
  <1>2. /\ timeline' = [timeline EXCEPT ![o] = Append(timeline[o], e)]
        /\ \A p \in Orders \ {o} : txn'[p] = txn[p]
        /\ txn'[o].status = "pending"
        /\ ord[o].status = "none"
        /\ pc' = pc /\ job' = job
    BY <1>1 DEF Place, PlaceOrder, NoTxn
  <1>3. timeline[o] = <<>>
    BY <1>2 DEF SettlementInv, LedgerInv, TimelineIsChain
  <1>4. timeline'[o] = Append(<<>>, e)
    BY <1>1, <1>2, <1>3
  <1>5. Len(timeline'[o]) = 1
    BY <1>4
  <1>6. \A p \in Orders \ {o} : timeline'[p] = timeline[p]
    BY <1>1, <1>2
  <1>7. \A p \in Orders : Applying(p)' = Applying(p)
    BY <1>2 DEF Applying, Order
  <1> QED
    BY <1>2, <1>5, <1>6, <1>7 DEF EventsBounded

(* Every step keeps the bound on an order's events.                        *)
LEMMA NextEvents ==
    SettlementInv /\ EventsBounded /\ [Next]_vars => EventsBounded'
  <1> SUFFICES ASSUME SettlementInv, EventsBounded, [Next]_vars
               PROVE  EventsBounded'
    OBVIOUS
  <1> DEFINE Joins(w) == pc'[w] \in {"mark"} \cup RowLocked
             Stays(w) == pc[w] \in {"mark"} \cup RowLocked /\ job'[w] = job[w]
  <1>1. pc \in [Workers -> PCs] /\ job \in [Workers -> Jobs \cup {NoJob}]
    BY DEF SettlementInv, TypeOK, PCs
  <1>2. ASSUME NEW w \in Workers, UNCHANGED ledger,
               \A v \in Workers \ {w} : pc'[v] = pc[v] /\ job'[v] = job[v],
               Joins(w) => Stays(w) \/ txn[Order(w)'].status = "pending"
        PROVE  EventsBounded'
    <2>1. \A o \in Orders : txn[o].status \in {"settled", "failed"} =>
             Applying(o)' \subseteq Applying(o)
      BY <1>2 DEF Applying, Order
    <2> QED
      BY <2>1, <1>2, QuietEvents
  <1>3. ASSUME NEW w \in Workers, Step(w), ~Commit(w) PROVE EventsBounded'
    <2>1. /\ UNCHANGED ledger
          /\ \A v \in Workers \ {w} : pc'[v] = pc[v] /\ job'[v] = job[v]
      BY <1>1, <1>3
      DEF Step, FindByAggregatorRef, FindPendingForOrder, Mark, EnterRef,
          TransitionStatus, NotifyCustomer, StartDeliveryClock, End, Proceed
    <2>2. CASE FindByAggregatorRef(w)
      BY <2>1, <2>2, <1>1, <1>2 DEF FindByAggregatorRef, End, Proceed, RowLocked, Writing
    <2>3. CASE FindPendingForOrder(w)
      BY <2>1, <2>3, <1>1, <1>2
      DEF FindPendingForOrder, End, Proceed, Order, RowLocked, Writing
    <2>4. CASE Mark(w) \/ EnterRef(w)
      BY <2>1, <2>4, <1>1, <1>2 DEF Mark, EnterRef, End, Proceed, RowLocked, Writing
    <2>5. CASE TransitionStatus(w) \/ NotifyCustomer(w) \/ StartDeliveryClock(w)
      BY <2>1, <2>5, <1>1, <1>2
      DEF TransitionStatus, NotifyCustomer, StartDeliveryClock, Proceed, RowLocked, Writing
    <2> QED
      BY <2>2, <2>3, <2>4, <2>5, <1>3 DEF Step
  <1>4. ASSUME NEW w \in Workers, NEW n \in Notices, NEW at \in Times,
               Receive(w, n, at)
        PROVE  EventsBounded'
    BY <1>1, <1>2, <1>4 DEF Receive, RowLocked, Writing
  <1>5. ASSUME NEW w \in Workers, Fault(w) PROVE EventsBounded'
    BY <1>1, <1>2, <1>5 DEF Fault, End, RowLocked, Writing
  <1>6. CASE UNCHANGED vars
    <2>1. UNCHANGED ledger /\ \A o \in Orders : Applying(o)' = Applying(o)
      BY <1>6 DEF vars, ledger, Applying, Order
    <2> QED
      BY <2>1, QuietEvents
  <1>7. CASE Next
    BY <1>3, <1>4, <1>5, <1>7, CommitEvents, PlaceEvents DEF Next
  <1> QED
    BY <1>6, <1>7

(* A payment can be applied again only by requests already in flight, so   *)
(* an order has at most one settlement event per concurrent request.       *)
THEOREM ReapplicationBounded == Spec => []ReappliedOnlyInFlight
  <1>1. Init => EventsBounded
    BY DEF Init, LedgerInit, NoTxn, EventsBounded
  <1>2. SettlementInv /\ EventsBounded => ReappliedOnlyInFlight
    <2> SUFFICES ASSUME SettlementInv, EventsBounded, NEW o \in Orders
                 PROVE  Len(timeline[o]) <= 1 + Cardinality(Workers)
      BY DEF ReappliedOnlyInFlight
    <2>1. /\ Cardinality(Applying(o)) \in Nat /\ Cardinality(Workers) \in Nat
      <3>1. Applying(o) \in SUBSET Workers
        BY DEF Applying
      <3> QED
        BY <3>1, ApplyingFinite
    <2>2. Len(timeline[o]) \in Nat /\ txn[o] \in TxnRow
      BY DEF SettlementInv, TypeOK, LedgerTypeOK
    <2>3. txn[o].status = "none" => Len(timeline[o]) = 0
      BY DEF SettlementInv, LedgerInv, OrderPaymentInSync, TimelineIsChain
    <2>4. txn[o].status \in {"none", "pending", "settled", "failed"}
      BY <2>2 DEF TxnRow, TxnStatuses
    <2>5. /\ txn[o].status = "pending" => Len(timeline[o]) = 1
          /\ txn[o].status \in {"settled", "failed"} =>
                Len(timeline[o]) + Cardinality(Applying(o)) <= 1 + Cardinality(Workers)
      BY DEF EventsBounded
    <2> DEFINE len == Len(timeline[o])
    <2>6. len \in Nat /\ (len = 0 \/ len = 1 \/
                         len + Cardinality(Applying(o)) <= 1 + Cardinality(Workers))
      BY <2>2, <2>3, <2>4, <2>5
    <2> HIDE DEF len
    <2>7. len <= 1 + Cardinality(Workers)
      BY <2>1, <2>6
    <2> QED
      BY <2>7 DEF len
  <1> QED
    BY <1>1, <1>2, NextEvents, SettlementSafety, PTL DEF Spec

------------------------------------------------------------------------------
(* What the code would promise if the settlements of one order did not     *)
(* overlap, as a lock on the order taken before the reads would ensure.    *)
SerialPerOrder ==
    \A v, w \in Workers :
        v # w /\ pc[v] # "idle" /\ pc[w] # "idle" => Order(v) # Order(w)

(* The row a request found pending is still pending when it writes it.     *)
StillPending ==
    \A w \in Workers :
        pc[w] \in {"mark"} \cup RowLocked => txn[Order(w)].status = "pending"

(* A step that commits nothing lets a request reach its UPDATE only by     *)
(* finding the row pending.                                                *)
LEMMA QuietPending ==
    ASSUME SettlementInv, StillPending, txn' = txn, NEW w \in Workers,
           \A v \in Workers \ {w} : pc'[v] = pc[v] /\ job'[v] = job[v],
           pc'[w] \in {"mark"} \cup RowLocked => txn[Order(w)'].status = "pending"
    PROVE  StillPending'
  <1> SUFFICES ASSUME NEW v \in Workers, pc'[v] \in {"mark"} \cup RowLocked
               PROVE  txn[Order(v)'].status = "pending"
    BY DEF StillPending
  <1>1. CASE v = w
    BY <1>1
  <1>2. CASE v # w
    BY <1>2 DEF StillPending, Order
  <1> QED
    BY <1>1, <1>2

LEMMA NextPending ==
    ASSUME SettlementInv, StillPending, SerialPerOrder, [Next]_vars
    PROVE  StillPending'
  <1>1. pc \in [Workers -> PCs] /\ DOMAIN job = Workers
    BY DEF SettlementInv, TypeOK, PCs
  <1>2. ASSUME NEW w \in Workers, NEW next \in PCs, NEW d, Proceed(w, next, d),
               UNCHANGED ledger,
               next \in {"mark"} \cup RowLocked =>
                  \/ pc[w] \in {"mark"} \cup RowLocked
                  \/ txn[Order(w)].status = "pending"
        PROVE  StillPending'
    <2>1. /\ \A v \in Workers \ {w} : pc'[v] = pc[v] /\ job'[v] = job[v]
          /\ pc'[w] = next /\ job' = job /\ txn' = txn
      BY <1>1, <1>2 DEF Proceed, ledger
    <2> QED
      BY <1>2, <2>1, QuietPending DEF StillPending, Order
  <1>3. ASSUME NEW w \in Workers, End(w), txn' = txn PROVE StillPending'
    <2>1. /\ \A v \in Workers \ {w} : pc'[v] = pc[v] /\ job'[v] = job[v]
          /\ pc'[w] = "idle"
      BY <1>1, <1>3 DEF End
    <2> QED
      BY <1>3, <2>1, QuietPending DEF RowLocked, Writing
  <1>4. ASSUME NEW w \in Workers, Commit(w) PROVE StillPending'
    <2>1. /\ pc[w] = "commit" /\ txn' = [txn EXCEPT ![Order(w)] = draft[w].txn]
          /\ \A v \in Workers \ {w} : pc'[v] = pc[v] /\ job'[v] = job[v]
          /\ pc'[w] = "idle"
      BY <1>1, <1>4 DEF Commit, End
    <2>2. ASSUME NEW v \in Workers, pc'[v] \in {"mark"} \cup RowLocked
          PROVE  txn'[Order(v)'].status = "pending"
      <3>1. v # w /\ pc[v] \in {"mark"} \cup RowLocked
        BY <2>1, <2>2 DEF RowLocked, Writing
      <3>2. pc[v] # "idle" /\ pc[w] # "idle"
        BY <2>1, <3>1 DEF RowLocked, Writing
      <3>3. Order(v) # Order(w) /\ Order(v)' = Order(v) /\ Order(v) \in Orders
        BY <2>1, <3>1, <3>2, JobFacts DEF SerialPerOrder, Order
      <3>4. txn'[Order(v)] = txn[Order(v)]
        BY <2>1, <3>3 DEF SettlementInv, TypeOK, LedgerTypeOK
      <3> QED
        BY <3>1, <3>3, <3>4 DEF StillPending
    <2> QED
      BY <2>2 DEF StillPending
  <1>5. ASSUME NEW w \in Workers, Step(w), ~Commit(w) PROVE StillPending'
    <2>1. CASE FindByAggregatorRef(w)
      BY <1>2, <1>3, <2>1 DEF FindByAggregatorRef, ledger, PCs, Reading, RowLocked, Writing
    <2>2. CASE FindPendingForOrder(w)
      BY <1>2, <1>3, <2>2 DEF FindPendingForOrder, ledger, PCs, Reading
    <2>3. CASE Mark(w) \/ EnterRef(w)
      BY <1>2, <1>3, <2>3 DEF Mark, EnterRef, ledger, PCs, RowLocked, Writing
    <2>4. CASE TransitionStatus(w) \/ NotifyCustomer(w) \/ StartDeliveryClock(w)
      <3>1. pc[w] \in RowLocked /\ UNCHANGED ledger
        BY <2>4 DEF TransitionStatus, NotifyCustomer, StartDeliveryClock, RowLocked, Writing
      <3>2. PICK next \in PCs : \E d : Proceed(w, next, d)
        BY <2>4 DEF TransitionStatus, NotifyCustomer, StartDeliveryClock, PCs, RowLocked, Writing
      <3> QED
        BY <1>2, <3>1, <3>2
    <2> QED
      BY <1>5, <2>1, <2>2, <2>3, <2>4 DEF Step
  <1>6. ASSUME NEW w \in Workers, NEW n \in Notices, NEW at \in Times, Receive(w, n, at)
        PROVE  StillPending'
    <2>1. /\ \A v \in Workers \ {w} : pc'[v] = pc[v] /\ job'[v] = job[v]
          /\ pc'[w] = "find_ref" /\ txn' = txn
      BY <1>1, <1>6 DEF Receive, ledger
    <2> QED
      BY <2>1, QuietPending DEF RowLocked, Writing
  <1>7. ASSUME NEW w \in Workers, Fault(w) PROVE StillPending'
    BY <1>3, <1>7 DEF Fault, ledger
  <1>8. ASSUME NEW o \in Orders, NEW t \in Terms, Place(o, t) PROVE StillPending'
    <2>1. /\ ord[o].status = "none" /\ UNCHANGED <<pc, job>>
          /\ \A p \in Orders \ {o} : txn'[p] = txn[p]
      BY <1>8 DEF Place, PlaceOrder, SettlementInv, TypeOK, LedgerTypeOK
    <2>2. ASSUME NEW v \in Workers, pc'[v] \in {"mark"} \cup RowLocked
          PROVE  txn'[Order(v)'].status = "pending"
      <3>1. txn[Order(v)].status = "pending" /\ Order(v)' = Order(v)
        BY <2>1, <2>2 DEF StillPending, Order
      <3>2. Order(v) \in Orders
        BY <2>1, <2>2, JobFacts DEF RowLocked, Writing
      <3>3. ord[Order(v)].status = "created"
        BY <3>1, <3>2 DEF SettlementInv, LedgerInv, OrderPaymentInSync
      <3> QED
        BY <2>1, <3>1, <3>2, <3>3
    <2> QED
      BY <2>2 DEF StillPending
  <1>9. CASE UNCHANGED vars
    BY <1>9 DEF vars, StillPending, Order
  <1> QED
    BY <1>4, <1>5, <1>6, <1>7, <1>8, <1>9 DEF Next

(* A payment that has been answered is final, unless settlements of its    *)
(* order overlap: neither a replay nor a contradicting webhook changes the *)
(* payment row or the evidence again.  The idempotency of payment.service  *)
(* is sound for every serial order of webhooks.                            *)
THEOREM PaymentsFinalUnlessOverlapped ==
    Spec /\ []SerialPerOrder =>
       [][\A o \in Orders :
             txn[o].status \in {"settled", "failed"} =>
                 txn'[o] = txn[o] /\ timeline'[o] = timeline[o]]_ledger
  <1>1. Init => StillPending
    BY DEF Init, StillPending, RowLocked, Writing
  <1>2. SettlementInv /\ StillPending /\ SerialPerOrder /\ [Next]_vars => StillPending'
    BY NextPending
  <1>3. ASSUME SettlementInv, StillPending, [Next]_vars, NEW o \in Orders,
               txn[o].status \in {"settled", "failed"}
        PROVE  txn'[o] = txn[o] /\ timeline'[o] = timeline[o]
    <2>1. ASSUME NEW w \in Workers, Commit(w)
          PROVE  txn'[o] = txn[o] /\ timeline'[o] = timeline[o]
      <3>1. Order(w) # o
        BY <1>3, <2>1 DEF Commit, StillPending, RowLocked, Writing
      <3> QED
        BY <1>3, <2>1, <3>1 DEF Commit, SettlementInv, TypeOK, LedgerTypeOK
    <2>2. ASSUME NEW p \in Orders, NEW t \in Terms, Place(p, t)
          PROVE  txn'[o] = txn[o] /\ timeline'[o] = timeline[o]
      <3>1. ord[p].status = "none" /\ ord[o].status # "none"
        BY <1>3, <2>2 DEF Place, PlaceOrder, SettlementInv, LedgerInv, OrderPaymentInSync
      <3> QED
        BY <1>3, <2>2, <3>1 DEF Place, PlaceOrder, SettlementInv, TypeOK, LedgerTypeOK
    <2>3. CASE UNCHANGED ledger
      BY <2>3 DEF ledger
    <2> QED
      BY <1>3, <2>1, <2>2, <2>3
      DEF Next, Step, Receive, Fault, FindByAggregatorRef, FindPendingForOrder, Mark, EnterRef,
          TransitionStatus, NotifyCustomer, StartDeliveryClock, vars, ledger
  <1>4. SettlementInv /\ StillPending /\ [Next]_vars =>
           [\A o \in Orders : txn[o].status \in {"settled", "failed"} =>
               txn'[o] = txn[o] /\ timeline'[o] = timeline[o]]_ledger
    BY <1>3
  <1> QED
    BY <1>1, <1>2, <1>4, SettlementSafety, PTL DEF Spec

(* A replayed webhook is a no-op, not a second settlement, as the header   *)
(* of payment.service.ts says, unless settlements of one order overlap.    *)
THEOREM ReplaysInertUnlessOverlapped == Spec /\ []SerialPerOrder => ReplayIsNoOp
  <1> DEFINE Final == \A o \in Orders :
                        txn[o].status \in {"settled", "failed"} =>
                            txn'[o] = txn[o] /\ timeline'[o] = timeline[o]
             Inert == \A o \in Orders :
                        txn[o].ref # NoRef /\ txn'[o].ref = txn[o].ref
                            => timeline'[o] = timeline[o]
  <1>1. SettlementInv /\ [Final]_ledger => [Inert]_ledger
    <2> SUFFICES ASSUME SettlementInv, Final PROVE Inert
      OBVIOUS
    <2>1. \A o \in Orders : txn[o].ref # NoRef => txn[o].status \in {"settled", "failed"}
      <3>1. \A o \in Orders : txn[o].status \in {"none", "pending", "settled", "failed"}
        BY DEF SettlementInv, TypeOK, LedgerTypeOK, TxnRow, TxnStatuses
      <3> QED
        BY <3>1 DEF SettlementInv, LedgerInv, RefRecordedOnce
    <2> QED
      BY <2>1
  <1> QED
    BY <1>1, PaymentsFinalUnlessOverlapped, SettlementSafety, PTL DEF ReplayIsNoOp
==============================================================================
