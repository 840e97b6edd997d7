-------------------------- MODULE DispatcherProofs ---------------------------
(***************************************************************************)
(* Proofs about the notification dispatcher, for any number of instances,  *)
(* notifications, attempts and faults, and any batch size.                 *)
(*                                                                         *)
(* The invariant has four parts: the shape of a batch, the bound on the    *)
(* attempts, what a mark knows about the delivery, and what is true of a   *)
(* row that only one instance has held.                                    *)
(***************************************************************************)
EXTENDS Dispatcher, FiniteSetTheorems, TLAPS

(* The instances that have row i in their batch.                           *)
Holders(i) == {d \in Dispatchers : i \in batch[d]}

(* Dispatcher d has row i in hand and is about to execute step.            *)
At(d, i, step) == pc[d] = step /\ i \in batch[d] /\ i = Current(d)

(* A batch is empty exactly between passes, and holds queued rows only.    *)
BatchOK ==
    /\ \A d \in Dispatchers : pc[d] = "idle" <=> batch[d] = {}
    /\ \A d \in Dispatchers : \A i \in batch[d] : status[i] # "none"
    /\ \A i \in Rows : status[i] = "none" => attempts[i] = 0

(* Beyond the last regular attempt, each further one uses up an instance   *)
(* that held the row already: nobody claims it any more.                   *)
AttemptsOK ==
    \A i \in Rows :
        /\ status[i] = "pending" => attempts[i] < MaxAttempts
        /\ attempts[i] >= MaxAttempts =>
              attempts[i] + Cardinality(Holders(i))
                 < MaxAttempts + Cardinality(Dispatchers)

(* markSent follows a delivery.                                            *)
DeliveryOK ==
    /\ SentWasDelivered
    /\ \A d \in Dispatchers, i \in Rows : At(d, i, "mark_sent") => delivered[i] > 0

(* A row that no two instances held at once: whoever holds it is alone,    *)
(* its attempts are the ones read at the claim, every delivery whose       *)
(* outcome is not recorded or about to be was lost to a fault, and the     *)
(* last failure is logged before it is recorded.                           *)
SoleOK ==
    \A i \in Rows \ shared :
        /\ \A c, d \in Dispatchers : i \in batch[c] /\ i \in batch[d] => c = d
        /\ \A d \in Dispatchers :
              i \in batch[d] => status[i] = "pending" /\ seen[d][i] = attempts[i]
        /\ delivered[i] <= 1 + faults
        /\ \/ delivered[i] <= faults
           \/ status[i] = "sent"
           \/ \E d \in Dispatchers : At(d, i, "mark_sent")
        /\ i \in SmsRows =>
              /\ status[i] = "abandoned" => i \in logged
              /\ \A d \in Dispatchers :
                    At(d, i, "mark_failed") /\ attempts[i] + 1 >= MaxAttempts
                       => i \in logged

(* The inductive invariant.                                                *)
DispatcherInv == TypeOK /\ BatchOK /\ AttemptsOK /\ DeliveryOK /\ SoleOK

------------------------------------------------------------------------------
(* A batch has an oldest row.                                              *)

(* A nonempty set of natural numbers has a least element.                  *)
LEMMA LeastElement ==
    ASSUME NEW T, T \subseteq Nat, T # {}
    PROVE  \E x \in T : \A y \in T : x <= y
  <1> DEFINE R == OpToRel(<, Nat)
  <1>1. IsWellFoundedOn(R, Nat)
    BY NatLessThanWellFounded
  <1>2. \A x, y \in Nat : <<y, x>> \in R <=> y < x
    BY DEF OpToRel
  <1> HIDE DEF R
  <1>3. PICK x \in T : \A y \in T : ~ (<<y, x>> \in R)
    BY <1>1, WFMin
  <1>4. ASSUME NEW y \in T PROVE x <= y
    <2>1. x \in Nat /\ y \in Nat
      OBVIOUS
    <2>2. ~ (<<y, x>> \in R)
      BY <1>3
    <2>3. <<y, x>> \in R <=> y < x
      BY <2>1, <1>2
    <2> QED
      BY <2>1, <2>2, <2>3
  <1> QED
    BY <1>4

(* The row a busy dispatcher has in hand is one of its batch.              *)
LEMMA CurrentInBatch ==
    ASSUME TypeOK, BatchOK, NEW d \in Dispatchers, pc[d] # "idle"
    PROVE  Current(d) \in batch[d] /\ Current(d) \in Rows
  <1>1. batch[d] # {} /\ batch[d] \subseteq Rows
    BY DEF TypeOK, BatchOK
  <1>2. batch[d] \subseteq Nat
    BY <1>1 DEF Rows
  <1>3. \E x \in batch[d] : \A y \in batch[d] : x <= y
    BY <1>1, <1>2, LeastElement
  <1> QED
    BY <1>1, <1>3 DEF Current, Min

(* A dispatcher with the same batch at the same step has the same row in   *)
(* hand.                                                                   *)
LEMMA AtKept ==
    ASSUME NEW c, pc'[c] = pc[c], batch'[c] = batch[c]
    PROVE  \A i, step : At(c, i, step)' <=> At(c, i, step)
  BY DEF At, Current

(* The instances holding a row are finitely many.                          *)
LEMMA HoldersFinite ==
    ASSUME NEW H \in SUBSET Dispatchers
    PROVE  /\ IsFiniteSet(H) /\ Cardinality(H) \in Nat
           /\ Cardinality(Dispatchers) \in Nat
           /\ Cardinality(H) <= Cardinality(Dispatchers)
  BY DispatcherAssumption, FS_Subset, FS_CardinalityType

(* The initial state.                                                      *)
LEMMA InitInv == Init => DispatcherInv
  <1> SUFFICES ASSUME Init PROVE DispatcherInv
    OBVIOUS
  <1>1. TypeOK
    BY DispatcherAssumption DEF Init, TypeOK
  <1>2. BatchOK
    BY DEF Init, BatchOK
  <1>3. AttemptsOK
    BY DispatcherAssumption DEF Init, AttemptsOK
  <1>4. DeliveryOK
    BY DEF Init, DeliveryOK, SentWasDelivered, At
  <1>5. SoleOK
    BY DEF Init, SoleOK, At
  <1> QED
    BY <1>1, <1>2, <1>3, <1>4, <1>5 DEF DispatcherInv

------------------------------------------------------------------------------
(* Steps that leave the outbox rows and the batches alone: only where d is *)
(* in its pass changes, and what has been delivered or logged.             *)

(* d's place in its pass decides nothing about batches and attempts.       *)
LEMMA PassStepBatch ==
    ASSUME DispatcherInv, NEW d \in Dispatchers, pc[d] # "idle",
           UNCHANGED <<status, attempts, batch>>,
           NEW q \in {"send", "mark_sent", "mark_failed"},
           pc' = [pc EXCEPT ![d] = q]
    PROVE  BatchOK' /\ AttemptsOK'
  <1>1. pc \in [Dispatchers -> {"idle", "claiming", "send", "mark_sent", "mark_failed"}]
    BY DEF DispatcherInv, TypeOK
  <1>2. \A i \in Rows : Holders(i)' = Holders(i)
    BY DEF Holders
  <1>3. BatchOK'
    BY <1>1 DEF DispatcherInv, BatchOK
  <1>4. AttemptsOK'
    BY <1>2 DEF DispatcherInv, AttemptsOK
  <1> QED
    BY <1>3, <1>4

(* What the other dispatchers have in hand is not touched by such a step.  *)
LEMMA PassStepAt ==
    ASSUME DispatcherInv, NEW d \in Dispatchers, UNCHANGED batch,
           NEW q, pc' = [pc EXCEPT ![d] = q]
    PROVE  /\ \A c \in Dispatchers \ {d} : \A i, step :
                 At(c, i, step)' <=> At(c, i, step)
           /\ \A i, step : At(d, i, step)' <=>
                 step = q /\ i \in batch[d] /\ i = Current(d)
  <1>1. pc \in [Dispatchers -> {"idle", "claiming", "send", "mark_sent", "mark_failed"}]
    BY DEF DispatcherInv, TypeOK
  <1>2. \A c \in Dispatchers \ {d} : pc'[c] = pc[c]
    BY <1>1
  <1>3. pc'[d] = q /\ Current(d)' = Current(d)
    BY <1>1 DEF Current
  <1> QED
    BY <1>2, <1>3, AtKept DEF At

(* The claim commits.                                                      *)
LEMMA CommitClaimInv ==
    ASSUME DispatcherInv, NEW d \in Dispatchers, CommitClaim(d)
    PROVE  DispatcherInv'
  <1>1. TypeOK'
    BY DEF DispatcherInv, TypeOK, CommitClaim
  <1>2. BatchOK' /\ AttemptsOK'
    BY PassStepBatch DEF CommitClaim
  <1>3. /\ \A c \in Dispatchers \ {d} : \A i, step :
              At(c, i, step)' <=> At(c, i, step)
        /\ \A i, step : At(d, i, step)' <=>
              step = "send" /\ i \in batch[d] /\ i = Current(d)
    BY PassStepAt DEF CommitClaim
  <1>4. \A i : ~At(d, i, "mark_sent") /\ ~At(d, i, "mark_failed")
    BY DEF CommitClaim, At
  <1>5. DeliveryOK'
    BY <1>3, <1>4 DEF DispatcherInv, DeliveryOK, SentWasDelivered, CommitClaim
  <1>6. SoleOK'
    BY <1>3, <1>4 DEF DispatcherInv, SoleOK, CommitClaim
  <1> QED
    BY <1>1, <1>2, <1>5, <1>6 DEF DispatcherInv

(* The gateway accepts the message: the delivery is about to be recorded.  *)
LEMMA SendInv ==
    ASSUME DispatcherInv, NEW d \in Dispatchers, Send(d)
    PROVE  DispatcherInv'
  <1>0. PICK r \in batch[d] : r = Current(d) /\ r \in Rows
    BY CurrentInBatch DEF Send, DispatcherInv
  <1>1. /\ pc[d] = "send" /\ pc' = [pc EXCEPT ![d] = "mark_sent"]
        /\ delivered' = [delivered EXCEPT ![r] = delivered[r] + 1]
        /\ UNCHANGED <<status, attempts, batch, seen, logged, shared, faults>>
    BY <1>0 DEF Send
  <1>t. delivered \in [Rows -> Nat] /\ faults \in Nat
    BY DEF DispatcherInv, TypeOK
  <1>2. TypeOK'
    BY <1>0, <1>1 DEF DispatcherInv, TypeOK
  <1>3. BatchOK' /\ AttemptsOK'
    BY <1>1, PassStepBatch
  <1>4. /\ \A c \in Dispatchers \ {d} : \A i, step :
              At(c, i, step)' <=> At(c, i, step)
        /\ \A i, step : At(d, i, step)' <=> step = "mark_sent" /\ i = r
    BY <1>0, <1>1, PassStepAt
  <1>5. \A i : ~At(d, i, "mark_sent") /\ ~At(d, i, "mark_failed")
    BY <1>1 DEF At
  <1>6. DeliveryOK'
    BY <1>0, <1>1, <1>t, <1>4, <1>5 DEF DispatcherInv, DeliveryOK, SentWasDelivered
  <1>7. ASSUME r \notin shared PROVE delivered[r] <= faults
    <2>1. \A c \in Dispatchers : ~At(c, r, "mark_sent")
      BY <1>0, <1>5, <1>7 DEF DispatcherInv, SoleOK, At
    <2>2. status[r] = "pending"
      BY <1>0, <1>7 DEF DispatcherInv, SoleOK
    <2> QED
      BY <2>1, <2>2, <1>0, <1>7 DEF DispatcherInv, SoleOK
  <1>8. SoleOK'
    BY <1>0, <1>1, <1>t, <1>4, <1>5, <1>7 DEF DispatcherInv, SoleOK
  <1> QED
    BY <1>2, <1>3, <1>6, <1>8 DEF DispatcherInv

(* The catch branch, entered after n deliveries of this pass whose outcome *)
(* is lost with as many faults: the row is logged if this is its last      *)
(* attempt.                                                                *)
LEMMA EnterCatchInv ==
    ASSUME DispatcherInv, NEW d \in Dispatchers,
           pc[d] \in {"send", "mark_sent"}, EnterCatch(d),
           UNCHANGED <<status, attempts, batch, seen, shared>>,
           faults' \in faults .. MaxFaults,
           NEW r \in batch[d], r = Current(d),
           \/ delivered' = delivered
           \/ /\ delivered' = [delivered EXCEPT ![r] = delivered[r] + 1]
              /\ pc[d] = "send" /\ faults' = faults + 1,
           pc[d] = "mark_sent" => faults' = faults + 1
    PROVE  DispatcherInv'
  <1>t. /\ delivered \in [Rows -> Nat] /\ faults \in Nat /\ r \in Rows
        /\ attempts \in [Rows -> Nat] /\ faults' \in Nat /\ faults <= faults'
        /\ batch \in [Dispatchers -> SUBSET Rows]
    BY DispatcherAssumption DEF DispatcherInv, TypeOK
  <1>1. /\ pc' = [pc EXCEPT ![d] = "mark_failed"]
        /\ logged \subseteq logged' /\ logged' \subseteq logged \cup {r}
        /\ seen[d][r] + 1 >= MaxAttempts /\ r \in SmsRows => r \in logged'
    BY DEF EnterCatch
  <1>2. TypeOK'
    BY <1>1, <1>t DEF DispatcherInv, TypeOK
  <1>3. BatchOK' /\ AttemptsOK'
    BY <1>1, PassStepBatch
  <1>4. /\ \A c \in Dispatchers \ {d} : \A i, step :
              At(c, i, step)' <=> At(c, i, step)
        /\ \A i, step : At(d, i, step)' <=> step = "mark_failed" /\ i = r
    BY <1>1, PassStepAt
  <1>5. \A i \in Rows : delivered'[i] >= delivered[i] /\ (i # r => delivered'[i] = delivered[i])
    BY <1>t
  <1>6. DeliveryOK'
    <2>1. \A i \in Rows : delivered[i] > 0 => delivered'[i] > 0
      BY <1>t
    <2>2. \A c \in Dispatchers, i \in Rows :
             At(c, i, "mark_sent")' => At(c, i, "mark_sent")
      BY <1>4
    <2> QED
      BY <2>1, <2>2 DEF DispatcherInv, DeliveryOK, SentWasDelivered
  <1>7. ASSUME r \notin shared PROVE delivered'[r] <= faults'
    <2>1. \A c \in Dispatchers : At(c, r, "mark_sent") => c = d
      BY <1>7, <1>t DEF DispatcherInv, SoleOK, At
    <2>2. status[r] = "pending"
      BY <1>7, <1>t DEF DispatcherInv, SoleOK
    <2>3. CASE pc[d] = "send"
      <3>1. delivered[r] <= faults
        BY <2>1, <2>2, <2>3, <1>7, <1>t DEF DispatcherInv, SoleOK, At
      <3> QED
        BY <3>1, <2>3, <1>t
    <2>4. CASE pc[d] = "mark_sent"
      <3>1. delivered[r] <= 1 + faults /\ delivered' = delivered
        BY <2>4, <1>7, <1>t DEF DispatcherInv, SoleOK
      <3> QED
        BY <3>1, <2>4, <1>t
    <2> QED
      BY <2>3, <2>4
  <1>8. SoleOK'
    <2> SUFFICES ASSUME NEW i \in Rows \ shared
                 PROVE  /\ delivered'[i] <= 1 + faults'
                        /\ \/ delivered'[i] <= faults'
                           \/ status[i] = "sent"
                           \/ \E c \in Dispatchers : At(c, i, "mark_sent")'
                        /\ i \in SmsRows =>
                              /\ status[i] = "abandoned" => i \in logged'
                              /\ \A c \in Dispatchers :
                                    At(c, i, "mark_failed")' /\ attempts[i] + 1 >= MaxAttempts
                                       => i \in logged'
      BY DEF DispatcherInv, SoleOK
    <2>1. CASE i = r
      <3>1. seen[d][r] = attempts[r] /\ status[r] = "pending"
        BY <2>1 DEF DispatcherInv, SoleOK
      <3>2. \A c \in Dispatchers : At(c, r, "mark_failed")' => c = d
        BY <2>1, <1>t DEF DispatcherInv, SoleOK, At
      <3> QED
        BY <3>1, <3>2, <2>1, <1>1, <1>7, <1>t
    <2>2. CASE i # r
      <3>1. /\ delivered[i] <= 1 + faults
            /\ \/ delivered[i] <= faults
               \/ status[i] = "sent"
               \/ \E c \in Dispatchers : At(c, i, "mark_sent")
            /\ i \in SmsRows =>
                  /\ status[i] = "abandoned" => i \in logged
                  /\ \A c \in Dispatchers :
                        At(c, i, "mark_failed") /\ attempts[i] + 1 >= MaxAttempts
                           => i \in logged
        BY DEF DispatcherInv, SoleOK
      <3>2. ~At(d, i, "mark_sent") /\ ~At(d, i, "mark_failed")'
        BY <2>2, <1>4 DEF At
      <3> QED
        BY <3>1, <3>2, <2>2, <1>1, <1>4, <1>5, <1>t
    <2> QED
      BY <2>1, <2>2
  <1> QED
    BY <1>2, <1>3, <1>6, <1>8 DEF DispatcherInv

(* The three ways into the catch branch.                                   *)
LEMMA CatchInv ==
    ASSUME DispatcherInv, NEW d \in Dispatchers,
           SendFails(d) \/ SendTimesOut(d) \/ MarkSentThrows(d)
    PROVE  DispatcherInv'
  <1>0. PICK r \in batch[d] : r = Current(d)
    BY CurrentInBatch DEF SendFails, SendTimesOut, MarkSentThrows, DispatcherInv
  <1>1. faults \in 0 .. MaxFaults /\ MaxFaults \in Nat
    BY DispatcherAssumption DEF DispatcherInv, TypeOK
  <1>2. CASE SendFails(d)
    BY <1>0, <1>1, <1>2, EnterCatchInv DEF SendFails
  <1>3. CASE SendTimesOut(d)
    <2>1. /\ pc[d] = "send" /\ EnterCatch(d)
          /\ UNCHANGED <<status, attempts, batch, seen, shared>>
          /\ faults' = faults + 1 /\ faults' \in faults .. MaxFaults
          /\ delivered' = [delivered EXCEPT ![r] = delivered[r] + 1]
      BY <1>0, <1>1, <1>3 DEF SendTimesOut
    <2> QED
      BY <2>1, <1>0, EnterCatchInv
  <1>4. CASE MarkSentThrows(d)
    BY <1>0, <1>1, <1>4, EnterCatchInv DEF MarkSentThrows
  <1> QED
    BY <1>2, <1>3, <1>4

------------------------------------------------------------------------------
(* Steps that change batches or rows.                                      *)

(* A notification is queued: nobody holds it, and it has no attempts yet.  *)
LEMMA EnqueueInv ==
    ASSUME DispatcherInv, NEW i \in Rows, Enqueue(i)
    PROVE  DispatcherInv'
  <1>1. /\ status[i] = "none" /\ status' = [status EXCEPT ![i] = "pending"]
        /\ UNCHANGED <<attempts, pc, batch, seen, delivered, logged, shared, faults>>
    BY DEF Enqueue
  <1>2. attempts[i] = 0 /\ \A d \in Dispatchers : i \notin batch[d]
    BY <1>1 DEF DispatcherInv, BatchOK
  <1>t. status \in [Rows -> {"none", "pending", "sent", "abandoned"}]
    BY DEF DispatcherInv, TypeOK
  <1>3. TypeOK'
    BY <1>1 DEF DispatcherInv, TypeOK
  <1>4. BatchOK'
    BY <1>1, <1>t DEF DispatcherInv, BatchOK
  <1>5. AttemptsOK'
    BY <1>1, <1>2, <1>t, DispatcherAssumption DEF DispatcherInv, AttemptsOK, Holders
  <1>6. \A d, j, step : At(d, j, step)' <=> At(d, j, step)
    BY <1>1, AtKept
  <1>7. DeliveryOK'
    BY <1>1, <1>6, <1>t DEF DispatcherInv, DeliveryOK, SentWasDelivered
  <1>8. SoleOK'
    BY <1>1, <1>2, <1>6, <1>t DEF DispatcherInv, SoleOK
  <1> QED
    BY <1>3, <1>4, <1>5, <1>7, <1>8 DEF DispatcherInv

(* Claiming: pending rows only, and a row that another instance already    *)
(* holds counts as shared from now on.                                     *)
LEMMA ClaimPendingInv ==
    ASSUME DispatcherInv, NEW d \in Dispatchers, ClaimPending(d)
    PROVE  DispatcherInv'
  <1> DEFINE rows == Oldest({i \in Rows \ Locked : status[i] = "pending"})
  <1>0. PICK R : R = rows
    OBVIOUS
  <1>1. /\ pc[d] = "idle" /\ R # {}
        /\ pc' = [pc EXCEPT ![d] = "claiming"]
        /\ batch' = [batch EXCEPT ![d] = R]
        /\ shared' = shared \cup (R \cap HeldByOthers(d))
        /\ seen' = [seen EXCEPT ![d] = attempts]
        /\ UNCHANGED <<status, attempts, delivered, logged, faults>>
    BY <1>0 DEF ClaimPending
  <1>2. \A i \in R : i \in Rows /\ status[i] = "pending"
    BY <1>0 DEF Oldest
  <1>t. /\ pc \in [Dispatchers -> {"idle", "claiming", "send", "mark_sent", "mark_failed"}]
        /\ batch \in [Dispatchers -> SUBSET Rows]
        /\ seen \in [Dispatchers -> [Rows -> Nat]]
        /\ attempts \in [Rows -> Nat]
        /\ batch[d] = {}
    BY <1>1 DEF DispatcherInv, TypeOK, BatchOK
  <1>3. TypeOK'
    BY <1>1, <1>2 DEF DispatcherInv, TypeOK
  <1>4. /\ batch'[d] = R /\ pc'[d] = "claiming" /\ seen'[d] = attempts
        /\ \A c \in Dispatchers \ {d} :
              batch'[c] = batch[c] /\ pc'[c] = pc[c] /\ seen'[c] = seen[c]
    BY <1>1, <1>t
  <1>5. BatchOK'
    BY <1>1, <1>2, <1>4 DEF DispatcherInv, BatchOK
  <1>6. AttemptsOK'
    <2> SUFFICES ASSUME NEW i \in Rows, attempts[i] >= MaxAttempts
                 PROVE  attempts[i] + Cardinality(Holders(i)')
                           < MaxAttempts + Cardinality(Dispatchers)
      BY <1>1 DEF DispatcherInv, AttemptsOK
    <2>1. i \notin R
      BY <1>2, <1>t, DispatcherAssumption DEF DispatcherInv, AttemptsOK
    <2>2. Holders(i)' = Holders(i)
      BY <2>1, <1>4, <1>t DEF Holders
    <2> QED
      BY <2>2 DEF DispatcherInv, AttemptsOK
  <1>7. /\ \A c \in Dispatchers \ {d} : \A i, step : At(c, i, step)' <=> At(c, i, step)
        /\ \A i : ~At(d, i, "mark_sent") /\ ~At(d, i, "mark_failed")
        /\ \A i : ~At(d, i, "mark_sent")' /\ ~At(d, i, "mark_failed")'
    BY <1>1, <1>4, AtKept DEF At
  <1>8. DeliveryOK'
    BY <1>1, <1>7 DEF DispatcherInv, DeliveryOK, SentWasDelivered
  <1>9. SoleOK'
    <2> SUFFICES ASSUME NEW i \in Rows \ shared'
                 PROVE  /\ \A b, c \in Dispatchers :
                              i \in batch'[b] /\ i \in batch'[c] => b = c
                        /\ \A c \in Dispatchers :
                              i \in batch'[c] => /\ status[i] = "pending"
                                                 /\ seen'[c][i] = attempts[i]
                        /\ delivered[i] <= 1 + faults
                        /\ \/ delivered[i] <= faults
                           \/ status[i] = "sent"
                           \/ \E c \in Dispatchers : At(c, i, "mark_sent")'
                        /\ i \in SmsRows =>
                              /\ status[i] = "abandoned" => i \in logged
                              /\ \A c \in Dispatchers :
                                    At(c, i, "mark_failed")' /\ attempts[i] + 1 >= MaxAttempts
                                       => i \in logged
      BY <1>1 DEF SoleOK
    <2>1. i \in Rows \ shared
      BY <1>1
    <2>2. i \in R => \A c \in Dispatchers \ {d} : i \notin batch[c]
      BY <1>1 DEF HeldByOthers
    <2>3. \A b, c \in Dispatchers : i \in batch'[b] /\ i \in batch'[c] => b = c
      BY <2>1, <2>2, <1>4 DEF DispatcherInv, SoleOK
    <2>4. \A c \in Dispatchers : i \in batch'[c] => /\ status[i] = "pending"
                                                    /\ seen'[c][i] = attempts[i]
      BY <2>1, <1>2, <1>4 DEF DispatcherInv, SoleOK
    <2> QED
      BY <2>1, <2>3, <2>4, <1>7 DEF DispatcherInv, SoleOK
  <1> QED
    BY <1>3, <1>5, <1>6, <1>8, <1>9 DEF DispatcherInv

(* A row is marked: it leaves the batch with one more attempt, sent after  *)
(* a delivery, otherwise pending while attempts are left.                  *)
LEMMA MarkInv ==
    ASSUME DispatcherInv, NEW d \in Dispatchers, MarkSent(d) \/ MarkFailed(d)
    PROVE  DispatcherInv'
  <1>0. PICK r \in batch[d] : r = Current(d) /\ r \in Rows
    BY CurrentInBatch DEF MarkSent, MarkFailed, DispatcherInv
  <1>1. PICK st \in {"sent", "abandoned", "pending"} :
           /\ status' = [status EXCEPT ![r] = st]
           /\ attempts' = [attempts EXCEPT ![r] = attempts[r] + 1]
           /\ batch' = [batch EXCEPT ![d] = batch[d] \ {r}]
           /\ pc' = [pc EXCEPT ![d] = IF batch[d] = {r} THEN "idle" ELSE "send"]
           /\ UNCHANGED <<seen, delivered, logged, shared, faults>>
           /\ \/ st = "sent" /\ pc[d] = "mark_sent"
              \/ /\ st = "abandoned" /\ pc[d] = "mark_failed"
                 /\ attempts[r] + 1 >= MaxAttempts
              \/ /\ st = "pending" /\ pc[d] = "mark_failed"
                 /\ ~(attempts[r] + 1 >= MaxAttempts)
    BY <1>0 DEF MarkSent, MarkFailed, FinishRow
  <1>t. /\ pc \in [Dispatchers -> {"idle", "claiming", "send", "mark_sent", "mark_failed"}]
        /\ batch \in [Dispatchers -> SUBSET Rows]
        /\ attempts \in [Rows -> Nat] /\ delivered \in [Rows -> Nat]
        /\ status \in [Rows -> {"none", "pending", "sent", "abandoned"}]
        /\ MaxAttempts \in Nat
    BY DispatcherAssumption DEF DispatcherInv, TypeOK
  <1>2. TypeOK'
    BY <1>0, <1>1 DEF DispatcherInv, TypeOK
  <1>3. /\ batch'[d] = batch[d] \ {r}
        /\ pc'[d] = IF batch[d] = {r} THEN "idle" ELSE "send"
        /\ \A c \in Dispatchers \ {d} : batch'[c] = batch[c] /\ pc'[c] = pc[c]
    BY <1>1, <1>t
  <1>4. /\ status'[r] = st /\ attempts'[r] = attempts[r] + 1
        /\ \A i \in Rows \ {r} : status'[i] = status[i] /\ attempts'[i] = attempts[i]
    BY <1>0, <1>1, <1>t
  <1>5. BatchOK'
    BY <1>0, <1>3, <1>4, <1>t DEF DispatcherInv, BatchOK
  <1>6. AttemptsOK'
    <2> SUFFICES ASSUME NEW i \in Rows
                 PROVE  /\ status'[i] = "pending" => attempts'[i] < MaxAttempts
                        /\ attempts'[i] >= MaxAttempts =>
                              attempts'[i] + Cardinality(Holders(i)')
                                 < MaxAttempts + Cardinality(Dispatchers)
      BY DEF AttemptsOK
    <2>1. CASE i # r
      <3>1. Holders(i)' = Holders(i)
        BY <2>1, <1>3, <1>t DEF Holders
      <3> QED
        BY <3>1, <2>1, <1>4 DEF DispatcherInv, AttemptsOK
    <2>2. CASE i = r
      <3>1. Holders(r)' = Holders(r) \ {d} /\ d \in Holders(r)
        BY <1>0, <1>3, <1>t DEF Holders
      <3>2. /\ IsFiniteSet(Holders(r)) /\ Cardinality(Holders(r)) \in Nat
            /\ Cardinality(Dispatchers) \in Nat
            /\ Cardinality(Holders(r)) <= Cardinality(Dispatchers)
        <4>1. Holders(r) \in SUBSET Dispatchers
          BY DEF Holders
        <4> QED
          BY <4>1, HoldersFinite
      <3>3. Cardinality(Holders(r)') = Cardinality(Holders(r)) - 1
        BY <3>1, <3>2, FS_RemoveElement
      <3>4. CASE attempts[r] >= MaxAttempts
        <4>1. attempts[r] + Cardinality(Holders(r)) < MaxAttempts + Cardinality(Dispatchers)
          BY <3>4, <1>0 DEF DispatcherInv, AttemptsOK
        <4>2. attempts'[r] = attempts[r] + 1 /\ attempts[r] \in Nat
          BY <1>0, <1>4, <1>t
        <4> QED
          BY <4>1, <4>2, <3>2, <3>3, <3>4, <2>2, <1>1, <1>4, <1>t
      <3>5. CASE ~(attempts[r] >= MaxAttempts)
        BY <3>2, <3>3, <3>5, <2>2, <1>0, <1>1, <1>4, <1>t
      <3> QED
        BY <3>4, <3>5
    <2> QED
      BY <2>1, <2>2
  <1>7. /\ \A c \in Dispatchers \ {d} : \A i, step : At(c, i, step)' <=> At(c, i, step)
        /\ \A i : ~At(d, i, "mark_sent")' /\ ~At(d, i, "mark_failed")'
    BY <1>3, AtKept DEF At
  <1>8. st = "sent" => delivered[r] > 0
    BY <1>0, <1>1 DEF DispatcherInv, DeliveryOK, At
  <1>9. DeliveryOK'
    BY <1>1, <1>4, <1>7, <1>8 DEF DispatcherInv, DeliveryOK, SentWasDelivered
  <1>10. SoleOK'
    <2> SUFFICES ASSUME NEW i \in Rows \ shared
                 PROVE  /\ \A b, c \in Dispatchers :
                              i \in batch'[b] /\ i \in batch'[c] => b = c
                        /\ \A c \in Dispatchers :
                              i \in batch'[c] => /\ status'[i] = "pending"
                                                 /\ seen[c][i] = attempts'[i]
                        /\ delivered[i] <= 1 + faults
                        /\ \/ delivered[i] <= faults
                           \/ status'[i] = "sent"
                           \/ \E c \in Dispatchers : At(c, i, "mark_sent")'
                        /\ i \in SmsRows =>
                              /\ status'[i] = "abandoned" => i \in logged
                              /\ \A c \in Dispatchers :
                                    At(c, i, "mark_failed")' /\ attempts'[i] + 1 >= MaxAttempts
                                       => i \in logged
      BY <1>1 DEF SoleOK
    <2>1. /\ \A b, c \in Dispatchers : i \in batch[b] /\ i \in batch[c] => b = c
          /\ \A c \in Dispatchers :
                i \in batch[c] => status[i] = "pending" /\ seen[c][i] = attempts[i]
          /\ delivered[i] <= 1 + faults
          /\ \/ delivered[i] <= faults
             \/ status[i] = "sent"
             \/ \E c \in Dispatchers : At(c, i, "mark_sent")
          /\ i \in SmsRows =>
                /\ status[i] = "abandoned" => i \in logged
                /\ \A c \in Dispatchers :
                      At(c, i, "mark_failed") /\ attempts[i] + 1 >= MaxAttempts
                         => i \in logged
      BY DEF DispatcherInv, SoleOK
    <2>2. CASE i = r
      <3>1. \A c \in Dispatchers : i \notin batch'[c]
        BY <2>1, <2>2, <1>0, <1>3
      <3>2. \A c \in Dispatchers : \A step : ~At(c, i, step)'
        BY <3>1 DEF At
      <3>3. status[i] = "pending" /\ \A c \in Dispatchers : At(c, i, "mark_sent") => c = d
        BY <2>1, <2>2, <1>0 DEF At
      <3>4. CASE pc[d] = "mark_sent"
        BY <3>1, <3>2, <3>4, <2>1, <2>2, <1>1, <1>4
      <3>5. CASE pc[d] = "mark_failed"
        <4>1. ~At(d, i, "mark_sent") /\ At(d, i, "mark_failed")
          BY <3>5, <2>2, <1>0 DEF At
        <4>2. delivered[i] <= faults
          BY <4>1, <3>3, <2>1
        <4> QED
          BY <4>1, <4>2, <3>1, <3>2, <2>1, <2>2, <1>1, <1>4
      <3> QED
        BY <3>4, <3>5, <1>1
    <2>3. CASE i # r
      <3>1. ~At(d, i, "mark_sent") /\ ~At(d, i, "mark_failed")
        BY <2>3, <1>0 DEF At
      <3> QED
        BY <3>1, <2>1, <2>3, <1>3, <1>4, <1>7
    <2> QED
      BY <2>2, <2>3
  <1> QED
    BY <1>2, <1>5, <1>6, <1>9, <1>10 DEF DispatcherInv

(* A pass is cut short: its rows are given back as they are, and a         *)
(* delivery that was not recorded counts as lost to this fault.            *)
LEMMA FaultInv ==
    ASSUME DispatcherInv, NEW d \in Dispatchers, Fault(d)
    PROVE  DispatcherInv'
  <1>1. /\ faults < MaxFaults /\ faults' = faults + 1
        /\ pc' = [pc EXCEPT ![d] = "idle"]
        /\ batch' = [batch EXCEPT ![d] = {}]
        /\ UNCHANGED <<status, attempts, seen, delivered, logged, shared>>
    BY DEF Fault
  <1>t. /\ pc \in [Dispatchers -> {"idle", "claiming", "send", "mark_sent", "mark_failed"}]
        /\ batch \in [Dispatchers -> SUBSET Rows]
        /\ delivered \in [Rows -> Nat] /\ attempts \in [Rows -> Nat]
        /\ faults \in Nat /\ MaxFaults \in Nat /\ MaxAttempts \in Nat
    BY DispatcherAssumption DEF DispatcherInv, TypeOK
  <1>2. TypeOK'
    BY <1>1, <1>t DEF DispatcherInv, TypeOK
  <1>3. /\ batch'[d] = {} /\ pc'[d] = "idle"
        /\ \A c \in Dispatchers \ {d} : batch'[c] = batch[c] /\ pc'[c] = pc[c]
    BY <1>1, <1>t
  <1>4. BatchOK'
    BY <1>1, <1>3 DEF DispatcherInv, BatchOK
  <1>5. AttemptsOK'
    <2> SUFFICES ASSUME NEW i \in Rows, attempts[i] >= MaxAttempts
                 PROVE  attempts[i] + Cardinality(Holders(i)')
                           < MaxAttempts + Cardinality(Dispatchers)
      BY <1>1 DEF DispatcherInv, AttemptsOK
    <2>1. Holders(i)' \subseteq Holders(i) /\ Holders(i) \subseteq Dispatchers
      BY <1>3 DEF Holders
    <2>2. IsFiniteSet(Holders(i)) /\ IsFiniteSet(Holders(i)')
      BY <2>1, HoldersFinite
    <2>3. /\ Cardinality(Holders(i)') <= Cardinality(Holders(i))
          /\ Cardinality(Holders(i)') \in Nat /\ Cardinality(Holders(i)) \in Nat
          /\ Cardinality(Dispatchers) \in Nat
      BY <2>1, <2>2, FS_Subset, FS_CardinalityType, DispatcherAssumption
    <2>4. attempts[i] + Cardinality(Holders(i)) < MaxAttempts + Cardinality(Dispatchers)
      BY DEF DispatcherInv, AttemptsOK
    <2>5. attempts[i] \in Nat
      BY <1>t
    <2> QED
      BY <2>3, <2>4, <2>5, <1>t
  <1>6. /\ \A c \in Dispatchers \ {d} : \A i, step : At(c, i, step)' <=> At(c, i, step)
        /\ \A i : ~At(d, i, "mark_sent")' /\ ~At(d, i, "mark_failed")'
    BY <1>3, AtKept DEF At
  <1>7. DeliveryOK'
    BY <1>1, <1>6 DEF DispatcherInv, DeliveryOK, SentWasDelivered
  <1>8. SoleOK'
    <2>1. \A i \in Rows \ shared : delivered[i] <= faults'
      BY <1>1, <1>t DEF DispatcherInv, SoleOK
    <2>2. \A i \in Rows \ shared : delivered[i] <= 1 + faults'
      BY <2>1, <1>1, <1>t
    <2>3. \A c \in Dispatchers : batch'[c] \subseteq batch[c]
      BY <1>3
    <2>4. \A c \in Dispatchers : \A i : At(c, i, "mark_failed")' => At(c, i, "mark_failed")
      BY <1>6
    <2> QED
      BY <2>1, <2>2, <2>3, <2>4, <1>1 DEF DispatcherInv, SoleOK
  <1> QED
    BY <1>2, <1>4, <1>5, <1>7, <1>8 DEF DispatcherInv

------------------------------------------------------------------------------
(* Every step preserves the invariant.                                     *)
LEMMA NextInv == DispatcherInv /\ [Next]_vars => DispatcherInv'
  <1> SUFFICES ASSUME DispatcherInv, [Next]_vars PROVE DispatcherInv'
    OBVIOUS
  <1>1. ASSUME NEW d \in Dispatchers, Step(d) PROVE DispatcherInv'
    BY <1>1, ClaimPendingInv, CommitClaimInv, SendInv, CatchInv, MarkInv DEF Step
  <1>2. CASE Next
    BY <1>1, <1>2, EnqueueInv, CatchInv, FaultInv DEF Next
  <1>3. CASE UNCHANGED vars
    <2>1. /\ UNCHANGED <<status, attempts, pc, batch, seen, delivered, logged,
                         shared, faults>>
      BY <1>3 DEF vars
    <2>2. TypeOK'
      BY <2>1 DEF DispatcherInv, TypeOK
    <2>3. BatchOK'
      BY <2>1 DEF DispatcherInv, BatchOK
    <2>4. AttemptsOK'
      BY <2>1 DEF DispatcherInv, AttemptsOK, Holders
    <2>5. \A d, i, step : At(d, i, step)' <=> At(d, i, step)
      BY <2>1, AtKept
    <2>6. DeliveryOK'
      BY <2>1, <2>5 DEF DispatcherInv, DeliveryOK, SentWasDelivered
    <2>7. SoleOK'
      BY <2>1, <2>5 DEF DispatcherInv, SoleOK
    <2> QED
      BY <2>2, <2>3, <2>4, <2>6, <2>7 DEF DispatcherInv
  <1> QED
    BY <1>2, <1>3

(* The inductive invariant holds throughout.                               *)
THEOREM DispatcherSafety == Spec => []DispatcherInv
  BY InitInv, NextInv, PTL DEF Spec

(* Type correctness.                                                       *)
THEOREM TypeCorrect == Spec => []TypeOK
  <1>1. DispatcherInv => TypeOK
    BY DEF DispatcherInv
  <1> QED
    BY <1>1, DispatcherSafety, PTL

(* A bad number does not retry forever: MAX_ATTEMPTS, and at most one more *)
(* attempt for each further instance.                                      *)
THEOREM AttemptsAreBounded == Spec => []AttemptsBounded
  <1>1. DispatcherInv => AttemptsBounded
    <2> SUFFICES ASSUME DispatcherInv, NEW i \in Rows
                 PROVE  attempts[i] < MaxAttempts + Cardinality(Dispatchers)
      BY DEF DispatcherInv, AttemptsOK, AttemptsBounded
    <2>1. /\ attempts[i] \in Nat /\ MaxAttempts \in Nat
      BY DispatcherAssumption DEF DispatcherInv, TypeOK
    <2>2. Cardinality(Holders(i)) \in Nat /\ Cardinality(Dispatchers) \in Nat
      <3>1. Holders(i) \in SUBSET Dispatchers
        BY DEF Holders
      <3> QED
        BY <3>1, HoldersFinite
    <2>3. Cardinality(Dispatchers) = 0 => attempts[i] < MaxAttempts
      BY <2>1, <2>2 DEF DispatcherInv, AttemptsOK
    <2> QED
      BY <2>1, <2>2, <2>3 DEF DispatcherInv, AttemptsOK
  <1> QED
    BY <1>1, DispatcherSafety, PTL

(* A row marked sent was delivered, whichever instance marked it.          *)
THEOREM SentMeansDelivered == Spec => []SentWasDelivered
  <1>1. DispatcherInv => SentWasDelivered
    BY DEF DispatcherInv, DeliveryOK
  <1> QED
    BY <1>1, DispatcherSafety, PTL

(* A row held by one instance at a time is delivered again only for an     *)
(* outcome that a fault lost.                                              *)
THEOREM RepeatsExplained == Spec => []RepeatsOnlyFaultsOrShared
  <1>1. DispatcherInv => RepeatsOnlyFaultsOrShared
    BY DEF DispatcherInv, SoleOK, RepeatsOnlyFaultsOrShared
  <1> QED
    BY <1>1, DispatcherSafety, PTL

(* A required SMS is never given up silently.                              *)
THEOREM AbandonmentLogged == Spec => []AbandonedIsLogged
  <1>1. DispatcherInv => AbandonedIsLogged
    BY DispatcherAssumption DEF DispatcherInv, SoleOK, AbandonedIsLogged
  <1> QED
    BY <1>1, DispatcherSafety, PTL

------------------------------------------------------------------------------
(* With one instance no row is ever held twice.                            *)
NoneShared == shared = {}

LEMMA NothingShared ==
    ASSUME NEW only, Dispatchers = {only}
    PROVE  Spec => []NoneShared
  <1>1. Init => NoneShared
    BY DEF Init, NoneShared
  <1>2. NoneShared /\ [Next]_vars => NoneShared'
    <2> SUFFICES ASSUME shared = {}, [Next]_vars PROVE shared' = {}
      BY DEF NoneShared
    <2>1. ASSUME NEW d \in Dispatchers, ClaimPending(d) PROVE shared' = {}
      <3>1. HeldByOthers(d) = {}
        BY DEF HeldByOthers
      <3> QED
        BY <2>1, <3>1 DEF ClaimPending
    <2> QED
      BY <2>1
      DEF Next, Step, Enqueue, CommitClaim, Send, SendFails, SendTimesOut, MarkSent,
          MarkSentThrows, MarkFailed, Fault, vars
  <1> QED
    BY <1>1, <1>2, PTL DEF Spec

(* notification.repository.ts promises that nothing is sent twice but for  *)
(* outcomes that were lost.  A deployment with one dispatcher keeps the    *)
(* promise, and it loses no SMS without the log line.                      *)
THEOREM OneInstanceNeverRepeats ==
    ASSUME NEW only, Dispatchers = {only}
    PROVE  Spec => [](/\ RepeatsOnlyAfterFaults
                      /\ \A i \in SmsRows : status[i] = "abandoned" => i \in logged)
  <1>1. DispatcherInv /\ NoneShared =>
           /\ RepeatsOnlyAfterFaults
           /\ \A i \in SmsRows : status[i] = "abandoned" => i \in logged
    BY DispatcherAssumption DEF DispatcherInv, SoleOK, RepeatsOnlyAfterFaults, NoneShared
  <1> QED
    BY <1>1, NothingShared, DispatcherSafety, PTL
==============================================================================
