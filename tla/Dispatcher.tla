----------------------------- MODULE Dispatcher ------------------------------
(***************************************************************************)
(* NotificationDispatcher.dispatchBatch over the notification outbox, run  *)
(* by any number of dispatcher instances.                                  *)
(*                                                                         *)
(* claimPending locks rows only for the transaction it runs in: once that  *)
(* commits the rows are pending and unlocked while they are being sent.    *)
(* Each row is then rendered, sent and marked, the mark being a            *)
(* transaction of its own.  A row is identified by its place in            *)
(* created_at order.                                                       *)
(***************************************************************************)
EXTENDS Integers, FiniteSets, FiniteSetsExt

CONSTANTS
    Dispatchers,  \* dispatcher instances
    NumRows,      \* notifications ever queued
    SmsRows,      \* those whose channel is sms; the others are push
    Unreachable,  \* those whose number or template is permanently bad
    MaxAttempts,  \* MAX_ATTEMPTS: 5 in the code
    BatchSize,    \* BATCH_SIZE: 50 in the code
    MaxFaults     \* how many times the database, or a dispatcher, fails

Rows == 1 .. NumRows

ASSUME DispatcherAssumption ==
    /\ IsFiniteSet(Dispatchers)
    /\ NumRows \in Nat
    /\ SmsRows \subseteq Rows
    /\ Unreachable \subseteq Rows
    /\ MaxAttempts \in Nat \ {0}
    /\ BatchSize \in Nat \ {0}
    /\ MaxFaults \in Nat

VARIABLES
    status,     \* "none" before it is queued; then the status column
    attempts,   \* the attempts column
    pc,         \* where each dispatcher is in dispatchBatch
    batch,      \* the rows of its batch it has not finished
    seen,       \* the attempts column as claimPending returned it
    delivered,  \* how often the gateway delivered the row's message
    logged,     \* SMS rows whose abandonment was logged as an error
    shared,     \* rows that two instances have held at once
    faults

vars == <<status, attempts, pc, batch, seen, delivered, logged, shared, faults>>

outbox == <<status, attempts>>

Init ==
    /\ status = [i \in Rows |-> "none"]
    /\ attempts = [i \in Rows |-> 0]
    /\ pc = [d \in Dispatchers |-> "idle"]
    /\ batch = [d \in Dispatchers |-> {}]
    /\ seen = [d \in Dispatchers |-> attempts]
    /\ delivered = [i \in Rows |-> 0]
    /\ logged = {}
    /\ shared = {}
    /\ faults = 0

(* The row a dispatcher is working on: oldest first.                       *)
Current(d) == Min(batch[d])

(* Rows locked by a claim that has not committed yet.                      *)
Locked == UNION {batch[d] : d \in {c \in Dispatchers : pc[c] = "claiming"}}

(* The first BatchSize rows of S in created_at order.                      *)
Oldest(S) == {i \in S : Cardinality({j \in S : j < i}) < BatchSize}

(* Rows in the hands of the other instances.                               *)
HeldByOthers(d) == UNION {batch[c] : c \in Dispatchers \ {d}}

(* Dispatcher d turns to the next row of its batch, or returns.            *)
FinishRow(d) ==
    /\ batch' = [batch EXCEPT ![d] = @ \ {Current(d)}]
    /\ pc' = [pc EXCEPT ![d] = IF batch[d] = {Current(d)} THEN "idle" ELSE "send"]

------------------------------------------------------------------------------
(* Some module commits a transaction that queued row i.                    *)
Enqueue(i) ==
    /\ status[i] = "none"
    /\ \A j \in Rows : j < i => status[j] # "none"
    /\ status' = [status EXCEPT ![i] = "pending"]
    /\ UNCHANGED <<attempts, pc, batch, seen, delivered, logged, shared, faults>>

(* Mutant: no status filter.                                              *)
ClaimAnyStatus(d) ==
    LET rows == Oldest({i \in Rows \ Locked : status[i] # "none"}) IN
    /\ pc[d] = "idle" /\ rows # {}
    /\ pc' = [pc EXCEPT ![d] = "claiming"]
    /\ batch' = [batch EXCEPT ![d] = rows]
    /\ shared' = shared \cup (rows \cap HeldByOthers(d))
    /\ seen' = [seen EXCEPT ![d] = attempts]
    /\ UNCHANGED <<status, attempts, delivered, logged, faults>>

(* SELECT ... WHERE status = 'pending' ORDER BY created_at LIMIT $1 FOR    *)
(* UPDATE SKIP LOCKED.  A pass that claims nothing changes nothing.        *)
ClaimPending(d) ==
    LET rows == Oldest({i \in Rows \ Locked : status[i] = "pending"}) IN
    /\ pc[d] = "idle" /\ rows # {}
    /\ pc' = [pc EXCEPT ![d] = "claiming"]
    /\ batch' = [batch EXCEPT ![d] = rows]
    /\ shared' = shared \cup (rows \cap HeldByOthers(d))
    /\ seen' = [seen EXCEPT ![d] = attempts]
    /\ UNCHANGED <<status, attempts, delivered, logged, faults>>

(* The claim's transaction commits: its row locks are gone.                *)
CommitClaim(d) ==
    /\ pc[d] = "claiming"
    /\ pc' = [pc EXCEPT ![d] = "send"]
    /\ UNCHANGED <<status, attempts, batch, seen, delivered, logged, shared, faults>>

(* The gateway accepts the message.                                        *)
Send(d) ==
    /\ pc[d] = "send"
    /\ Current(d) \notin Unreachable
    /\ delivered' = [delivered EXCEPT ![Current(d)] = @ + 1]
    /\ pc' = [pc EXCEPT ![d] = "mark_sent"]
    /\ UNCHANGED <<status, attempts, batch, seen, logged, shared, faults>>

(* Mutant: the threshold counts past failures without this one.            *)
EnterCatchLate(d) ==
    /\ pc' = [pc EXCEPT ![d] = "mark_failed"]
    /\ logged' = IF seen[d][Current(d)] >= MaxAttempts /\ Current(d) \in SmsRows
                 THEN logged \cup {Current(d)} ELSE logged

(* The catch branch logs an abandonment before it is recorded, judging by  *)
(* the attempts the claim returned.                                        *)
EnterCatch(d) ==
    /\ pc' = [pc EXCEPT ![d] = "mark_failed"]
    /\ logged' = IF seen[d][Current(d)] + 1 >= MaxAttempts /\ Current(d) \in SmsRows
                 THEN logged \cup {Current(d)} ELSE logged

(* Rendering throws, or the gateway does without having delivered.         *)
SendFails(d) ==
    /\ pc[d] = "send"
    /\ EnterCatch(d)
    /\ UNCHANGED <<status, attempts, batch, seen, delivered, shared, faults>>

(* The gateway call times out although the message went through.           *)
SendTimesOut(d) ==
    /\ pc[d] = "send"
    /\ Current(d) \notin Unreachable
    /\ faults < MaxFaults
    /\ faults' = faults + 1
    /\ delivered' = [delivered EXCEPT ![Current(d)] = @ + 1]
    /\ EnterCatch(d)
    /\ UNCHANGED <<status, attempts, batch, seen, shared>>

(* Mutant: any failure is recorded as sent.                                *)
MarkFailedAsSent(d) ==
    /\ pc[d] = "mark_failed"
    /\ Current(d) \notin Locked
    /\ attempts' = [attempts EXCEPT ![Current(d)] = @ + 1]
    /\ status' = [status EXCEPT ![Current(d)] = "sent"]
    /\ FinishRow(d)
    /\ UNCHANGED <<seen, delivered, logged, shared, faults>>

MarkSent(d) ==
    /\ pc[d] = "mark_sent"
    /\ Current(d) \notin Locked
    /\ status' = [status EXCEPT ![Current(d)] = "sent"]
    /\ attempts' = [attempts EXCEPT ![Current(d)] = @ + 1]
    /\ FinishRow(d)
    /\ UNCHANGED <<seen, delivered, logged, shared, faults>>

(* markSent's transaction throws: the catch branch treats it like a        *)
(* failed delivery.                                                        *)
MarkSentThrows(d) ==
    /\ pc[d] = "mark_sent"
    /\ faults < MaxFaults
    /\ faults' = faults + 1
    /\ EnterCatch(d)
    /\ UNCHANGED <<status, attempts, batch, seen, delivered, shared>>

(* Mutants of MarkFailed: a status nothing looks for again; a failed row   *)
(* is never given up.                                                      *)
MarkFailedUnknown(d) ==
    /\ pc[d] = "mark_failed"
    /\ Current(d) \notin Locked
    /\ attempts' = [attempts EXCEPT ![Current(d)] = @ + 1]
    /\ status' = [status EXCEPT ![Current(d)] = "failed"]
    /\ FinishRow(d)
    /\ UNCHANGED <<seen, delivered, logged, shared, faults>>

MarkFailedForever(d) ==
    /\ pc[d] = "mark_failed"
    /\ Current(d) \notin Locked
    /\ attempts' = [attempts EXCEPT ![Current(d)] = @ + 1]
    /\ status' = [status EXCEPT ![Current(d)] = "pending"]
    /\ FinishRow(d)
    /\ UNCHANGED <<seen, delivered, logged, shared, faults>>

(* markFailed: the row is pending again, or abandoned.                     *)
MarkFailed(d) ==
    /\ pc[d] = "mark_failed"
    /\ Current(d) \notin Locked
    /\ attempts' = [attempts EXCEPT ![Current(d)] = @ + 1]
    /\ status' = [status EXCEPT
                    ![Current(d)] = IF attempts[Current(d)] + 1 >= MaxAttempts
                                    THEN "abandoned" ELSE "pending"]
    /\ FinishRow(d)
    /\ UNCHANGED <<seen, delivered, logged, shared, faults>>

(* markFailed's transaction throws out of dispatchBatch, or the process    *)
(* dies: the rest of the batch is dropped, its rows untouched.             *)
Fault(d) ==
    /\ pc[d] \in {"claiming", "send", "mark_sent", "mark_failed"}
    /\ faults < MaxFaults
    /\ faults' = faults + 1
    /\ pc' = [pc EXCEPT ![d] = "idle"]
    /\ batch' = [batch EXCEPT ![d] = {}]
    /\ UNCHANGED <<status, attempts, seen, delivered, logged, shared>>

Step(d) ==
    \/ ClaimPending(d)
    \/ CommitClaim(d)
    \/ Send(d)
    \/ SendFails(d)
    \/ MarkSent(d)
    \/ MarkFailed(d)

Next ==
    \/ \E i \in Rows : Enqueue(i)
    \/ \E d \in Dispatchers :
          Step(d) \/ SendTimesOut(d) \/ MarkSentThrows(d) \/ Fault(d)

Spec == Init /\ [][Next]_vars

(* Every instance is run again and again by its scheduler and a batch that *)
(* was begun goes on; nothing is assumed of the gateway.                   *)
Fairness == \A d \in Dispatchers : WF_vars(Step(d))

FairSpec == Spec /\ Fairness

------------------------------------------------------------------------------
(* Every variable has its type.                                            *)
TypeOK ==
    /\ status \in [Rows -> {"none", "pending", "sent", "abandoned"}]
    /\ attempts \in [Rows -> Nat]
    /\ pc \in [Dispatchers -> {"idle", "claiming", "send", "mark_sent", "mark_failed"}]
    /\ batch \in [Dispatchers -> SUBSET Rows]
    /\ seen \in [Dispatchers -> [Rows -> Nat]]
    /\ delivered \in [Rows -> Nat]
    /\ logged \subseteq Rows
    /\ shared \subseteq Rows
    /\ faults \in 0 .. MaxFaults

(* A bad number does not retry forever: a row that is still pending has    *)
(* attempts left, and even with several instances at work on it a row is   *)
(* attempted at most once more per extra instance.                         *)
AttemptsBounded ==
    \A i \in Rows :
        /\ status[i] = "pending" => attempts[i] < MaxAttempts
        /\ attempts[i] < MaxAttempts + Cardinality(Dispatchers)

(* A row marked sent was handed to the gateway, whichever instance marked  *)
(* it and whatever happened to the row in the meantime.                    *)
SentWasDelivered ==
    \A i \in Rows : status[i] = "sent" => delivered[i] > 0

(* FOR UPDATE SKIP LOCKED lets instances run "without sending the same     *)
(* notification twice" (notification.repository.ts), save for messages     *)
(* whose outcome was lost to a gateway timeout, a failed mark or a crash.  *)
RepeatsOnlyAfterFaults ==
    \A i \in Rows : delivered[i] <= 1 + faults

(* That does hold for every row that no two instances held at once: one    *)
(* instance repeats a message only for a lost outcome.                     *)
RepeatsOnlyFaultsOrShared ==
    \A i \in Rows \ shared : delivered[i] <= 1 + faults

(* Abandoning a required SMS is never silent: the dispatcher logs it       *)
(* "loudly rather than burying it" (notification.dispatcher.ts).  It needs *)
(* the row to be held by one instance at a time, because the decision to   *)
(* log is taken from the attempts that instance read when it claimed.      *)
AbandonedIsLogged ==
    \A i \in SmsRows \ shared : status[i] = "abandoned" => i \in logged

(* Every queued notification is eventually sent or given up for good, also *)
(* behind older rows that keep failing and fill the batch.                 *)
EveryRowResolved ==
    \A i \in Rows : status[i] = "pending" ~> [](status[i] \in {"sent", "abandoned"})
==============================================================================
