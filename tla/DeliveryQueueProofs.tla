------------------------ MODULE DeliveryQueueProofs ------------------------
(***************************************************************************)
(* Theorems about DeliveryQueue, for any deliveries, workers and settings. *)
(***************************************************************************)
EXTENDS DeliveryQueue, TLAPS

-----------------------------------------------------------------------------
(* Types.  A worker is idle exactly when it holds nothing. *)

IdleHoldsNothing == \A w \in Workers : phase[w] = "idle" <=> held[w] = None

TypeInv == TypeOK /\ IdleHoldsNothing

\* A backoff is a number of ticks no larger than its ceiling.
LEMMA BackoffBounded ==
  ASSUME NEW n
  PROVE  BackoffDelay(n) \in 0..BackoffCap
BY QueueAssumption DEF BackoffDelay

LEMMA DownBounded ==
  ASSUME NEW m \in Nat, NEW n \in 0..m
  PROVE  Down(n) \in 0..m
BY DEF Down

LEMMA TypeInit == Init => TypeInv
BY QueueAssumption DEF Init, TypeInv, TypeOK, IdleHoldsNothing, Statuses, Dispositions,
   AttemptCeiling

\* The webhook writes request, arrival and, in Enqueue, a fresh row.
LEMMA TypeWebhook ==
  ASSUME TypeInv, NEW d \in Deliveries, Webhook(d)
  PROVE  TypeInv'
<1> USE QueueAssumption DEF TypeInv, TypeOK, IdleHoldsNothing, Statuses, rowVars, eventVars,
        workerVars
<1>1. CASE Receive(d)
  <2>1. arrival' \in Seq(Deliveries)
    BY <1>1 DEF Receive
  <2>2. request' \in [Deliveries ->
          {"unsent", "stamped", "committed", "accepted", "refused", "dropped"}]
    BY <1>1 DEF Receive
  <2>3. UNCHANGED <<rowVars, eventVars, up, workerVars>>
    BY <1>1 DEF Receive
  <2> QED BY <2>1, <2>2, <2>3
<1>2. CASE Enqueue(d)
  BY <1>2 DEF Enqueue
<1>3. CASE EnqueueVanishes(d)
  BY <1>3 DEF EnqueueVanishes
<1>4. CASE Accept(d)
  BY <1>4 DEF Accept
<1>5. CASE Refuse(d)
  BY <1>5 DEF Refuse
<1> QED BY <1>1, <1>2, <1>3, <1>4, <1>5 DEF Webhook

\* A claim takes one row and fills the worker's memory from it.
LEMMA TypeClaim ==
  ASSUME TypeInv, NEW w \in Workers, Claim(w)
  PROVE  TypeInv'
<1> USE QueueAssumption DEF TypeInv, TypeOK, IdleHoldsNothing
<1>1. PICK d \in Deliveries :
        /\ status' = [status EXCEPT ![d] = "processing"]
        /\ attempts' = [attempts EXCEPT ![d] =
             IF attempts[d] < AttemptCeiling THEN attempts[d] + 1 ELSE attempts[d]]
        /\ leaseLeft' = [leaseLeft EXCEPT ![d] = Lease]
        /\ held' = [held EXCEPT ![w] = d]
        /\ attempt' = [attempt EXCEPT ![w] =
             IF attempts[d] < AttemptCeiling THEN attempts[d] + 1 ELSE attempts[d]]
        /\ readable' = [readable EXCEPT ![w] = body[d]]
  BY DEF Claim
<1>2. /\ phase' = [phase EXCEPT ![w] = "claimed"]
      /\ age' = [age EXCEPT ![w] = 0]
      /\ UNCHANGED <<dueIn, body, keepFor, disposition, eventOf, event, suppressed, up,
                     request, arrival>>
  BY DEF Claim, eventVars, webhookVars
<1>3. (IF attempts[d] < AttemptCeiling THEN attempts[d] + 1 ELSE attempts[d])
        \in 0..AttemptCeiling
  BY DEF AttemptCeiling
<1>4. /\ status' \in [Deliveries -> Statuses]
      /\ attempts' \in [Deliveries -> 0..AttemptCeiling]
      /\ leaseLeft' \in [Deliveries -> 0..Lease]
  BY <1>1, <1>3 DEF Statuses
<1>5. /\ held' \in [Workers -> Deliveries \cup {None}]
      /\ attempt' \in [Workers -> 0..AttemptCeiling]
      /\ readable' \in [Workers -> BOOLEAN]
      /\ phase' \in [Workers -> {"idle", "claimed", "working"}]
      /\ age' \in [Workers -> 0..JobBudget]
  BY <1>1, <1>2, <1>3
<1>6. IdleHoldsNothing'
  BY <1>1, <1>2
<1> QED BY <1>2, <1>4, <1>5, <1>6

\* The three writes that end a job, and the release they share.
LEMMA TypeRelease ==
  ASSUME TypeInv, NEW w \in Workers, Release(w)
  PROVE  /\ phase' \in [Workers -> {"idle", "claimed", "working"}]
         /\ held' \in [Workers -> Deliveries \cup {None}]
         /\ attempt' \in [Workers -> 0..AttemptCeiling]
         /\ readable' \in [Workers -> BOOLEAN]
         /\ age' \in [Workers -> 0..JobBudget]
         /\ IdleHoldsNothing'
BY QueueAssumption DEF TypeInv, TypeOK, IdleHoldsNothing, Release, AttemptCeiling

RowTypes ==
  /\ status \in [Deliveries -> Statuses]
  /\ attempts \in [Deliveries -> 0..AttemptCeiling]
  /\ dueIn \in [Deliveries -> 0..BackoffCap]
  /\ leaseLeft \in [Deliveries -> 0..Lease]
  /\ body \in [Deliveries -> BOOLEAN]
  /\ keepFor \in [Deliveries -> 0..Retention]
  /\ disposition \in [Deliveries -> Dispositions \cup {None}]
  /\ eventOf \in [Deliveries -> Keys \cup {None}]

LEMMA TypeCompleted ==
  ASSUME TypeInv, NEW w \in Workers, held[w] \in Deliveries, NEW k \in Keys,
         NEW disp \in Dispositions, MarkCompleted(w, disp, k)
  PROVE  RowTypes'
BY QueueAssumption DEF TypeInv, TypeOK, RowTypes, MarkCompleted, Statuses, Terminal

LEMMA TypeRejected ==
  ASSUME TypeInv, NEW w \in Workers, held[w] \in Deliveries,
         NEW disp \in Dispositions, MarkRejected(w, disp)
  PROVE  RowTypes'
BY QueueAssumption DEF TypeInv, TypeOK, RowTypes, MarkRejected, Statuses, Terminal

LEMMA TypeRetryOrFail ==
  ASSUME TypeInv, NEW w \in Workers, held[w] \in Deliveries, MarkRetryOrFail(w)
  PROVE  RowTypes'
<1> USE QueueAssumption DEF TypeInv, TypeOK, RowTypes, MarkRetryOrFail, RetryOrFail,
        Statuses, Terminal
<1>1. BackoffDelay(attempt[w]) \in 0..BackoffCap
  BY BackoffBounded
<1>2. dueIn' \in [Deliveries -> 0..BackoffCap]
  BY <1>1
<1>3. status' \in [Deliveries -> Statuses]
  OBVIOUS
<1> QED BY <1>2, <1>3

\* A worker that is not idle holds a delivery.
LEMMA BusyHolds ==
  ASSUME TypeInv, NEW w \in Workers, phase[w] # "idle"
  PROVE  held[w] \in Deliveries
BY DEF TypeInv, TypeOK, IdleHoldsNothing

LEMMA TypeEndJob ==
  ASSUME TypeInv, NEW w \in Workers, EndJob(w)
  PROVE  TypeInv'
<1>1. held[w] \in Deliveries
  <2>1. phase[w] # "idle"
    BY DEF EndJob, SuppressDelivery, RejectInvalid, RejectStale, Transient, SuppressContent,
       Persist, PersistThenRaise, LoseRace, Holds
  <2> QED BY <2>1, BusyHolds
<1>2. KeyHeld(w) \in Keys
  BY <1>1, QueueAssumption DEF KeyHeld
<1> DEFINE Events == /\ event' \in [Keys -> Deliveries \cup {None}]
                     /\ suppressed' \in [Keys -> BOOLEAN]
<1>3. /\ up' = up /\ request' = request /\ arrival' = arrival
      /\ Release(w) /\ RowTypes' /\ Events
  <2> USE <1>1, <1>2 DEF TypeInv, TypeOK
  <2>1. CASE SuppressDelivery(w)
    <3>1. MarkCompleted(w, "duplicate_delivery", KeyHeld(w)) /\ Events
      BY <2>1 DEF SuppressDelivery
    <3> QED BY <3>1, TypeCompleted DEF MarkCompleted, webhookVars, Dispositions
  <2>2. CASE RejectInvalid(w)
    <3>1. MarkRejected(w, "rejected_invalid") /\ Events
      BY <2>2 DEF RejectInvalid, eventVars
    <3> QED BY <3>1, TypeRejected DEF MarkRejected, webhookVars, Dispositions
  <2>3. CASE RejectStale(w)
    <3>1. MarkRejected(w, "rejected_stale_image") /\ Events
      BY <2>3 DEF RejectStale, eventVars
    <3> QED BY <3>1, TypeRejected DEF MarkRejected, webhookVars, Dispositions
  <2>4. CASE Transient(w)
    <3>1. MarkRetryOrFail(w) /\ Events
      BY <2>4 DEF Transient, eventVars
    <3> QED BY <3>1, TypeRetryOrFail DEF MarkRetryOrFail, RetryOrFail, webhookVars
  <2>5. CASE SuppressContent(w)
    <3>1. PICK k \in Keys : MarkCompleted(w, "duplicate_content", k)
                            /\ suppressed' = [suppressed EXCEPT ![k] = TRUE]
      BY <2>5 DEF SuppressContent
    <3>2. Events
      BY <2>5, <3>1 DEF SuppressContent
    <3> QED BY <3>1, <3>2, TypeCompleted DEF MarkCompleted, webhookVars, Dispositions
  <2>6. CASE Persist(w)
    <3>1. MarkCompleted(w, "accepted", KeyHeld(w)) /\ Events
      BY <2>6 DEF Persist, InsertEvent
    <3> QED BY <3>1, TypeCompleted DEF MarkCompleted, webhookVars, Dispositions
  <2>7. CASE PersistThenRaise(w)
    <3>1. MarkRetryOrFail(w) /\ Events
      BY <2>7 DEF PersistThenRaise, InsertEvent
    <3> QED BY <3>1, TypeRetryOrFail DEF MarkRetryOrFail, RetryOrFail, webhookVars
  <2>8. CASE LoseRace(w)
    <3>1. MarkCompleted(w, "duplicate_delivery", KeyHeld(w)) /\ Events
      BY <2>8 DEF LoseRace
    <3> QED BY <3>1, TypeCompleted DEF MarkCompleted, webhookVars, Dispositions
  <2> QED BY <2>1, <2>2, <2>3, <2>4, <2>5, <2>6, <2>7, <2>8 DEF EndJob
<1> QED BY <1>3, TypeRelease DEF TypeInv, TypeOK, RowTypes

LEMMA TypeStep == TypeInv /\ [Next]_vars => TypeInv'
<1> SUFFICES ASSUME TypeInv, [Next]_vars PROVE TypeInv'
  OBVIOUS
<1> USE QueueAssumption DEF TypeInv, TypeOK, IdleHoldsNothing, rowVars, eventVars,
        webhookVars, workerVars
<1>1. CASE \E d \in Deliveries : Webhook(d)
  BY <1>1, TypeWebhook
<1>2. CASE \E w \in Workers : Claim(w)
  BY <1>2, TypeClaim
<1>3. CASE \E w \in Workers : StartWork(w)
  BY <1>3 DEF StartWork, Holds
<1>4. CASE \E w \in Workers : EndJob(w)
  BY <1>4, TypeEndJob
<1>5. CASE \E w \in Workers : Abandon(w)
  <2>1. PICK w \in Workers : Abandon(w)
    BY <1>5
  <2>2. Release(w) /\ UNCHANGED <<rowVars, eventVars, up, webhookVars>>
    BY <2>1 DEF Abandon
  <2>3. /\ phase' \in [Workers -> {"idle", "claimed", "working"}]
        /\ held' \in [Workers -> Deliveries \cup {None}]
        /\ attempt' \in [Workers -> 0..AttemptCeiling]
        /\ readable' \in [Workers -> BOOLEAN]
        /\ age' \in [Workers -> 0..JobBudget]
        /\ IdleHoldsNothing'
    BY ONLY <2>2, TypeInv, TypeRelease
  <2> QED BY <2>2, <2>3
<1>6. CASE Crash
  <2>1. /\ phase' \in [Workers -> {"idle", "claimed", "working"}]
        /\ held' \in [Workers -> Deliveries \cup {None}]
        /\ attempt' \in [Workers -> 0..AttemptCeiling]
        /\ readable' \in [Workers -> BOOLEAN]
        /\ age' \in [Workers -> 0..JobBudget]
    BY <1>6 DEF Crash, ForgetMemory, AttemptCeiling
  <2>2. request' \in [Deliveries ->
          {"unsent", "stamped", "committed", "accepted", "refused", "dropped"}]
    BY <1>6 DEF Crash, ForgetMemory
  <2>3. IdleHoldsNothing'
    BY <1>6 DEF Crash, ForgetMemory
  <2> QED BY <1>6, <2>1, <2>2, <2>3 DEF Crash, ForgetMemory
<1>7. CASE Restart
  BY <1>7 DEF Restart
<1>8. CASE PruneRawBodies
  BY <1>8 DEF PruneRawBodies
<1>9. CASE Tick
  <2>1. /\ dueIn' \in [Deliveries -> 0..BackoffCap]
        /\ leaseLeft' \in [Deliveries -> 0..Lease]
        /\ keepFor' \in [Deliveries -> 0..Retention]
    BY <1>9, DownBounded DEF Tick
  <2>2. age' \in [Workers -> 0..JobBudget]
    BY <1>9 DEF Tick
  <2> QED BY <1>9, <2>1, <2>2 DEF Tick
<1>10. CASE UNCHANGED vars
  BY <1>10 DEF vars
<1> QED BY <1>1, <1>2, <1>3, <1>4, <1>5, <1>6, <1>7, <1>8, <1>9, <1>10
    DEF Next, Work, Fault

\* Every reachable state is well typed, and a worker holds a delivery exactly
\* while it is busy.
THEOREM TypeCorrect == Spec => []TypeInv
<1>1. Init => TypeInv
  BY TypeInit
<1>2. TypeInv /\ [Next]_vars => TypeInv'
  BY TypeStep
<1> QED BY <1>1, <1>2, PTL DEF Spec

-----------------------------------------------------------------------------
(* What holds whatever the lease: rows are never lost, and a worker never    *)
(* remembers more attempts than its row has.                                 *)

RowStored ==
  /\ \A d \in Deliveries : request[d] \in {"unsent", "stamped"} => status[d] = "absent"
  /\ \A d \in Deliveries : status[d] = "absent" => attempts[d] = 0
  /\ \A w \in Workers : phase[w] # "idle" =>
       status[held[w]] # "absent" /\ attempt[w] <= attempts[held[w]]

StoredInv == RowStored /\ AcceptedIsStored /\ FailedIsExhausted

\* How a job ends: one row changes, to a final status or back to pending with
\* an attempt left, its lease is cleared and the worker lets go of it.
LEMMA EndJobFrame ==
  ASSUME TypeInv, NEW w \in Workers, EndJob(w)
  PROVE  /\ up /\ phase[w] # "idle" /\ held[w] \in Deliveries
         /\ \E s \in Terminal \cup {"pending"} :
              /\ status' = [status EXCEPT ![held[w]] = s]
              /\ s = "pending" => attempt[w] < MaxAttempts
              /\ s = "failed" => attempt[w] >= MaxAttempts
         /\ leaseLeft' = [leaseLeft EXCEPT ![held[w]] = 0]
         /\ attempts' = attempts
         /\ request' = request
         /\ Release(w)
<1>1. up /\ phase[w] # "idle"
  BY DEF EndJob, SuppressDelivery, RejectInvalid, RejectStale, Transient, SuppressContent,
     Persist, PersistThenRaise, LoseRace, Holds
<1>2. held[w] \in Deliveries
  BY <1>1, BusyHolds
<1>3. ASSUME NEW disp, NEW k, MarkCompleted(w, disp, k)
      PROVE  /\ status' = [status EXCEPT ![held[w]] = "completed"]
             /\ leaseLeft' = [leaseLeft EXCEPT ![held[w]] = 0]
             /\ attempts' = attempts /\ request' = request /\ Release(w)
  BY <1>3 DEF MarkCompleted, webhookVars
<1>4. ASSUME NEW disp, MarkRejected(w, disp)
      PROVE  /\ status' = [status EXCEPT ![held[w]] = "rejected"]
             /\ leaseLeft' = [leaseLeft EXCEPT ![held[w]] = 0]
             /\ attempts' = attempts /\ request' = request /\ Release(w)
  BY <1>4 DEF MarkRejected, webhookVars
<1>5. ASSUME MarkRetryOrFail(w)
      PROVE  /\ \/ status' = [status EXCEPT ![held[w]] = "failed"] /\ attempt[w] >= MaxAttempts
                \/ status' = [status EXCEPT ![held[w]] = "pending"] /\ attempt[w] < MaxAttempts
             /\ leaseLeft' = [leaseLeft EXCEPT ![held[w]] = 0]
             /\ attempts' = attempts /\ request' = request /\ Release(w)
  BY <1>5 DEF MarkRetryOrFail, RetryOrFail, webhookVars
<1>6. CASE \E disp, k : MarkCompleted(w, disp, k)
  BY <1>1, <1>2, <1>3, <1>6 DEF Terminal
<1>7. CASE \E disp : MarkRejected(w, disp)
  BY <1>1, <1>2, <1>4, <1>7 DEF Terminal
<1>8. CASE MarkRetryOrFail(w)
  BY <1>1, <1>2, <1>5, <1>8 DEF Terminal
<1>9. \/ \E disp, k : MarkCompleted(w, disp, k)
      \/ \E disp : MarkRejected(w, disp)
      \/ MarkRetryOrFail(w)
  BY DEF EndJob, SuppressDelivery, RejectInvalid, RejectStale, Transient, SuppressContent,
     Persist, PersistThenRaise, LoseRace
<1> QED BY <1>6, <1>7, <1>8, <1>9

LEMMA StoredInit == Init => StoredInv
BY QueueAssumption DEF Init, StoredInv, RowStored, AcceptedIsStored, FailedIsExhausted

LEMMA StoredWebhook ==
  ASSUME TypeInv, StoredInv, NEW d \in Deliveries, Webhook(d)
  PROVE  StoredInv'
<1> USE DEF StoredInv, RowStored, AcceptedIsStored, FailedIsExhausted, TypeInv, TypeOK,
        rowVars, workerVars
<1>0. \A w \in Workers : phase[w] # "idle" => held[w] \in Deliveries
  BY BusyHolds
<1>1. CASE Receive(d)
  BY <1>0, <1>1 DEF Receive
<1>2. CASE Enqueue(d)
  BY <1>0, <1>2 DEF Enqueue
<1>3. CASE EnqueueVanishes(d)
  BY <1>0, <1>3 DEF EnqueueVanishes
<1>4. CASE Accept(d)
  BY <1>0, <1>4 DEF Accept
<1>5. CASE Refuse(d)
  BY <1>0, <1>5 DEF Refuse
<1> QED BY <1>1, <1>2, <1>3, <1>4, <1>5 DEF Webhook

\* A claim raises attempts, and the worker remembers the raised number.
LEMMA ClaimFrame ==
  ASSUME TypeInv, NEW w \in Workers, Claim(w)
  PROVE  \E d \in Deliveries, n \in 1..AttemptCeiling :
           /\ Runnable(d)
           /\ n >= attempts[d]
           /\ status' = [status EXCEPT ![d] = "processing"]
           /\ attempts' = [attempts EXCEPT ![d] = n]
           /\ leaseLeft' = [leaseLeft EXCEPT ![d] = Lease]
           /\ held' = [held EXCEPT ![w] = d]
           /\ attempt' = [attempt EXCEPT ![w] = n]
           /\ phase' = [phase EXCEPT ![w] = "claimed"]
           /\ age' = [age EXCEPT ![w] = 0]
           /\ request' = request
<1>1. PICK d \in Deliveries :
        /\ Runnable(d)
        /\ status' = [status EXCEPT ![d] = "processing"]
        /\ attempts' = [attempts EXCEPT ![d] =
             IF attempts[d] < AttemptCeiling THEN attempts[d] + 1 ELSE attempts[d]]
        /\ leaseLeft' = [leaseLeft EXCEPT ![d] = Lease]
        /\ held' = [held EXCEPT ![w] = d]
        /\ attempt' = [attempt EXCEPT ![w] =
             IF attempts[d] < AttemptCeiling THEN attempts[d] + 1 ELSE attempts[d]]
  BY DEF Claim
<1> DEFINE n == IF attempts[d] < AttemptCeiling THEN attempts[d] + 1 ELSE attempts[d]
<1>2. n \in 1..AttemptCeiling /\ n >= attempts[d]
  BY QueueAssumption DEF TypeInv, TypeOK, AttemptCeiling
<1>3. /\ phase' = [phase EXCEPT ![w] = "claimed"]
      /\ age' = [age EXCEPT ![w] = 0]
      /\ request' = request
  BY DEF Claim, webhookVars
<1> QED BY <1>1, <1>2, <1>3

LEMMA StoredClaim ==
  ASSUME TypeInv, StoredInv, NEW w \in Workers, Claim(w)
  PROVE  StoredInv'
<1> USE DEF StoredInv, RowStored, AcceptedIsStored, FailedIsExhausted, TypeInv, TypeOK
<1>1. PICK d \in Deliveries, n \in 1..AttemptCeiling :
           /\ Runnable(d)
           /\ n >= attempts[d]
           /\ status' = [status EXCEPT ![d] = "processing"]
           /\ attempts' = [attempts EXCEPT ![d] = n]
           /\ held' = [held EXCEPT ![w] = d]
           /\ attempt' = [attempt EXCEPT ![w] = n]
           /\ phase' = [phase EXCEPT ![w] = "claimed"]
           /\ request' = request
  BY ClaimFrame
<1>2. status[d] # "absent"
  BY <1>1 DEF Runnable
<1>3. \A v \in Workers : phase[v] # "idle" => held[v] \in Deliveries
  BY BusyHolds
<1>4. \A v \in Workers : phase'[v] # "idle" =>
        status'[held'[v]] # "absent" /\ attempt'[v] <= attempts'[held'[v]]
  <2> TAKE v \in Workers
  <2>1. CASE v = w
    BY <1>1, <2>1, QueueAssumption DEF AttemptCeiling
  <2>2. CASE v # w
    <3> HAVE phase'[v] # "idle"
    <3>1. held'[v] = held[v] /\ attempt'[v] = attempt[v] /\ phase[v] # "idle"
      BY <1>1, <2>2
    <3>2. /\ held[v] \in Deliveries
          /\ attempt[v] <= attempts[held[v]]
          /\ attempts'[held[v]] >= attempts[held[v]]
          /\ attempt[v] \in Int /\ attempts[held[v]] \in Int /\ attempts'[held[v]] \in Int
      BY <1>1, <1>3, <3>1
    <3>3. status'[held[v]] # "absent"
      BY <1>1, <1>2, <3>1, <3>2
    <3> QED BY <3>1, <3>2, <3>3
  <2> QED BY <2>1, <2>2
<1>5. \A e \in Deliveries : /\ status'[e] = "absent" <=> status[e] = "absent"
                            /\ attempts'[e] # attempts[e] => status'[e] = "processing"
                            /\ status'[e] = "failed" => status[e] = "failed"
  BY <1>1, <1>2
<1>6. AcceptedIsStored'
  BY <1>1, <1>5
<1>7. FailedIsExhausted'
  BY <1>1, <1>5
<1>8. /\ \A e \in Deliveries : request'[e] \in {"unsent", "stamped"} => status'[e] = "absent"
      /\ \A e \in Deliveries : status'[e] = "absent" => attempts'[e] = 0
  BY <1>1, <1>5
<1> QED BY <1>4, <1>6, <1>7, <1>8

LEMMA StoredEndJob ==
  ASSUME TypeInv, StoredInv, NEW w \in Workers, EndJob(w)
  PROVE  StoredInv'
<1> USE DEF StoredInv, RowStored, AcceptedIsStored, FailedIsExhausted, TypeInv, TypeOK
<1>1. PICK s \in Terminal \cup {"pending"} :
        /\ status' = [status EXCEPT ![held[w]] = s]
        /\ s = "failed" => attempt[w] >= MaxAttempts
  BY EndJobFrame
<1>2. /\ phase[w] # "idle" /\ held[w] \in Deliveries
      /\ attempts' = attempts /\ request' = request /\ Release(w)
  BY EndJobFrame
<1>3. s # "absent"
  BY <1>1 DEF Terminal
<1>4. \A d \in Deliveries : status'[d] = "absent" <=> status[d] = "absent"
  BY <1>1, <1>2, <1>3
<1>5. RowStored'
  <2>1. \A v \in Workers : phase'[v] # "idle" =>
          /\ phase[v] # "idle" /\ held[v] \in Deliveries
          /\ held'[v] = held[v] /\ attempt'[v] = attempt[v]
    BY <1>2, BusyHolds DEF Release
  <2> QED BY <1>2, <1>4, <2>1
<1>6. AcceptedIsStored'
  BY <1>2, <1>4
<1>7. FailedIsExhausted'
  <2>1. s = "failed" => attempts[held[w]] >= MaxAttempts
    <3>1. attempt[w] \in Int /\ attempts[held[w]] \in Int /\ attempt[w] <= attempts[held[w]]
      BY <1>2
    <3> QED BY <1>1, <3>1, QueueAssumption
  <2> QED BY <1>1, <1>2, <2>1
<1> QED BY <1>5, <1>6, <1>7

LEMMA StoredStep == TypeInv /\ StoredInv /\ [Next]_vars => StoredInv'
<1> SUFFICES ASSUME TypeInv, StoredInv, [Next]_vars PROVE StoredInv'
  OBVIOUS
<1> USE DEF StoredInv, RowStored, AcceptedIsStored, FailedIsExhausted, TypeInv, TypeOK,
        rowVars, webhookVars, workerVars
<1>0. \A w \in Workers : phase[w] # "idle" => held[w] \in Deliveries
  BY BusyHolds
<1>1. CASE \E d \in Deliveries : Webhook(d)
  BY <1>1, StoredWebhook
<1>2. CASE \E w \in Workers : Claim(w)
  BY <1>2, StoredClaim
<1>3. CASE \E w \in Workers : StartWork(w)
  BY <1>0, <1>3 DEF StartWork, Holds
<1>4. CASE \E w \in Workers : EndJob(w)
  BY <1>4, StoredEndJob
<1>5. CASE \E w \in Workers : Abandon(w)
  BY <1>0, <1>5 DEF Abandon, Release
<1>6. CASE Crash
  BY <1>6 DEF Crash, ForgetMemory
<1>7. CASE Restart
  BY <1>7 DEF Restart
<1>8. CASE PruneRawBodies
  BY <1>8 DEF PruneRawBodies
<1>9. CASE Tick
  BY <1>9 DEF Tick
<1>10. CASE UNCHANGED vars
  BY <1>10 DEF vars
<1> QED BY <1>1, <1>2, <1>3, <1>4, <1>5, <1>6, <1>7, <1>8, <1>9, <1>10
    DEF Next, Work, Fault

\* Whatever the lease: rows are stored, and never lost again.
THEOREM StoredCorrect == Spec => [](TypeInv /\ StoredInv)
<1>1. Init => TypeInv /\ StoredInv
  BY TypeInit, StoredInit
<1>2. TypeInv /\ StoredInv /\ [Next]_vars => (TypeInv /\ StoredInv)'
  BY TypeStep, StoredStep
<1> QED BY <1>1, <1>2, PTL DEF Spec

\* TypeOK is an invariant of the queue.
THEOREM TypeOKHolds == Spec => []TypeOK
<1>1. TypeInv => TypeOK
  BY DEF TypeInv
<1> QED BY <1>1, TypeCorrect, PTL

\* A delivery answered 202 is in the table, in every reachable state.
THEOREM AcceptedStaysStored == Spec => []AcceptedIsStored
<1>1. StoredInv => AcceptedIsStored
  BY DEF StoredInv
<1> QED BY <1>1, StoredCorrect, PTL

\* A delivery is given up only after max_attempts claims.
THEOREM NeverGivenUpEarly == Spec => []FailedIsExhausted
<1>1. StoredInv => FailedIsExhausted
  BY DEF StoredInv
<1> QED BY <1>1, StoredCorrect, PTL

-----------------------------------------------------------------------------
(* Events: one per key, forever, whatever the lease. *)

EventsGrow ==
  \A k \in Keys : /\ Recorded(k) => event'[k] = event[k]
                  /\ suppressed[k] => suppressed'[k]

\* A row other than the held one keeps what CompletionIsBacked speaks of; the
\* held one is completed only with an event that backs it.
LEMMA EndJobEvents ==
  ASSUME TypeInv, NEW w \in Workers, EndJob(w)
  PROVE  /\ EventsGrow
         /\ \A d \in Deliveries : d # held[w] =>
              status'[d] = status[d] /\ eventOf'[d] = eventOf[d]
                /\ disposition'[d] = disposition[d]
         /\ \/ status'[held[w]] # "completed"
            \/ /\ eventOf'[held[w]] \in Keys
               /\ event'[eventOf'[held[w]]] # None
               /\ IF disposition'[held[w]] = "accepted"
                    THEN event'[KeyOf[held[w]]] = held[w]
                    ELSE suppressed'[eventOf'[held[w]]]
<1> DEFINE d == held[w]
           k == KeyHeld(w)
<1>1. d \in Deliveries
  BY EndJobFrame
<1>2. k \in Keys /\ d # None /\ k = KeyOf[d]
  BY <1>1, QueueAssumption DEF KeyHeld
<1> USE <1>1, <1>2 DEF TypeInv, TypeOK, EventsGrow, Recorded
<1>3. ASSUME NEW disp, NEW key \in Keys, MarkCompleted(w, disp, key)
      PROVE  /\ \A e \in Deliveries : e # d => status'[e] = status[e]
                    /\ eventOf'[e] = eventOf[e] /\ disposition'[e] = disposition[e]
             /\ eventOf'[d] = key /\ disposition'[d] = disp
  BY <1>3 DEF MarkCompleted
<1>4. ASSUME NEW disp, MarkRejected(w, disp)
      PROVE  /\ \A e \in Deliveries : e # d => status'[e] = status[e]
                    /\ eventOf'[e] = eventOf[e] /\ disposition'[e] = disposition[e]
             /\ status'[d] # "completed"
  BY <1>4 DEF MarkRejected
<1>5. ASSUME MarkRetryOrFail(w)
      PROVE  /\ \A e \in Deliveries : e # d => status'[e] = status[e]
                    /\ eventOf'[e] = eventOf[e] /\ disposition'[e] = disposition[e]
             /\ status'[d] # "completed"
  BY <1>5 DEF MarkRetryOrFail, RetryOrFail
<1>6. CASE SuppressDelivery(w)
  <2>1. MarkCompleted(w, "duplicate_delivery", k)
        /\ event' = event /\ suppressed' = [suppressed EXCEPT ![k] = TRUE] /\ event[k] # None
    BY <1>6 DEF SuppressDelivery
  <2> QED BY <2>1, <1>3
<1>7. CASE LoseRace(w)
  <2>1. MarkCompleted(w, "duplicate_delivery", k)
        /\ event' = event /\ suppressed' = [suppressed EXCEPT ![k] = TRUE] /\ event[k] # None
    BY <1>7 DEF LoseRace
  <2> QED BY <2>1, <1>3
<1>8. CASE SuppressContent(w)
  <2>1. PICK j \in Keys : MarkCompleted(w, "duplicate_content", j)
        /\ event' = event /\ suppressed' = [suppressed EXCEPT ![j] = TRUE] /\ event[j] # None
    BY <1>8 DEF SuppressContent
  <2> QED BY <2>1, <1>3
<1>9. CASE Persist(w)
  <2>1. MarkCompleted(w, "accepted", k)
        /\ event[k] = None /\ event' = [event EXCEPT ![k] = d] /\ suppressed' = suppressed
    BY <1>9 DEF Persist, InsertEvent
  <2> QED BY <2>1, <1>3
<1>10. CASE PersistThenRaise(w)
  <2>1. MarkRetryOrFail(w)
        /\ event[k] = None /\ event' = [event EXCEPT ![k] = d] /\ suppressed' = suppressed
    BY <1>10 DEF PersistThenRaise, InsertEvent
  <2> QED BY <2>1, <1>5
<1>11. CASE RejectInvalid(w)
  BY <1>4, <1>11 DEF RejectInvalid, eventVars
<1>12. CASE RejectStale(w)
  BY <1>4, <1>12 DEF RejectStale, eventVars
<1>13. CASE Transient(w)
  BY <1>5, <1>13 DEF Transient, eventVars
<1> QED BY <1>6, <1>7, <1>8, <1>9, <1>10, <1>11, <1>12, <1>13 DEF EndJob

\* Only the end of a job touches the events.
LEMMA EventsOnlyGrow == TypeInv /\ [Next]_vars => EventsGrow
<1> SUFFICES ASSUME TypeInv, [Next]_vars PROVE EventsGrow
  OBVIOUS
<1>1. CASE \E w \in Workers : EndJob(w)
  BY <1>1, EndJobEvents
<1>2. CASE eventVars' = eventVars
  BY <1>2 DEF EventsGrow, eventVars
<1>3. eventVars' = eventVars \/ \E w \in Workers : EndJob(w)
  BY DEF Next, Work, Fault, Webhook, Receive, Enqueue, EnqueueVanishes, Accept, Refuse, Claim,
     StartWork, Abandon, Crash, Restart, PruneRawBodies, Tick, vars
<1> QED BY <1>1, <1>2, <1>3

\* Once a key has its event, no replay, crash or second delivery replaces it.
THEOREM EventsStayPut == Spec => EventsAreImmutable
<1>1. TypeInv /\ [Next]_vars => [\A k \in Keys : Recorded(k) => event'[k] = event[k]]_vars
  BY EventsOnlyGrow DEF EventsGrow
<1> QED BY <1>1, TypeCorrect, PTL DEF Spec, EventsAreImmutable

LEMMA BackedStep == TypeInv /\ StoredInv /\ CompletionIsBacked /\ [Next]_vars => CompletionIsBacked'
<1> SUFFICES ASSUME TypeInv, StoredInv, CompletionIsBacked, [Next]_vars PROVE CompletionIsBacked'
  OBVIOUS
<1> USE QueueAssumption DEF TypeInv, TypeOK, CompletionIsBacked, Recorded
<1>1. EventsGrow
  BY EventsOnlyGrow
<1>2. ASSUME NEW d \in Deliveries, status[d] = "completed", eventOf'[d] = eventOf[d],
             disposition'[d] = disposition[d]
      PROVE  /\ eventOf'[d] # None
             /\ event'[eventOf'[d]] # None
             /\ IF disposition'[d] = "accepted" THEN event'[KeyOf[d]] = d ELSE suppressed'[eventOf'[d]]
  BY <1>1, <1>2 DEF EventsGrow
<1>3. CASE \E w \in Workers : EndJob(w)
  <2>1. PICK w \in Workers : EndJob(w)
    BY <1>3
  <2>2. SUFFICES ASSUME NEW d \in Deliveries, status'[d] = "completed"
        PROVE  /\ eventOf'[d] # None
               /\ event'[eventOf'[d]] # None
               /\ IF disposition'[d] = "accepted" THEN event'[KeyOf[d]] = d
                                                  ELSE suppressed'[eventOf'[d]]
    OBVIOUS
  <2>3. CASE d = held[w]
    <3>1. /\ eventOf'[d] \in Keys
          /\ event'[eventOf'[d]] # None
          /\ IF disposition'[d] = "accepted" THEN event'[KeyOf[d]] = d
                                             ELSE suppressed'[eventOf'[d]]
      BY <2>1, <2>2, <2>3, EndJobEvents
    <3> QED BY <3>1, QueueAssumption
  <2>4. CASE d # held[w]
    BY <1>2, <2>1, <2>2, <2>4, EndJobEvents
  <2> QED BY <2>3, <2>4
<1>4. CASE \A d \in Deliveries : status'[d] = "completed" =>
             status[d] = "completed" /\ eventOf'[d] = eventOf[d]
               /\ disposition'[d] = disposition[d]
  BY <1>2, <1>4
<1>5. CASE \E w \in Workers : Claim(w)
  <2>1. \A d \in Deliveries : status'[d] = "completed" => status[d] = "completed"
    <3>1. PICK w \in Workers : Claim(w)
      BY <1>5
    <3>2. PICK d \in Deliveries : status' = [status EXCEPT ![d] = "processing"]
      BY <3>1, ClaimFrame
    <3> QED BY <3>2 DEF TypeInv, TypeOK
  <2>2. eventOf' = eventOf /\ disposition' = disposition
    BY <1>5 DEF Claim
  <2> QED BY <1>4, <2>1, <2>2
<1>6. CASE \E d \in Deliveries : Enqueue(d)
  BY <1>4, <1>6 DEF Enqueue
<1>7. CASE status' = status /\ eventOf' = eventOf /\ disposition' = disposition
  BY <1>4, <1>7
<1>8. \/ \E w \in Workers : EndJob(w) \/ Claim(w)
      \/ \E d \in Deliveries : Enqueue(d)
      \/ status' = status /\ eventOf' = eventOf /\ disposition' = disposition
  <2>1. CASE \E d \in Deliveries : Webhook(d)
    BY <2>1 DEF Webhook, Receive, EnqueueVanishes, Accept, Refuse, rowVars
  <2>2. CASE \E w \in Workers : Work(w)
    BY <2>2 DEF Work, StartWork, rowVars
  <2>3. CASE Fault
    BY <2>3 DEF Fault, Abandon, Crash, rowVars
  <2>4. CASE Restart \/ PruneRawBodies \/ Tick
    BY <2>4 DEF Restart, PruneRawBodies, Tick, rowVars
  <2>5. CASE UNCHANGED vars
    BY <2>5 DEF vars, rowVars
  <2> QED BY <2>1, <2>2, <2>3, <2>4, <2>5 DEF Next
<1> QED BY <1>3, <1>5, <1>6, <1>7, <1>8

\* Every completed delivery points at an event that exists and accounts for it.
THEOREM CompletedStaysBacked == Spec => []CompletionIsBacked
<1>1. Init => CompletionIsBacked
  BY DEF Init, CompletionIsBacked
<1>2. TypeInv /\ StoredInv /\ CompletionIsBacked /\ [Next]_vars => CompletionIsBacked'
  BY BackedStep
<1> QED BY <1>1, <1>2, StoredCorrect, PTL DEF Spec

-----------------------------------------------------------------------------
(* What needs a job to end within its lease.  While a worker holds a row,    *)
(* leaseLeft + age = Lease and age <= JobBudget < Lease, so the row is not   *)
(* runnable: that is why no second worker can take it.                       *)

LeaseInv == SoleHolder /\ HolderIsCurrent /\ PendingHasBudget

QueueInv == TypeInv /\ StoredInv /\ LeaseInv

\* A row somebody holds cannot be claimed.
LEMMA HeldIsNotRunnable ==
  ASSUME JobBudget < Lease, QueueInv, NEW w \in Workers, phase[w] # "idle"
  PROVE  ~Runnable(held[w])
<1>1. held[w] \in Deliveries /\ age[w] \in 0..JobBudget /\ leaseLeft[held[w]] \in 0..Lease
  BY BusyHolds DEF QueueInv, TypeInv, TypeOK
<1>2. status[held[w]] = "processing" /\ leaseLeft[held[w]] + age[w] = Lease
  BY DEF QueueInv, LeaseInv, HolderIsCurrent
<1>3. leaseLeft[held[w]] # 0
  BY <1>1, <1>2, QueueAssumption
<1> QED BY <1>2, <1>3 DEF Runnable

LEMMA LeaseInit == Init => LeaseInv
BY DEF Init, LeaseInv, SoleHolder, HolderIsCurrent, PendingHasBudget

LEMMA LeaseClaim ==
  ASSUME JobBudget < Lease, QueueInv, NEW w \in Workers, Claim(w)
  PROVE  LeaseInv'
<1> USE DEF QueueInv, LeaseInv, TypeInv, TypeOK
<1>1. PICK d \in Deliveries, n \in 1..AttemptCeiling :
           /\ Runnable(d)
           /\ status' = [status EXCEPT ![d] = "processing"]
           /\ attempts' = [attempts EXCEPT ![d] = n]
           /\ leaseLeft' = [leaseLeft EXCEPT ![d] = Lease]
           /\ held' = [held EXCEPT ![w] = d]
           /\ attempt' = [attempt EXCEPT ![w] = n]
           /\ phase' = [phase EXCEPT ![w] = "claimed"]
           /\ age' = [age EXCEPT ![w] = 0]
  BY ClaimFrame
<1>2. \A v \in Workers : held[v] # d
  <2> SUFFICES ASSUME NEW v \in Workers, held[v] = d PROVE FALSE
    OBVIOUS
  <2>1. phase[v] # "idle"
    BY QueueAssumption DEF IdleHoldsNothing
  <2> QED BY <1>1, <2>1, HeldIsNotRunnable
<1>3. SoleHolder'
  BY <1>1, <1>2 DEF SoleHolder
<1>4. HolderIsCurrent'
  <2> SUFFICES ASSUME NEW v \in Workers, phase'[v] # "idle"
      PROVE  /\ status'[held'[v]] = "processing"
             /\ attempts'[held'[v]] = attempt'[v]
             /\ leaseLeft'[held'[v]] + age'[v] = Lease
    BY DEF HolderIsCurrent
  <2>1. CASE v = w
    BY <1>1, <2>1, QueueAssumption
  <2>2. CASE v # w
    <3>1. /\ phase[v] # "idle" /\ held'[v] = held[v] /\ held[v] # d
          /\ attempt'[v] = attempt[v] /\ age'[v] = age[v]
      BY <1>1, <1>2, <2>2
    <3>2. held[v] \in Deliveries
      BY <3>1, BusyHolds
    <3> QED BY <1>1, <3>1, <3>2 DEF HolderIsCurrent
  <2> QED BY <2>1, <2>2
<1>5. PendingHasBudget'
  BY <1>1 DEF PendingHasBudget
<1> QED BY <1>3, <1>4, <1>5

LEMMA LeaseEndJob ==
  ASSUME JobBudget < Lease, QueueInv, NEW w \in Workers, EndJob(w)
  PROVE  LeaseInv'
<1> USE DEF QueueInv, LeaseInv, TypeInv, TypeOK
<1>1. PICK s \in Terminal \cup {"pending"} :
        /\ status' = [status EXCEPT ![held[w]] = s]
        /\ s = "pending" => attempt[w] < MaxAttempts
  BY EndJobFrame
<1>2. /\ phase[w] # "idle" /\ held[w] \in Deliveries
      /\ leaseLeft' = [leaseLeft EXCEPT ![held[w]] = 0]
      /\ attempts' = attempts /\ Release(w)
  BY EndJobFrame
<1>3. SoleHolder'
  BY <1>2 DEF SoleHolder, Release
<1>4. HolderIsCurrent'
  <2> SUFFICES ASSUME NEW v \in Workers, phase'[v] # "idle"
      PROVE  /\ status'[held'[v]] = "processing"
             /\ attempts'[held'[v]] = attempt'[v]
             /\ leaseLeft'[held'[v]] + age'[v] = Lease
    BY DEF HolderIsCurrent
  <2>1. /\ v # w /\ phase[v] # "idle" /\ held'[v] = held[v]
        /\ attempt'[v] = attempt[v] /\ age'[v] = age[v]
    BY <1>2 DEF Release
  <2>2. held[v] \in Deliveries /\ held[v] # held[w]
    BY <1>2, <2>1, BusyHolds, QueueAssumption DEF SoleHolder
  <2> QED BY <1>1, <1>2, <2>1, <2>2 DEF HolderIsCurrent
<1>5. PendingHasBudget'
  BY <1>1, <1>2 DEF PendingHasBudget, HolderIsCurrent
<1> QED BY <1>3, <1>4, <1>5

LEMMA LeaseTick ==
  ASSUME JobBudget < Lease, QueueInv, Tick
  PROVE  LeaseInv'
<1> USE DEF QueueInv, LeaseInv, TypeInv, TypeOK
<1>1. /\ leaseLeft' = [d \in Deliveries |-> Down(leaseLeft[d])]
      /\ age' = [w \in Workers |-> IF phase[w] = "idle" THEN 0 ELSE age[w] + 1]
      /\ UNCHANGED <<status, attempts, phase, held, attempt>>
  BY DEF Tick
<1>2. HolderIsCurrent'
  <2> SUFFICES ASSUME NEW v \in Workers, phase[v] # "idle"
      PROVE  /\ status[held[v]] = "processing"
             /\ attempts[held[v]] = attempt[v]
             /\ leaseLeft'[held[v]] + age'[v] = Lease
    BY <1>1 DEF HolderIsCurrent
  <2>1. /\ held[v] \in Deliveries /\ age[v] \in 0..JobBudget
        /\ leaseLeft[held[v]] \in 0..Lease /\ leaseLeft[held[v]] + age[v] = Lease
    BY BusyHolds DEF HolderIsCurrent
  <2>2. leaseLeft[held[v]] > 0
    BY <2>1, QueueAssumption
  <2>3. leaseLeft'[held[v]] = leaseLeft[held[v]] - 1 /\ age'[v] = age[v] + 1
    BY <1>1, <2>1, <2>2 DEF Down
  <2> QED BY <2>1, <2>3, QueueAssumption DEF HolderIsCurrent
<1>3. SoleHolder' /\ PendingHasBudget'
  BY <1>1 DEF SoleHolder, PendingHasBudget
<1> QED BY <1>2, <1>3

LEMMA LeaseStep == JobBudget < Lease /\ QueueInv /\ [Next]_vars => LeaseInv'
<1> SUFFICES ASSUME JobBudget < Lease, QueueInv, [Next]_vars PROVE LeaseInv'
  OBVIOUS
<1> USE DEF QueueInv, LeaseInv, SoleHolder, HolderIsCurrent, PendingHasBudget, TypeInv, TypeOK,
        rowVars, webhookVars, workerVars
<1>0. \A w \in Workers : phase[w] # "idle" => held[w] \in Deliveries
  BY BusyHolds
<1>1. CASE \E d \in Deliveries : Enqueue(d)
  BY <1>0, <1>1, QueueAssumption DEF Enqueue, StoredInv, RowStored
<1>2. CASE \E w \in Workers : Claim(w)
  BY <1>2, LeaseClaim
<1>3. CASE \E w \in Workers : StartWork(w)
  BY <1>0, <1>3 DEF StartWork, Holds
<1>4. CASE \E w \in Workers : EndJob(w)
  BY <1>4, LeaseEndJob
<1>5. CASE \E w \in Workers : Abandon(w)
  BY <1>0, <1>5 DEF Abandon, Release
<1>6. CASE Crash
  BY <1>6 DEF Crash, ForgetMemory
<1>7. CASE Tick
  BY <1>7, LeaseTick
<1>8. CASE UNCHANGED <<status, attempts, leaseLeft, workerVars>>
  BY <1>8
<1>9. CASE \E d \in Deliveries : Receive(d) \/ EnqueueVanishes(d) \/ Accept(d) \/ Refuse(d)
  BY <1>8, <1>9 DEF Receive, EnqueueVanishes, Accept, Refuse
<1>10. CASE Restart \/ PruneRawBodies \/ UNCHANGED vars
  BY <1>8, <1>10 DEF Restart, PruneRawBodies, vars
<1> QED BY <1>1, <1>2, <1>3, <1>4, <1>5, <1>6, <1>7, <1>9, <1>10
    DEF Next, Work, Fault, Webhook

\* When every job ends within its lease, no two workers ever hold the same
\* delivery, and what each remembers of it is what its row says.
THEOREM QueueCorrect == ASSUME JobBudget < Lease PROVE Spec => []QueueInv
<1>1. Init => QueueInv
  BY TypeInit, StoredInit, LeaseInit DEF QueueInv
<1>2. QueueInv /\ [Next]_vars => QueueInv'
  BY TypeStep, StoredStep, LeaseStep DEF QueueInv
<1> QED BY <1>1, <1>2, PTL DEF Spec

\* No two workers ever process the same delivery.
THEOREM NoDoubleProcessing == ASSUME JobBudget < Lease PROVE Spec => []SoleHolder
<1>1. QueueInv => SoleHolder
  BY DEF QueueInv, LeaseInv
<1> QED BY <1>1, QueueCorrect, PTL

\* The unfenced final write of a job never overwrites somebody else's work.
THEOREM HeldRowIsCurrent == ASSUME JobBudget < Lease PROVE Spec => []HolderIsCurrent
<1>1. QueueInv => HolderIsCurrent
  BY DEF QueueInv, LeaseInv
<1> QED BY <1>1, QueueCorrect, PTL

\* A delivery waiting for another try has one left.
THEOREM RetriesLeft == ASSUME JobBudget < Lease PROVE Spec => []PendingHasBudget
<1>1. QueueInv => PendingHasBudget
  BY DEF QueueInv, LeaseInv
<1> QED BY <1>1, QueueCorrect, PTL

-----------------------------------------------------------------------------
(* Finality: a job only writes to the row it holds, which is in processing. *)

RowKept(d) ==
  /\ status'[d] = status[d]
  /\ disposition'[d] = disposition[d]
  /\ eventOf'[d] = eventOf[d]
  /\ attempts'[d] = attempts[d]

LEMMA TerminalRowKept ==
  ASSUME JobBudget < Lease, QueueInv, [Next]_vars, NEW d \in Deliveries, status[d] \in Terminal
  PROVE  RowKept(d)
<1> USE DEF RowKept
<1>0. TypeInv /\ StoredInv /\ LeaseInv /\ TypeOK
  BY DEF QueueInv, TypeInv
<1>1. CASE \E w \in Workers : EndJob(w)
  <2>1. PICK w \in Workers : EndJob(w)
    BY <1>1
  <2>2. d # held[w]
    <3>1. phase[w] # "idle"
      BY <1>0, <2>1, EndJobFrame
    <3> QED BY <1>0, <3>1 DEF LeaseInv, HolderIsCurrent, Terminal
  <2>3. attempts' = attempts
    BY <1>0, <2>1, EndJobFrame
  <2> QED BY <1>0, <2>1, <2>2, <2>3, EndJobEvents
<1>2. CASE \E w \in Workers : Claim(w)
  <2>0. PICK w \in Workers : Claim(w)
    BY <1>2
  <2>1. PICK e \in Deliveries, n \in 1..AttemptCeiling :
          /\ Runnable(e)
          /\ status' = [status EXCEPT ![e] = "processing"]
          /\ attempts' = [attempts EXCEPT ![e] = n]
    BY <1>0, <2>0, ClaimFrame
  <2>2. d # e
    BY <2>1 DEF Runnable, Terminal
  <2>3. eventOf' = eventOf /\ disposition' = disposition
    BY <1>2 DEF Claim
  <2> QED BY <1>0, <2>1, <2>2, <2>3 DEF TypeOK
<1>3. CASE \E e \in Deliveries : Enqueue(e)
  <2>1. PICK e \in Deliveries : Enqueue(e)
    BY <1>3
  <2>2. status[e] = "absent"
    BY <1>0, <2>1 DEF Enqueue, StoredInv, RowStored
  <2>3. d # e
    BY <2>2 DEF Terminal
  <2> QED BY <1>0, <2>1, <2>3 DEF Enqueue, TypeOK
<1>4. CASE UNCHANGED <<status, disposition, eventOf, attempts>>
  BY <1>4
<1>5. \/ \E w \in Workers : EndJob(w) \/ Claim(w)
      \/ \E e \in Deliveries : Enqueue(e)
      \/ UNCHANGED <<status, disposition, eventOf, attempts>>
  BY DEF Next, Work, Fault, Webhook, Receive, EnqueueVanishes, Accept, Refuse, rowVars,
     StartWork, Abandon, Crash, Restart, PruneRawBodies, Tick, vars
<1> QED BY <1>1, <1>2, <1>3, <1>4, <1>5

\* Completed, rejected and failed are final.
THEOREM TerminalStaysFinal == ASSUME JobBudget < Lease PROVE Spec => TerminalIsFinal
<1> DEFINE Kept == \A d \in Deliveries : status[d] \in Terminal =>
       status'[d] = status[d] /\ disposition'[d] = disposition[d]
         /\ eventOf'[d] = eventOf[d] /\ attempts'[d] = attempts[d]
<1>1. QueueInv /\ [Next]_vars => [Kept]_vars
  BY TerminalRowKept DEF RowKept
<1> QED BY <1>1, QueueCorrect, PTL DEF Spec, TerminalIsFinal

-----------------------------------------------------------------------------
(* The queue implements the ingest contract. *)

Stored   == {d \in Deliveries : status[d] # "absent"}
Promised == {d \in Deliveries : request[d] = "accepted"}
KeysDone == {k \in Keys : Recorded(k)}
Outcomes == [d \in Deliveries |-> Outcome(d)]

LEMMA ContractInit == Init => Contract!Init
BY DEF Init, Contract!Init, Outcome, Recorded

\* Enqueue stores, Accept promises; the rest of the webhook is a stutter.
LEMMA ContractWebhook ==
  ASSUME QueueInv, NEW d \in Deliveries, Webhook(d)
  PROVE  [Contract!Next]_Contract!contractVars
<1> USE DEF QueueInv, TypeInv, TypeOK, rowVars, eventVars, workerVars, Recorded
<1>1. CASE Enqueue(d)
  <2>1. status[d] = "absent"
    BY <1>1 DEF Enqueue, StoredInv, RowStored
  <2>2. status' = [status EXCEPT ![d] = "pending"] /\ request' = [request EXCEPT ![d] = "committed"]
        /\ event' = event /\ request[d] # "accepted"
    BY <1>1 DEF Enqueue
  <2>3. Stored' = Stored \cup {d} /\ d \notin Stored /\ Promised' = Promised
        /\ KeysDone' = KeysDone
    BY <2>1, <2>2 DEF Stored, Promised, KeysDone
  <2>4. Outcomes' = Outcomes
    BY <2>1, <2>2 DEF Outcomes, Outcome
  <2> QED BY <2>3, <2>4 DEF Contract!Next, Contract!Store, Stored, Promised, KeysDone, Outcomes
<1>2. CASE Accept(d)
  <2>1. status' = status /\ event' = event /\ request' = [request EXCEPT ![d] = "accepted"]
        /\ request[d] = "committed" /\ status[d] # "absent"
    BY <1>2 DEF Accept
  <2>2. Stored' = Stored /\ KeysDone' = KeysDone /\ Outcomes' = Outcomes
        /\ Promised' = Promised \cup {d} /\ d \in Stored \ Promised
    BY <2>1 DEF Stored, Promised, KeysDone, Outcomes, Outcome
  <2> QED BY <2>2 DEF Contract!Next, Contract!Promise, Stored, Promised, KeysDone, Outcomes
<1>3. CASE Receive(d) \/ EnqueueVanishes(d) \/ Refuse(d)
  <2>1. status' = status /\ event' = event
        /\ \A e \in Deliveries : request'[e] = "accepted" <=> request[e] = "accepted"
    BY <1>3 DEF Receive, EnqueueVanishes, Refuse
  <2> QED BY <2>1 DEF Contract!contractVars, Outcome
<1> QED BY <1>1, <1>2, <1>3 DEF Webhook

\* The end of a job is the recording of its key, or its delivery coming to
\* rest, or both at once, or (a retry) neither.
LEMMA ContractEndJob ==
  ASSUME JobBudget < Lease, QueueInv, NEW w \in Workers, EndJob(w)
  PROVE  [Contract!Next]_Contract!contractVars
<1> DEFINE d == held[w]
           k == KeyHeld(w)
<1> USE DEF QueueInv, TypeInv, TypeOK
<1>1. /\ d \in Deliveries /\ status[d] = "processing" /\ request' = request
      /\ k = KeyOf[d] /\ k \in Keys /\ d # None
  <2>1. phase[w] # "idle" /\ d \in Deliveries /\ request' = request
    BY EndJobFrame
  <2>2. status[d] = "processing"
    BY <2>1 DEF LeaseInv, HolderIsCurrent
  <2> QED BY <2>1, <2>2, QueueAssumption DEF KeyHeld
<1>2. PICK s \in Terminal \cup {"pending"} : status' = [status EXCEPT ![d] = s]
  BY EndJobFrame
<1>3. /\ Stored' = Stored /\ Promised' = Promised
      /\ d \in Stored /\ Outcomes[d] = "open"
  BY <1>1, <1>2 DEF Stored, Promised, Outcomes, Outcome, Terminal
<1>4. PICK o \in {"open", "kept", "dropped"} :
        /\ Outcomes' = [Outcomes EXCEPT ![d] = o]
        /\ s = "completed" <=> o = "kept"
        /\ s = "pending" <=> o = "open"
  <2>1. status'[d] = s /\ \A e \in Deliveries : e # d => status'[e] = status[e]
    BY <1>1, <1>2
  <2>2. CASE s = "completed"
    BY <1>1, <1>2, <2>1, <2>2 DEF Outcomes, Outcome
  <2>3. CASE s \in {"rejected", "failed"}
    BY <1>1, <1>2, <2>1, <2>3 DEF Outcomes, Outcome
  <2>4. CASE s = "pending"
    BY <1>1, <1>2, <2>1, <2>4 DEF Outcomes, Outcome
  <2> QED BY <1>2, <2>2, <2>3, <2>4 DEF Terminal
<1>5. CASE /\ event[k] = None /\ event' = [event EXCEPT ![k] = d]
  <2>1. k \notin KeysDone /\ KeysDone' = KeysDone \cup {k}
    BY <1>1, <1>5 DEF KeysDone, Recorded
  <2> QED BY <1>1, <1>3, <1>4, <2>1 DEF Contract!Next, Contract!Record, Stored, Promised,
            KeysDone, Outcomes
<1>6. CASE event' = event /\ s \notin {"completed", "pending"}
  <2>1. KeysDone' = KeysDone /\ o = "dropped"
    BY <1>4, <1>6 DEF KeysDone, Recorded
  <2> QED BY <1>1, <1>3, <1>4, <2>1 DEF Contract!Next, Contract!Drop, Stored, Promised,
            KeysDone, Outcomes
<1>7. CASE event' = event /\ s = "pending"
  <2>1. KeysDone' = KeysDone /\ Outcomes' = Outcomes
    BY <1>1, <1>2, <1>7 DEF KeysDone, Recorded, Outcomes, Outcome
  <2> QED BY <1>3, <2>1 DEF Contract!contractVars, Stored, Promised, KeysDone, Outcomes
<1>8. CASE event' = event /\ (\E j \in Keys : event[j] # None) /\ s = "completed"
  <2>1. KeysDone' = KeysDone /\ KeysDone # {} /\ o = "kept"
    BY <1>4, <1>8 DEF KeysDone, Recorded
  <2> QED BY <1>1, <1>3, <1>4, <2>1 DEF Contract!Next, Contract!Keep, Stored, Promised,
            KeysDone, Outcomes
<1>9. \/ event[k] = None /\ event' = [event EXCEPT ![k] = d]
      \/ event' = event /\ \E j \in Keys : event[j] # None
      \/ event' = event /\ s # "completed"
  <2>1. MarkRetryOrFail(w) => s # "completed"
    BY <1>1, <1>2 DEF MarkRetryOrFail, RetryOrFail
  <2>2. \A disp : MarkRejected(w, disp) => s # "completed"
    BY <1>1, <1>2 DEF MarkRejected
  <2> QED BY <1>1, <2>1, <2>2 DEF EndJob, SuppressDelivery, RejectInvalid, RejectStale, Transient,
            SuppressContent, Persist, PersistThenRaise, LoseRace, InsertEvent, Recorded, eventVars
<1> QED BY <1>2, <1>5, <1>6, <1>7, <1>8, <1>9 DEF Terminal

LEMMA ContractStep ==
  ASSUME JobBudget < Lease, QueueInv, [Next]_vars
  PROVE  [Contract!Next]_Contract!contractVars
<1>1. CASE \E d \in Deliveries : Webhook(d)
  BY <1>1, ContractWebhook
<1>2. CASE \E w \in Workers : EndJob(w)
  BY <1>2, ContractEndJob
<1>3. CASE \E w \in Workers : Claim(w)
  <2>1. PICK w \in Workers : Claim(w)
    BY <1>3
  <2>2. PICK e \in Deliveries : /\ Runnable(e)
                                /\ status' = [status EXCEPT ![e] = "processing"]
                                /\ request' = request
    BY <2>1, ClaimFrame DEF QueueInv
  <2>3. event' = event
    BY <2>1 DEF Claim, eventVars
  <2>4. status[e] \in {"pending", "processing"}
    BY <2>2 DEF Runnable
  <2>5. Stored' = Stored /\ Promised' = Promised /\ KeysDone' = KeysDone
    BY <2>2, <2>3, <2>4 DEF QueueInv, TypeInv, TypeOK, Stored, Promised, KeysDone, Recorded
  <2>6. Outcomes' = Outcomes
    BY <2>2, <2>4 DEF QueueInv, TypeInv, TypeOK, Outcomes, Outcome
  <2> QED BY <2>5, <2>6 DEF Contract!contractVars, Stored, Promised, KeysDone, Outcomes
<1>4. CASE Crash
  <2>1. \A d \in Deliveries : request'[d] = "accepted" <=> request[d] = "accepted"
    BY <1>4 DEF Crash, ForgetMemory, QueueInv, TypeInv, TypeOK
  <2>2. status' = status /\ event' = event
    BY <1>4 DEF Crash, rowVars, eventVars
  <2> QED BY <2>1, <2>2 DEF Contract!contractVars, Outcome, Recorded
<1>5. CASE UNCHANGED <<status, event, request>>
  BY <1>5 DEF Contract!contractVars, Outcome, Recorded
<1> QED BY <1>1, <1>2, <1>3, <1>4, <1>5 DEF Next, Work, Fault, StartWork, Abandon, Restart,
          PruneRawBodies, Tick, vars, rowVars, eventVars, webhookVars

\* With jobs that end within their lease, the queue with all its retries,
\* reclaims and crashes implements the ingest contract.
THEOREM QueueImplementsContract == ASSUME JobBudget < Lease PROVE Spec => ImplementsContract
<1>1. Init => Contract!Init
  BY ContractInit
<1>2. QueueInv /\ [Next]_vars => [Contract!Next]_Contract!contractVars
  BY ContractStep
<1> QED BY <1>1, <1>2, QueueCorrect, PTL DEF Spec, ImplementsContract, Contract!Spec
=============================================================================
