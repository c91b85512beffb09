--------------------------- MODULE DeliveryQueue ---------------------------
(***************************************************************************)
(* The table event_deliveries as a durable work queue: the webhook that    *)
(* fills it, the ingest workers that claim from it under a lease, the       *)
(* pipeline outcomes they write back, retention, and process crashes.       *)
(*                                                                         *)
(* Every database transaction of the code is one action.  What a worker    *)
(* keeps in memory between two transactions (the delivery it holds, the     *)
(* attempt number and the body it read when it claimed) is state of its     *)
(* own, because nothing rereads or fences it before the final write.        *)
(*                                                                         *)
(* Time is relative: a timestamp in a row is the number of ticks until it  *)
(* lies in the past, so Tick counts timers down and no clock grows.         *)
(***************************************************************************)
EXTENDS Integers, Sequences

CONSTANTS
  Deliveries,   (* webhooks Home Assistant may post                        *)
  Keys,         (* delivery keys; two deliveries may carry the same one    *)
  KeyOf,        (* the key of each delivery                                *)
  Workers,      (* ingest_worker_concurrency tasks                         *)
  MaxAttempts,  (* ingest_max_attempts                                     *)
  Lease,        (* ingest_lease_seconds, in ticks                          *)
  JobBudget,    (* most ticks one job spends between claim and final write *)
  BackoffBase,  (* backoff_base_seconds, in ticks                          *)
  BackoffCap,   (* the 300 s ceiling of a backoff, in ticks                *)
  Retention,    (* delivery_raw_retention_days, in ticks                   *)
  None          (* no delivery, no event, no disposition                   *)

ASSUME QueueAssumption ==
  /\ KeyOf \in [Deliveries -> Keys]
  /\ MaxAttempts \in Nat \ {0}
  /\ Lease \in Nat \ {0}
  /\ JobBudget \in Nat
  /\ BackoffBase \in Nat
  /\ BackoffCap \in Nat
  /\ Retention \in Nat \ {0}
  /\ None \notin Deliveries \cup Keys

VARIABLES
  \* rows of event_deliveries
  status,       (* "absent" until the row is committed, then its status    *)
  attempts,     (* claims so far, counted up to AttemptCeiling             *)
  dueIn,        (* ticks until next_attempt_at is reached                  *)
  leaseLeft,    (* ticks until lease_expires_at lies in the past; 0 = NULL *)
  body,         (* raw_body is not NULL                                    *)
  keepFor,      (* ticks until received_at falls behind the retention line *)
  disposition,  (* disposition column                                      *)
  eventOf,      (* event_id column, as the key of that event               *)
  \* rows of events
  event,        (* per key, the delivery whose job inserted the event      *)
  suppressed,   (* per key, duplicate_count > 0                            *)
  \* memory of the process
  up,           (* the process runs                                        *)
  request,      (* where each webhook request stands                       *)
  arrival,      (* deliveries in the order of received_at                  *)
  phase,        (* per worker: "idle", "claimed" or "working"              *)
  held,         (* per worker: the delivery it holds                       *)
  attempt,      (* per worker: delivery.attempts as read at the claim      *)
  readable,     (* per worker: raw_body was there when it was read         *)
  age           (* per worker: ticks since the claim                       *)

rowVars     == <<status, attempts, dueIn, leaseLeft, body, keepFor, disposition, eventOf>>
eventVars   == <<event, suppressed>>
webhookVars == <<request, arrival>>
workerVars  == <<phase, held, attempt, readable, age>>
vars == <<rowVars, eventVars, up, webhookVars, workerVars>>

Terminal == {"completed", "rejected", "failed"}
Statuses == {"absent", "pending", "processing"} \cup Terminal
Dispositions ==
  {"accepted", "duplicate_delivery", "duplicate_content",
   "rejected_invalid", "rejected_stale_image"}

\* attempts is only ever compared with MaxAttempts and fed to a capped
\* backoff, so counting beyond MaxAttempts + 1 distinguishes nothing.
AttemptCeiling == MaxAttempts + 1

TypeOK ==
  /\ status \in [Deliveries -> Statuses]
  /\ attempts \in [Deliveries -> 0..AttemptCeiling]
  /\ dueIn \in [Deliveries -> 0..BackoffCap]
  /\ leaseLeft \in [Deliveries -> 0..Lease]
  /\ body \in [Deliveries -> BOOLEAN]
  /\ keepFor \in [Deliveries -> 0..Retention]
  /\ disposition \in [Deliveries -> Dispositions \cup {None}]
  /\ eventOf \in [Deliveries -> Keys \cup {None}]
  /\ event \in [Keys -> Deliveries \cup {None}]
  /\ suppressed \in [Keys -> BOOLEAN]
  /\ up \in BOOLEAN
  /\ request \in [Deliveries ->
       {"unsent", "stamped", "committed", "accepted", "refused", "dropped"}]
  /\ arrival \in Seq(Deliveries)
  /\ phase \in [Workers -> {"idle", "claimed", "working"}]
  /\ held \in [Workers -> Deliveries \cup {None}]
  /\ attempt \in [Workers -> 0..AttemptCeiling]
  /\ readable \in [Workers -> BOOLEAN]
  /\ age \in [Workers -> 0..JobBudget]

Init ==
  /\ status = [d \in Deliveries |-> "absent"]
  /\ attempts = [d \in Deliveries |-> 0]
  /\ dueIn = [d \in Deliveries |-> 0]
  /\ leaseLeft = [d \in Deliveries |-> 0]
  /\ body = [d \in Deliveries |-> FALSE]
  /\ keepFor = [d \in Deliveries |-> 0]
  /\ disposition = [d \in Deliveries |-> None]
  /\ eventOf = [d \in Deliveries |-> None]
  /\ event = [k \in Keys |-> None]
  /\ suppressed = [k \in Keys |-> FALSE]
  /\ up = TRUE
  /\ request = [d \in Deliveries |-> "unsent"]
  /\ arrival = <<>>
  /\ phase = [w \in Workers |-> "idle"]
  /\ held = [w \in Workers |-> None]
  /\ attempt = [w \in Workers |-> 0]
  /\ readable = [w \in Workers |-> FALSE]
  /\ age = [w \in Workers |-> 0]

-----------------------------------------------------------------------------
(* The webhook, receive_home_assistant_event. *)

\* received_at is read before the transaction that stores the row.
Receive(d) ==
  /\ up
  /\ request[d] = "unsent"
  /\ request' = [request EXCEPT ![d] = "stamped"]
  /\ arrival' = Append(arrival, d)
  /\ UNCHANGED <<rowVars, eventVars, up, workerVars>>

\* The row is committed: pending, due at once, with its body.
Enqueue(d) ==
  /\ up
  /\ request[d] = "stamped"
  /\ request' = [request EXCEPT ![d] = "committed"]
  /\ status' = [status EXCEPT ![d] = "pending"]
  /\ body' = [body EXCEPT ![d] = TRUE]
  /\ keepFor' = [keepFor EXCEPT ![d] = Retention]
  /\ UNCHANGED <<attempts, dueIn, leaseLeft, disposition, eventOf, eventVars,
                 up, arrival, workerVars>>

\* The commit reports success and the row never becomes visible: the failure
\* of 2026-09-09 that the confirmation exists for.
EnqueueVanishes(d) ==
  /\ up
  /\ request[d] = "stamped"
  /\ request' = [request EXCEPT ![d] = "committed"]
  /\ UNCHANGED <<rowVars, eventVars, up, arrival, workerVars>>

\* Seeded fault: 202 without the confirming read.
AcceptUnconfirmed(d) ==
  /\ up
  /\ request[d] = "committed"
  /\ request' = [request EXCEPT ![d] = "accepted"]
  /\ UNCHANGED <<rowVars, eventVars, up, arrival, workerVars>>

\* confirm_delivery_durable saw the row through a fresh connection: 202.
Accept(d) ==
  /\ up
  /\ request[d] = "committed"
  /\ status[d] # "absent"
  /\ request' = [request EXCEPT ![d] = "accepted"]
  /\ UNCHANGED <<rowVars, eventVars, up, arrival, workerVars>>

\* 5xx: the insert raised, the row is not there, or the confirmation itself
\* failed although it is (and then the row is processed all the same).
Refuse(d) ==
  /\ up
  /\ request[d] \in {"stamped", "committed"}
  /\ request' = [request EXCEPT ![d] = "refused"]
  /\ UNCHANGED <<rowVars, eventVars, up, arrival, workerVars>>

-----------------------------------------------------------------------------
(* Claiming: DeliveryRepository.claim_next and the read that follows it. *)

\* Seeded faults: a claim that ignores the lease, one that never reclaims, and
\* one that filters on next_attempt_at alone.
RunnableIgnoringLease(d) ==
  status[d] = "processing" \/ (status[d] = "pending" /\ dueIn[d] = 0)
RunnableNeverReclaimed(d) == status[d] = "pending" /\ dueIn[d] = 0
RunnableByDueTime(d) ==
  \/ status[d] \notin {"absent", "processing"} /\ dueIn[d] = 0
  \/ status[d] = "processing" /\ leaseLeft[d] = 0

Runnable(d) ==
  \/ status[d] = "pending" /\ dueIn[d] = 0
  \/ status[d] = "processing" /\ leaseLeft[d] = 0

Earlier(d, e) == \E i, j \in DOMAIN arrival : i < j /\ arrival[i] = d /\ arrival[j] = e

\* Seeded fault: the claim does not set lease_expires_at.
ClaimWithoutLease(w) ==
  /\ up
  /\ phase[w] = "idle"
  /\ \E d \in Deliveries :
       LET n == IF attempts[d] < AttemptCeiling THEN attempts[d] + 1 ELSE attempts[d] IN
       /\ Runnable(d)
       /\ status' = [status EXCEPT ![d] = "processing"]
       /\ attempts' = [attempts EXCEPT ![d] = n]
       /\ held' = [held EXCEPT ![w] = d]
       /\ attempt' = [attempt EXCEPT ![w] = n]
       /\ readable' = [readable EXCEPT ![w] = body[d]]
  /\ phase' = [phase EXCEPT ![w] = "claimed"]
  /\ age' = [age EXCEPT ![w] = 0]
  /\ UNCHANGED <<dueIn, leaseLeft, body, keepFor, disposition, eventOf, eventVars, up,
                 webhookVars>>

\* One UPDATE ... RETURNING: the oldest runnable row, whoever held it before.
Claim(w) ==
  /\ up
  /\ phase[w] = "idle"
  /\ \E d \in Deliveries :
       LET n == IF attempts[d] < AttemptCeiling THEN attempts[d] + 1 ELSE attempts[d] IN
       /\ Runnable(d)
       /\ \A e \in Deliveries : Runnable(e) => ~Earlier(e, d)
       /\ status' = [status EXCEPT ![d] = "processing"]
       /\ attempts' = [attempts EXCEPT ![d] = n]
       /\ leaseLeft' = [leaseLeft EXCEPT ![d] = Lease]
       /\ held' = [held EXCEPT ![w] = d]
       /\ attempt' = [attempt EXCEPT ![w] = n]
       /\ readable' = [readable EXCEPT ![w] = body[d]]
  /\ phase' = [phase EXCEPT ![w] = "claimed"]
  /\ age' = [age EXCEPT ![w] = 0]
  /\ UNCHANGED <<dueIn, body, keepFor, disposition, eventOf, eventVars, up, webhookVars>>

-----------------------------------------------------------------------------
(* The writes that end a job.  Each is an ORM UPDATE by primary key with no *)
(* condition on status, attempts or lease: it lands whatever the row says   *)
(* by then.                                                                 *)

Release(w) ==
  /\ phase' = [phase EXCEPT ![w] = "idle"]
  /\ held' = [held EXCEPT ![w] = None]
  /\ attempt' = [attempt EXCEPT ![w] = 0]
  /\ readable' = [readable EXCEPT ![w] = FALSE]
  /\ age' = [age EXCEPT ![w] = 0]

\* Seeded fault: the completed delivery is not linked to its event.
MarkCompletedUnlinked(w, disp, k) ==
  LET d == held[w] IN
  /\ status' = [status EXCEPT ![d] = "completed"]
  /\ leaseLeft' = [leaseLeft EXCEPT ![d] = 0]
  /\ disposition' = [disposition EXCEPT ![d] = disp]
  /\ Release(w)
  /\ UNCHANGED <<attempts, dueIn, body, keepFor, eventOf, up, webhookVars>>

MarkCompleted(w, disp, k) ==
  LET d == held[w] IN
  /\ status' = [status EXCEPT ![d] = "completed"]
  /\ leaseLeft' = [leaseLeft EXCEPT ![d] = 0]
  /\ disposition' = [disposition EXCEPT ![d] = disp]
  /\ eventOf' = [eventOf EXCEPT ![d] = k]
  /\ Release(w)
  /\ UNCHANGED <<attempts, dueIn, body, keepFor, up, webhookVars>>

MarkRejected(w, disp) ==
  LET d == held[w] IN
  /\ status' = [status EXCEPT ![d] = "rejected"]
  /\ leaseLeft' = [leaseLeft EXCEPT ![d] = 0]
  /\ disposition' = [disposition EXCEPT ![d] = disp]
  /\ Release(w)
  /\ UNCHANGED <<attempts, dueIn, body, keepFor, eventOf, up, webhookVars>>

\* min(delay, 300.0)
BackoffDelay(n) ==
  LET delay == BackoffBase * 2^(n - 1) IN IF delay \in 0..BackoffCap THEN delay ELSE BackoffCap

RetryOrFail(w, max) ==
  LET d == held[w] IN
  /\ \/ /\ attempt[w] >= max
        /\ status' = [status EXCEPT ![d] = "failed"]
        /\ UNCHANGED dueIn
     \/ /\ attempt[w] < max
        /\ status' = [status EXCEPT ![d] = "pending"]
        /\ dueIn' = [dueIn EXCEPT ![d] = BackoffDelay(attempt[w])]
  /\ leaseLeft' = [leaseLeft EXCEPT ![d] = 0]
  /\ Release(w)
  /\ UNCHANGED <<attempts, body, keepFor, disposition, eventOf, up, webhookVars>>

\* Seeded fault: off by one.
RetryOrFailEarly(w) == RetryOrFail(w, MaxAttempts - 1)

\* Gives up on the attempt number the worker remembers, not the row's.
MarkRetryOrFail(w) == RetryOrFail(w, MaxAttempts)

-----------------------------------------------------------------------------
(* The pipeline, process_delivery, as drain_once turns it into a write. *)

Holds(w, p) == up /\ phase[w] = p
KeyHeld(w)  == KeyOf[held[w]]
Recorded(k) == event[k] # None

\* Stage A finds an event with this delivery key.
SuppressDelivery(w) ==
  /\ Holds(w, "claimed")
  /\ readable[w]
  /\ Recorded(KeyHeld(w))
  /\ suppressed' = [suppressed EXCEPT ![KeyHeld(w)] = TRUE]
  /\ MarkCompleted(w, "duplicate_delivery", KeyHeld(w))
  /\ UNCHANGED event

\* Stage A finds nothing: the job goes on to Home Assistant and the vision
\* provider, believing there is no event for its key.
StartWork(w) ==
  /\ Holds(w, "claimed")
  /\ readable[w]
  /\ ~Recorded(KeyHeld(w))
  /\ phase' = [phase EXCEPT ![w] = "working"]
  /\ UNCHANGED <<rowVars, eventVars, up, webhookVars, held, attempt, readable, age>>

\* Unknown camera or type, a pruned body (KeyError), an unreadable answer.
RejectInvalid(w) ==
  /\ Holds(w, "claimed") \/ Holds(w, "working")
  /\ MarkRejected(w, "rejected_invalid")
  /\ UNCHANGED eventVars

\* The freshness gate, or the unchanged-bytes check behind it.
RejectStale(w) ==
  /\ Holds(w, "working")
  /\ MarkRejected(w, "rejected_stale_image")
  /\ UNCHANGED eventVars

\* A retryable Home Assistant error, or any exception nobody foresaw.
Transient(w) ==
  /\ \/ Holds(w, "claimed") /\ readable[w]
     \/ Holds(w, "working")
  /\ MarkRetryOrFail(w)
  /\ UNCHANGED eventVars

\* Stage B: the bytes are those of a recent event, this key's or another's.
SuppressContent(w) ==
  /\ Holds(w, "working")
  /\ \E k \in Keys :
       /\ Recorded(k)
       /\ suppressed' = [suppressed EXCEPT ![k] = TRUE]
       /\ MarkCompleted(w, "duplicate_content", k)
  /\ UNCHANGED event

\* The INSERT succeeds: event, analyses, tags, incident and the delivery's
\* completion are one transaction.
InsertEvent(w) ==
  /\ ~Recorded(KeyHeld(w))
  /\ event' = [event EXCEPT ![KeyHeld(w)] = held[w]]
  /\ UNCHANGED suppressed

Persist(w) ==
  /\ Holds(w, "working")
  /\ InsertEvent(w)
  /\ MarkCompleted(w, "accepted", KeyHeld(w))

\* Something raises after the INSERT was flushed (a failing read while the
\* event is correlated): drain_once returns normally, so the event is
\* committed together with the retry.
PersistThenRaise(w) ==
  /\ Holds(w, "working")
  /\ InsertEvent(w)
  /\ MarkRetryOrFail(w)

\* The UNIQUE constraint fires: roll back, count the duplicate on the winner.
LoseRace(w) ==
  /\ Holds(w, "working")
  /\ Recorded(KeyHeld(w))
  /\ suppressed' = [suppressed EXCEPT ![KeyHeld(w)] = TRUE]
  /\ MarkCompleted(w, "duplicate_delivery", KeyHeld(w))
  /\ UNCHANGED event

\* The job ends with nothing written: its task is cancelled at shutdown, its
\* commit fails, or handling a lost race raises (the rollback expired the
\* delivery, which an async session cannot reload on attribute access).  The
\* row stays "processing" until its lease runs out.
Abandon(w) ==
  /\ up
  /\ phase[w] # "idle"
  /\ Release(w)
  /\ UNCHANGED <<rowVars, eventVars, up, webhookVars>>

-----------------------------------------------------------------------------
(* Retention, time, and the process. *)

\* prune_raw_bodies: one UPDATE over every row past the horizon, whatever its
\* status.
PruneRawBodies ==
  /\ up
  /\ body' = [d \in Deliveries |-> body[d] /\ keepFor[d] > 0]
  /\ UNCHANGED <<status, attempts, dueIn, leaseLeft, keepFor, disposition, eventOf,
                 eventVars, up, webhookVars, workerVars>>

Down(n) == IF n > 0 THEN n - 1 ELSE 0

\* Seeded fault: an await without a timeout.
TickUnbounded ==
  /\ dueIn' = [d \in Deliveries |-> Down(dueIn[d])]
  /\ leaseLeft' = [d \in Deliveries |-> Down(leaseLeft[d])]
  /\ keepFor' = [d \in Deliveries |-> Down(keepFor[d])]
  /\ age' = [w \in Workers |-> IF phase[w] = "idle" THEN 0 ELSE age[w] + 1]
  /\ UNCHANGED <<status, attempts, body, disposition, eventOf, eventVars, up, webhookVars,
                 phase, held, attempt, readable>>

\* A job never outlasts its budget: every await in it has a timeout.
Tick ==
  /\ \A w \in Workers : phase[w] # "idle" => age[w] < JobBudget
  /\ dueIn' = [d \in Deliveries |-> Down(dueIn[d])]
  /\ leaseLeft' = [d \in Deliveries |-> Down(leaseLeft[d])]
  /\ keepFor' = [d \in Deliveries |-> Down(keepFor[d])]
  /\ age' = [w \in Workers |-> IF phase[w] = "idle" THEN 0 ELSE age[w] + 1]
  /\ UNCHANGED <<status, attempts, body, disposition, eventOf, eventVars, up, webhookVars,
                 phase, held, attempt, readable>>

ForgetMemory ==
  /\ up' = FALSE
  /\ request' = [d \in Deliveries |->
       IF request[d] \in {"stamped", "committed"} THEN "dropped" ELSE request[d]]
  /\ phase' = [w \in Workers |-> "idle"]
  /\ held' = [w \in Workers |-> None]
  /\ attempt' = [w \in Workers |-> 0]
  /\ readable' = [w \in Workers |-> FALSE]
  /\ age' = [w \in Workers |-> 0]

\* Memory is gone; what was committed is not.  Requests in flight get no answer.
Crash ==
  /\ up
  /\ ForgetMemory
  /\ UNCHANGED <<rowVars, eventVars, arrival>>

Restart ==
  /\ ~up
  /\ up' = TRUE
  /\ UNCHANGED <<rowVars, eventVars, webhookVars, workerVars>>

-----------------------------------------------------------------------------
Webhook(d) == Receive(d) \/ Enqueue(d) \/ EnqueueVanishes(d) \/ Accept(d) \/ Refuse(d)

\* What ends a job by itself, apart from the environment abandoning it.
EndJob(w) ==
  \/ SuppressDelivery(w) \/ RejectInvalid(w) \/ RejectStale(w) \/ Transient(w)
  \/ SuppressContent(w) \/ Persist(w) \/ PersistThenRaise(w) \/ LoseRace(w)

Work(w) == Claim(w) \/ StartWork(w) \/ EndJob(w)

Fault == Crash \/ \E w \in Workers : Abandon(w)

Next ==
  \/ \E d \in Deliveries : Webhook(d)
  \/ \E w \in Workers : Work(w)
  \/ Fault \/ Restart
  \/ PruneRawBodies
  \/ Tick

Spec == Init /\ [][Next]_vars

-----------------------------------------------------------------------------
(* Properties that hold whatever the lease. *)

\* A 202 is only ever given for a delivery that is stored, and a stored row
\* is never lost again: webhook confirmation, crashes and retention together.
AcceptedIsStored == \A d \in Deliveries : request[d] = "accepted" => status[d] # "absent"

\* A completed delivery points at an event that exists: its own if it was
\* accepted, otherwise one whose duplicate_count records the suppression.
CompletionIsBacked ==
  \A d \in Deliveries : status[d] = "completed" =>
    /\ eventOf[d] # None
    /\ Recorded(eventOf[d])
    /\ IF disposition[d] = "accepted" THEN event[KeyOf[d]] = d ELSE suppressed[eventOf[d]]

\* Events are immutable and never deleted: once a key has its event, no
\* replay, crash or second delivery of the same key replaces it.
EventsAreImmutable ==
  [][\A k \in Keys : Recorded(k) => event'[k] = event[k]]_vars

\* A delivery is given up only after max_attempts claims.
FailedIsExhausted == \A d \in Deliveries : status[d] = "failed" => attempts[d] >= MaxAttempts

-----------------------------------------------------------------------------
(* Properties that need a job to end within its lease (JobBudget < Lease),  *)
(* the inequality Settings.analysis_budget_seconds exists to check.         *)

\* No two workers ever process the same delivery.
SoleHolder ==
  \A v, w \in Workers : v # w /\ held[v] # None => held[v] # held[w]

\* What a worker remembers of its delivery is still what the row says when it
\* comes to write, and the row's lease is the one this job took: the unfenced
\* UPDATE overwrites nobody's work.
HolderIsCurrent ==
  \A w \in Workers : phase[w] # "idle" =>
    /\ status[held[w]] = "processing"
    /\ attempts[held[w]] = attempt[w]
    /\ leaseLeft[held[w]] + age[w] = Lease

\* A delivery put back for another try has an attempt left to be tried with.
PendingHasBudget == \A d \in Deliveries : status[d] = "pending" => attempts[d] < MaxAttempts

\* Completed, rejected and failed are final: the outcome of a delivery never
\* changes again and it is not processed again.
TerminalIsFinal ==
  [][\A d \in Deliveries : status[d] \in Terminal =>
       status'[d] = status[d] /\ disposition'[d] = disposition[d]
         /\ eventOf'[d] = eventOf[d] /\ attempts'[d] = attempts[d]]_vars

-----------------------------------------------------------------------------
(* The abstract specification this module implements under JobBudget < Lease. *)

Outcome(d) ==
  CASE status[d] = "completed" -> "kept"
    [] status[d] \in {"rejected", "failed"} -> "dropped"
    [] OTHER -> "open"

Contract == INSTANCE IngestContract WITH
  stored   <- {d \in Deliveries : status[d] # "absent"},
  promised <- {d \in Deliveries : request[d] = "accepted"},
  recorded <- {k \in Keys : Recorded(k)},
  outcome  <- [d \in Deliveries |-> Outcome(d)]

\* Every behaviour of the queue is one the ingest contract allows.
ImplementsContract == Contract!Spec

-----------------------------------------------------------------------------
(* Liveness.  Workers poll the table every ingest_poll_seconds for as long   *)
(* as the process runs, each job ends by itself, the container is restarted, *)
(* and time passes.  Nothing is assumed of the webhook or of retention.      *)

Fairness ==
  /\ WF_vars(Tick)
  /\ WF_vars(Restart)
  /\ \A w \in Workers :
       WF_vars(Claim(w)) /\ WF_vars(StartWork(w)) /\ WF_vars(EndJob(w))

FairSpec == Spec /\ Fairness

\* Once crashes and abandoned jobs cease, every delivery answered 202 comes to
\* rest, through however many retries, expired leases and restarts.
AcceptedComesToRest ==
  <>[][~Fault]_vars =>
    \A d \in Deliveries : request[d] = "accepted" ~> status[d] \in Terminal
=============================================================================
