----------------------------- MODULE ServiceLife -----------------------------
(***************************************************************************)
(* The life of the service process: the checks before it serves, the worker *)
(* tasks with the wakeup they share and the poll that makes up for a lost    *)
(* one, the maintenance loop, the monitors, readiness, and the order things  *)
(* stop in while jobs are running.                                          *)
(*                                                                         *)
(* Time passes when every task waits or is in a job; a job takes any time.   *)
(* An action of a task is what it does between two awaits.                   *)
(***************************************************************************)
EXTENDS Integers, Sequences

CONSTANTS
  Workers,      (* ingest_worker_concurrency tasks                           *)
  Deliveries,   (* deliveries that may be due                                *)
  Poll,         (* ingest_poll_seconds                                       *)
  Grace,        (* shutdown_grace_seconds                                    *)
  Sweep,        (* incident_sweep_interval_seconds                           *)
  Retention,    (* retention_sweep_interval_seconds                          *)
  Enabled,      (* which of the monitors the settings enable                *)
  Never         (* longer than any time that passes                          *)

Monitors == {"reconciler", "health"}

ASSUME LifeAssumption ==
  /\ Enabled \subseteq Monitors
  /\ Poll \in Nat /\ Grace \in Nat /\ Sweep \in Nat /\ Retention \in Nat
  /\ Never \in Nat /\ Never > Poll + Grace + Sweep + Retention

VARIABLES
  phase,      (* "down", "up", or the step of the shutdown in progress       *)
  schema,     (* the database's revision: "none", "expected" or "other"      *)
  open,       (* which of the clients and engines are open                   *)
  monitors,   (* which of them are running                                   *)
  stopping,   (* the worker's _stopping event                                *)
  wakeup,     (* the worker's _wakeup event                                  *)
  pc,         (* per worker task: where its loop is                          *)
  left,       (* per worker task: rest of its wait                           *)
  grace,      (* rest of the grace period                                    *)
  maint,      (* the maintenance task: "none", "sweep", "retain" or "wait"   *)
  sweepLeft,  (* rest of its wait                                            *)
  lastPrune,  (* time since last_retention was set, Never if not yet         *)
  due         (* per delivery: how long it has been due, Never if it is not  *)

\* History.
VARIABLES
  erred,      (* per worker: its last round ended in an error                *)
  cancelled,  (* per worker: what it was cancelled in, "no" if it was not    *)
  pruned,     (* time since retention succeeded, or since the start          *)
  failed      (* time since retention failed, Never if it has not            *)

taskVars  == <<pc, left, erred, cancelled>>
maintVars == <<maint, sweepLeft, lastPrune, pruned, failed>>
vars == <<phase, schema, open, monitors, stopping, wakeup, taskVars,
          grace, maintVars, due>>

Clients == {"vision", "ha", "verify", "engine"}

\* Seeded fault: the clients go before the tasks that use them.
StopOrderClientsFirst ==
  <<"reconciler", "health", "vision", "signal", "grace", "cancel", "ha", "verify", "engine">>

\* The lifespan's finally block; the worker's stop() is three of its steps.
StopOrder ==
  <<"reconciler", "health", "signal", "grace", "cancel", "vision", "ha", "verify", "engine">>

Stopping == {StopOrder[i] : i \in DOMAIN StopOrder}
After(step) ==
  LET i == CHOOSE k \in DOMAIN StopOrder : StopOrder[k] = step
  IN IF i = Len(StopOrder) THEN "down" ELSE StopOrder[i + 1]

Alive(w) == pc[w] \in {"check", "claim", "job", "clear", "wait"}
MaintAlive == maint # "none"

TypeOK ==
  /\ phase \in {"down", "up"} \cup Stopping
  /\ schema \in {"none", "expected", "other"}
  /\ open \subseteq Clients /\ monitors \subseteq Enabled
  /\ stopping \in BOOLEAN /\ wakeup \in BOOLEAN
  /\ pc \in [Workers -> {"none", "check", "claim", "job", "clear", "wait", "done"}]
  /\ left \in [Workers -> 0..Poll]
  /\ grace \in 0..Grace
  /\ maint \in {"none", "sweep", "retain", "wait"}
  /\ sweepLeft \in 0..Sweep
  /\ lastPrune \in 0..Retention \cup {Never}
  /\ due \in [Deliveries -> 0..(Poll + 1) \cup {Never}]
  /\ erred \in [Workers -> BOOLEAN]
  /\ cancelled \in [Workers -> {"no", "busy", "idle"}]
  /\ pruned \in 0..(Retention + Sweep + 1)
  /\ failed \in 0..(Sweep + 1) \cup {Never}

Fresh ==
  /\ open' = {} /\ monitors' = {}
  /\ stopping' = FALSE /\ wakeup' = FALSE
  /\ pc' = [w \in Workers |-> "none"]
  /\ left' = [w \in Workers |-> 0]
  /\ erred' = [w \in Workers |-> FALSE]
  /\ cancelled' = [w \in Workers |-> "no"]
  /\ grace' = 0
  /\ maint' = "none" /\ sweepLeft' = 0
  /\ lastPrune' = Never /\ pruned' = 0 /\ failed' = Never

Init ==
  /\ phase = "down" /\ schema \in {"none", "expected", "other"}
  /\ open = {} /\ monitors = {} /\ stopping = FALSE /\ wakeup = FALSE
  /\ pc = [w \in Workers |-> "none"] /\ left = [w \in Workers |-> 0]
  /\ erred = [w \in Workers |-> FALSE] /\ cancelled = [w \in Workers |-> "no"]
  /\ grace = 0 /\ maint = "none" /\ sweepLeft = 0
  /\ lastPrune = Never /\ pruned = 0 /\ failed = Never
  /\ due = [d \in Deliveries |-> Never]

-----------------------------------------------------------------------------
(* Start.  build_state refuses to serve without the expected schema; the     *)
(* configuration errors that stop it too are HouseMap's.                      *)

\* head_revision: unknown if the migration scripts cannot be read.  The revision
\* of the database is then not compared, neither here nor by /ready.
Heads == {"expected", "unknown"}

Serves(head) == schema # "none" /\ (head # "unknown" => schema = head)

Start ==
  /\ phase = "down"
  /\ \E head \in Heads : Serves(head)
  /\ phase' = "up"
  /\ open' = Clients
  /\ monitors' = Enabled
  /\ stopping' = FALSE /\ wakeup' = FALSE
  /\ pc' = [w \in Workers |-> "check"]
  /\ maint' = "sweep"
  /\ UNCHANGED <<schema, left, erred, cancelled, grace, sweepLeft, lastPrune, pruned,
                 failed, due>>

\* The entrypoint, or an operator, migrates the database: to this code's
\* revision, or to that of another image.
Migrate ==
  /\ phase = "down"
  /\ schema' \in {"expected", "other"}
  /\ UNCHANGED <<phase, open, monitors, stopping, wakeup, taskVars, grace, maintVars, due>>

-----------------------------------------------------------------------------
(* Work arrives. *)

\* A webhook commits a delivery, a retry's delay or a lease runs out.
Due(d) ==
  /\ due[d] = Never
  /\ due' = [due EXCEPT ![d] = 0]
  /\ UNCHANGED <<phase, schema, open, monitors, stopping, wakeup, taskVars, grace, maintVars>>

\* Event.set(): whoever waits goes on, even if the event is cleared before it runs.
Wake ==
  /\ wakeup' = TRUE
  /\ pc' = [w \in Workers |-> IF pc[w] = "wait" THEN "check" ELSE pc[w]]
  /\ left' = [w \in Workers |-> IF pc[w] = "wait" THEN 0 ELSE left[w]]

\* The webhook's notify(), at some time after its commit.
Notify ==
  /\ phase = "up"
  /\ Wake
  /\ UNCHANGED <<phase, schema, open, monitors, stopping, erred, cancelled, grace,
                 maintVars, due>>

-----------------------------------------------------------------------------
(* A worker task. *)

Goes(w, to) == pc' = [pc EXCEPT ![w] = to]
Rest == UNCHANGED <<phase, schema, open, monitors, stopping, grace, maintVars>>

CheckStopping(w) ==
  /\ pc[w] = "check"
  /\ Goes(w, IF stopping THEN "done" ELSE "claim")
  /\ UNCHANGED <<wakeup, left, erred, cancelled, due>> /\ Rest

Claim(w) ==
  /\ pc[w] = "claim"
  /\ \E d \in Deliveries : due[d] # Never /\ due' = [due EXCEPT ![d] = Never]
  /\ Goes(w, "job")
  /\ UNCHANGED <<wakeup, left, erred, cancelled>> /\ Rest

\* Nothing is due; the session is closed before the loop goes on.
ClaimNothing(w) ==
  /\ pc[w] = "claim" /\ \A d \in Deliveries : due[d] = Never
  /\ Goes(w, "clear")
  /\ erred' = [erred EXCEPT ![w] = FALSE]
  /\ UNCHANGED <<wakeup, left, cancelled, due>> /\ Rest

\* Seeded fault: an exception ends the loop.
LoopErrorEnds(w) ==
  /\ pc[w] \in {"claim", "job"}
  /\ Goes(w, "done")
  /\ UNCHANGED <<wakeup, left, erred, cancelled, due>> /\ Rest

\* An exception of the database: logged, and a round without a delivery.
LoopError(w) ==
  /\ pc[w] \in {"claim", "job"}
  /\ Goes(w, "clear")
  /\ erred' = [erred EXCEPT ![w] = TRUE]
  /\ UNCHANGED <<wakeup, left, cancelled, due>> /\ Rest

FinishJob(w) ==
  /\ pc[w] = "job"
  /\ Goes(w, "check")
  /\ UNCHANGED <<wakeup, left, erred, cancelled, due>> /\ Rest

\* Seeded fault: a wait for the wakeup alone.
WaitForever(w) ==
  /\ pc[w] = "clear"
  /\ wakeup' = FALSE
  /\ Goes(w, "wait")
  /\ left' = [left EXCEPT ![w] = Never]
  /\ UNCHANGED <<erred, cancelled, due>> /\ Rest

\* A notification between the empty claim and here is cleared with the others.
ClearAndWait(w) ==
  /\ pc[w] = "clear"
  /\ wakeup' = FALSE
  /\ Goes(w, "wait")
  /\ left' = [left EXCEPT ![w] = Poll]
  /\ UNCHANGED <<erred, cancelled, due>> /\ Rest

TimeOut(w) ==
  /\ pc[w] = "wait" /\ left[w] = 0
  /\ Goes(w, "check")
  /\ UNCHANGED <<wakeup, left, erred, cancelled, due>> /\ Rest

Work(w) == CheckStopping(w) \/ Claim(w) \/ ClaimNothing(w) \/ ClearAndWait(w) \/ TimeOut(w)

-----------------------------------------------------------------------------
(* The maintenance task. *)

Others == UNCHANGED <<phase, schema, open, monitors, stopping, wakeup, taskVars, grace, due>>

\* Incidents are swept, or the sweep fails; then retention, if it is time.
PruneIsDue == lastPrune = Never \/ lastPrune >= Retention

SweepIncidents ==
  /\ maint = "sweep"
  /\ maint' = IF PruneIsDue THEN "retain" ELSE "wait"
  /\ sweepLeft' = IF PruneIsDue THEN sweepLeft ELSE Sweep
  /\ UNCHANGED <<lastPrune, pruned, failed>> /\ Others

Prune ==
  /\ maint = "retain"
  /\ maint' = "wait" /\ sweepLeft' = Sweep
  /\ lastPrune' = 0 /\ pruned' = 0
  /\ UNCHANGED failed /\ Others

\* Seeded fault: the time is taken whether it succeeded or not.
PruneFailsTaken ==
  /\ maint = "retain"
  /\ maint' = "wait" /\ sweepLeft' = Sweep
  /\ lastPrune' = 0 /\ failed' = 0
  /\ UNCHANGED pruned /\ Others

\* last_retention stays: the next round tries again.
PruneFails ==
  /\ maint = "retain"
  /\ maint' = "wait" /\ sweepLeft' = Sweep
  /\ failed' = 0
  /\ UNCHANGED <<lastPrune, pruned>> /\ Others

\* The interval is over, or stop was called: then the loop ends.
MaintWakes ==
  /\ maint = "wait" /\ (stopping \/ sweepLeft = 0)
  /\ maint' = IF stopping THEN "none" ELSE "sweep"
  /\ UNCHANGED <<sweepLeft, lastPrune, pruned, failed>> /\ Others

Maintain == SweepIncidents \/ Prune \/ MaintWakes

-----------------------------------------------------------------------------
(* Shutdown. *)

\* uvicorn has finished its requests and leaves the lifespan.
Shutdown ==
  /\ phase = "up"
  /\ phase' = StopOrder[1]
  /\ UNCHANGED <<schema, open, monitors, stopping, wakeup, taskVars, grace, maintVars, due>>

\* stop() of a monitor: cancel its task and wait for it.
StopMonitor ==
  /\ phase \in Monitors
  /\ monitors' = monitors \ {phase}
  /\ phase' = After(phase)
  /\ UNCHANGED <<schema, open, stopping, wakeup, taskVars, grace, maintVars, due>>

Signal ==
  /\ phase = "signal"
  /\ stopping' = TRUE
  /\ Wake
  /\ grace' = Grace
  /\ phase' = After(phase)
  /\ UNCHANGED <<schema, open, monitors, erred, cancelled, maintVars, due>>

AllDone == ~MaintAlive /\ \A w \in Workers : ~Alive(w)

\* Seeded fault: stop() waits for the jobs however long they take.
WaitForAll ==
  /\ phase = "grace" /\ AllDone
  /\ phase' = After(phase)
  /\ UNCHANGED <<schema, open, monitors, stopping, wakeup, taskVars, grace, maintVars, due>>

\* asyncio.wait with a timeout.
WaitGrace ==
  /\ phase = "grace" /\ (AllDone \/ grace = 0)
  /\ phase' = After(phase)
  /\ UNCHANGED <<schema, open, monitors, stopping, wakeup, taskVars, grace, maintVars, due>>

\* What is still running is cancelled and waited for; a cancelled job's
\* delivery becomes due again when its lease ends.
Cancel ==
  /\ phase = "cancel"
  /\ pc' = [w \in Workers |-> IF Alive(w) THEN "done" ELSE pc[w]]
  /\ left' = [w \in Workers |-> 0]
  /\ cancelled' = [w \in Workers |->
       IF pc[w] = "wait" THEN "idle" ELSE IF Alive(w) THEN "busy" ELSE "no"]
  /\ maint' = "none"
  /\ phase' = After(phase)
  /\ UNCHANGED <<schema, open, monitors, stopping, wakeup, erred, grace, sweepLeft,
                 lastPrune, pruned, failed, due>>

Close ==
  /\ phase \in Clients \ {"engine"}
  /\ open' = open \ {phase}
  /\ phase' = After(phase)
  /\ UNCHANGED <<schema, monitors, stopping, wakeup, taskVars, grace, maintVars, due>>

\* The last one; the process ends and nothing of it remains but the database.
CloseEngine ==
  /\ phase = "engine"
  /\ phase' = "down"
  /\ Fresh
  /\ UNCHANGED <<schema, due>>

\* The process ends in any other way.
Crash ==
  /\ phase # "down"
  /\ phase' = "down"
  /\ Fresh
  /\ UNCHANGED <<schema, due>>

Stop == StopMonitor \/ Signal \/ WaitGrace \/ Cancel \/ Close \/ CloseEngine

-----------------------------------------------------------------------------

Older(t, bound) == IF t = Never THEN Never ELSE IF t >= bound THEN bound ELSE t + 1
Waiting(w) == pc[w] \in {"none", "job", "done"} \/ (pc[w] = "wait" /\ left[w] > 0)

Tick ==
  /\ \A w \in Workers : Waiting(w)
  /\ maint = "none" \/ (maint = "wait" /\ sweepLeft > 0 /\ ~stopping)
  /\ phase \in {"down", "up"} \/ (phase = "grace" /\ grace > 0 /\ ~AllDone)
  /\ left' = [w \in Workers |-> IF pc[w] = "wait" /\ left[w] # Never THEN left[w] - 1 ELSE left[w]]
  /\ grace' = IF phase = "grace" THEN grace - 1 ELSE grace
  /\ sweepLeft' = IF maint = "wait" THEN sweepLeft - 1 ELSE sweepLeft
  /\ lastPrune' = Older(lastPrune, Retention)
  /\ pruned' = IF phase = "up" THEN Older(pruned, Retention + Sweep + 1) ELSE pruned
  /\ failed' = Older(failed, Sweep + 1)
  /\ due' = [d \in Deliveries |-> Older(due[d], Poll + 1)]
  /\ UNCHANGED <<phase, schema, open, monitors, stopping, wakeup, pc, maint, erred, cancelled>>

Next ==
  \/ Start \/ Migrate \/ Notify \/ Tick
  \/ \E d \in Deliveries : Due(d)
  \/ \E w \in Workers : Work(w) \/ LoopError(w) \/ FinishJob(w)
  \/ Maintain \/ PruneFails
  \/ Shutdown \/ Stop \/ Crash

Spec == Init /\ [][Next]_vars

\* asyncio runs every task that can run, and time passes.  A job that hangs is
\* allowed, and no start, notification or shutdown is promised.
FairSpec ==
  /\ Spec
  /\ WF_vars(Tick) /\ WF_vars(Maintain) /\ WF_vars(Stop)
  /\ \A w \in Workers : WF_vars(Work(w))

-----------------------------------------------------------------------------
(* Properties. *)

\* No task loses a client it may be using: whoever is in a job has all of them,
\* the monitors have Home Assistant and the database, maintenance the database
\* ("After the worker, so no in-flight analysis loses its client", app.py).
ClientsOutliveJobs ==
  /\ \A w \in Workers : pc[w] = "job" => open = Clients
  /\ monitors # {} => {"ha", "engine"} \subseteq open
  /\ MaintAlive \/ (\E w \in Workers : Alive(w)) => "engine" \in open

\* A lost notification costs one poll interval: while a worker waits that did
\* not just fail, nothing has been due for longer ("a missed nudge only means a
\* slower pickup", ingest/worker.py:55).
IdlePickup ==
  \A d \in Deliveries, w \in Workers :
    due[d] # Never /\ due[d] > Poll /\ pc[w] = "wait" => erred[w]

\* A shutdown that leaves room for a poll cancels no worker that has nothing to
\* do, although a worker may clear the very wakeup that announced it; only one
\* whose job has just failed may still be asleep when the grace is over.
OnlyJobsAreCancelled == Poll < Grace => \A w \in Workers : cancelled[w] = "idle" => erred[w]

\* What /ready answers while the service is up and the database reachable; its
\* comparison of revisions is that of the start, and no one migrates meanwhile.
Running == MaintAlive \/ \E w \in Workers : Alive(w)
Ready == phase = "up" /\ Running /\ monitors = Enabled

\* Ready means that every task of the service is there, although the check of
\* the worker counts the maintenance task among them.
ReadyIsTrue ==
  Ready => /\ \A w \in Workers : Alive(w)
           /\ MaintAlive
           /\ open = Clients

\* Retention is overdue only while it fails: a failed round is repeated after
\* one sweep interval, not after the interval of retention.
RetentionIsTimely == MaintAlive /\ pruned > Retention + Sweep => failed <= Sweep

\* Every shutdown ends, whatever the jobs do.
ShutdownEnds == phase \in Stopping ~> phase = "down"
=============================================================================
