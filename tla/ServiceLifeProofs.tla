-------------------------- MODULE ServiceLifeProofs --------------------------
(* Theorems about ServiceLife, for any number of workers and deliveries, any  *)
(* intervals, and a crash, an error or a failed round at any point.          *)
EXTENDS ServiceLife, TLAPS

Closing == {"vision", "ha", "verify", "engine"}

PCs == {"none", "check", "claim", "job", "clear", "wait", "done"}

\* Which steps of a life have which tasks, clients and monitors.
LifeInv ==
  /\ TypeOK
  /\ phase = "down" => /\ \A w \in Workers : pc[w] = "none"
                       /\ maint = "none" /\ monitors = {} /\ lastPrune = Never /\ pruned = 0
  /\ phase # "down" => \A w \in Workers : pc[w] # "none"
  /\ stopping <=> phase \in {"grace", "cancel"} \cup Closing
  /\ ~stopping => \A w \in Workers : pc[w] # "done"
  /\ ~stopping /\ phase # "down" => maint # "none"
  /\ phase = "up" => monitors = Enabled
  /\ phase = "health" => "reconciler" \notin monitors
  /\ phase \in {"signal", "grace", "cancel"} \cup Closing => monitors = {}
  /\ phase \notin {"down", "ha", "verify", "engine"} => open = Clients
  /\ phase \in {"ha", "verify", "engine"} => "engine" \in open
  /\ phase \in Closing => maint = "none" /\ \A w \in Workers : pc[w] = "done"
  /\ phase \notin Closing => \A w \in Workers : cancelled[w] = "no"

LEMMA Steps ==
  /\ Stopping = {"reconciler", "health", "signal", "grace", "cancel", "vision", "ha", "verify", "engine"}
  /\ StopOrder[1] = "reconciler"
  /\ After("reconciler") = "health" /\ After("health") = "signal"
  /\ After("signal") = "grace" /\ After("grace") = "cancel" /\ After("cancel") = "vision"
  /\ After("vision") = "ha" /\ After("ha") = "verify" /\ After("verify") = "engine"
<1>1. /\ DOMAIN StopOrder = 1..9 /\ Len(StopOrder) = 9
      /\ StopOrder[1] = "reconciler" /\ StopOrder[2] = "health" /\ StopOrder[3] = "signal"
      /\ StopOrder[4] = "grace" /\ StopOrder[5] = "cancel" /\ StopOrder[6] = "vision"
      /\ StopOrder[7] = "ha" /\ StopOrder[8] = "verify" /\ StopOrder[9] = "engine"
  BY DEF StopOrder
<1>2. \A i \in 1..9 : i = 1 \/ i = 2 \/ i = 3 \/ i = 4 \/ i = 5 \/ i = 6 \/ i = 7 \/ i = 8 \/ i = 9
  OBVIOUS
<1>3. ASSUME NEW i \in 1..8, \A k \in 1..9 : StopOrder[k] = StopOrder[i] => k = i
      PROVE  After(StopOrder[i]) = StopOrder[i + 1]
  <2>1. (CHOOSE k \in DOMAIN StopOrder : StopOrder[k] = StopOrder[i]) = i
    BY <1>1, <1>3
  <2> QED BY <1>1, <2>1 DEF After
<1>4. \A i, k \in 1..9 : StopOrder[k] = StopOrder[i] => k = i
  BY <1>1, <1>2
<1>5. \A i \in 1..8 : After(StopOrder[i]) = StopOrder[i + 1]
  BY <1>3, <1>4
<1>6. Stopping = {"reconciler", "health", "signal", "grace", "cancel", "vision", "ha", "verify", "engine"}
  BY <1>1, <1>2 DEF Stopping
<1> HIDE DEF StopOrder
<1> QED BY <1>1, <1>5, <1>6

-----------------------------------------------------------------------------
LEMMA ZeroTyped ==
  /\ 0 \in 0..Poll /\ 0 \in 0..Grace /\ 0 \in 0..Sweep /\ Poll \in 0..Poll /\ Grace \in 0..Grace
  /\ 0 \in 0..(Retention + Sweep + 1)
BY LifeAssumption DEF LifeAssumption

LEMMA InitLife == Init => LifeInv
<1> SUFFICES ASSUME Init PROVE LifeInv
  OBVIOUS
<1>1. TypeOK
  <2>1. /\ phase \in {"down", "up"} \cup Stopping /\ schema \in {"none", "expected", "other"}
        /\ open \subseteq Clients /\ monitors \subseteq Enabled
        /\ stopping \in BOOLEAN /\ wakeup \in BOOLEAN
        /\ maint \in {"none", "sweep", "retain", "wait"}
    BY DEF Init
  <2>2. /\ pc \in [Workers -> {"none", "check", "claim", "job", "clear", "wait", "done"}]
        /\ erred \in [Workers -> BOOLEAN] /\ cancelled \in [Workers -> {"no", "busy", "idle"}]
    BY DEF Init
  <2>3. left \in [Workers -> 0..Poll] /\ due \in [Deliveries -> 0..(Poll + 1) \cup {Never}]
    BY ZeroTyped DEF Init
  <2>4. /\ grace \in 0..Grace /\ sweepLeft \in 0..Sweep
        /\ lastPrune \in 0..Retention \cup {Never} /\ pruned \in 0..(Retention + Sweep + 1)
        /\ failed \in 0..(Sweep + 1) \cup {Never}
    BY ZeroTyped DEF Init
  <2> QED BY <2>1, <2>2, <2>3, <2>4 DEF TypeOK
<1> QED BY <1>1 DEF Init, LifeInv, Closing

\* What is left of a process that has ended.
LEMMA FreshTyped ==
  ASSUME LifeInv, Fresh, phase' = "down", UNCHANGED <<schema, due>>
  PROVE  LifeInv'
<1>1. TypeOK'
  <2>1. /\ phase' \in {"down", "up"} \cup Stopping /\ schema' \in {"none", "expected", "other"}
        /\ open' \subseteq Clients /\ monitors' \subseteq Enabled
        /\ stopping' \in BOOLEAN /\ wakeup' \in BOOLEAN
        /\ maint' \in {"none", "sweep", "retain", "wait"}
        /\ due' \in [Deliveries -> 0..(Poll + 1) \cup {Never}]
    BY DEF Fresh, LifeInv, TypeOK
  <2>2. /\ pc' \in [Workers -> {"none", "check", "claim", "job", "clear", "wait", "done"}]
        /\ erred' \in [Workers -> BOOLEAN] /\ cancelled' \in [Workers -> {"no", "busy", "idle"}]
    BY DEF Fresh
  <2>3. left' \in [Workers -> 0..Poll]
    BY ZeroTyped DEF Fresh
  <2>4. /\ grace' \in 0..Grace /\ sweepLeft' \in 0..Sweep
        /\ lastPrune' \in 0..Retention \cup {Never} /\ pruned' \in 0..(Retention + Sweep + 1)
        /\ failed' \in 0..(Sweep + 1) \cup {Never}
    BY ZeroTyped DEF Fresh
  <2> QED BY <2>1, <2>2, <2>3, <2>4 DEF TypeOK
<1> QED BY <1>1 DEF Fresh, LifeInv, Closing

\* The wakeup moves waiting workers to the start of their loop, and no other.
LEMMA WakeTyped ==
  ASSUME TypeOK, Wake
  PROVE  wakeup' = TRUE /\ pc' \in [Workers -> PCs] /\ left' \in [Workers -> 0..Poll]
BY LifeAssumption DEF LifeAssumption, TypeOK, Wake, PCs

LEMMA WakeMoves ==
  ASSUME TypeOK, Wake
  PROVE  \A w \in Workers : pc'[w] = "check" \/ (pc'[w] = pc[w] /\ left'[w] = left[w])
BY DEF TypeOK, Wake

\* Starting, arriving and crashing.
LEMMA OutsideKeepsLife ==
  ASSUME LifeInv, Start \/ Migrate \/ Notify \/ Crash \/ (\E d \in Deliveries : Due(d))
  PROVE  LifeInv'
<1> USE LifeAssumption DEF LifeAssumption
<1>1. CASE Start
  <2>1. TypeOK'
    BY <1>1 DEF Start, LifeInv, TypeOK
  <2> QED BY <1>1, <2>1 DEF Start, LifeInv, Closing, TypeOK
<1>2. CASE Migrate
  BY <1>2 DEF Migrate, LifeInv, TypeOK, taskVars, maintVars, Closing
<1>3. CASE Notify
  <2>1. TypeOK'
    BY <1>3, WakeTyped DEF Notify, LifeInv, TypeOK, maintVars, PCs
  <2>2. \A w \in Workers : pc'[w] # "none" /\ pc'[w] # "done"
    <3>1. TypeOK /\ Wake
      BY <1>3 DEF Notify, LifeInv
    <3>2. \A w \in Workers : pc[w] # "none" /\ pc[w] # "done"
      BY <1>3 DEF Notify, LifeInv, Closing
    <3>3. \A w \in Workers : pc'[w] = "check" \/ pc'[w] = pc[w]
      BY <3>1, WakeMoves
    <3> QED BY <3>2, <3>3
  <2> QED BY <1>3, <2>1, <2>2 DEF Notify, LifeInv, Closing, maintVars
<1>4. CASE Crash
  BY <1>4, FreshTyped DEF Crash
<1>5. ASSUME NEW d \in Deliveries, Due(d) PROVE LifeInv'
  BY <1>5 DEF Due, LifeInv, TypeOK, taskVars, maintVars, Closing
<1> QED BY <1>1, <1>2, <1>3, <1>4, <1>5

WorkerStep(w) == Work(w) \/ LoopError(w) \/ FinishJob(w)

\* What any step of a worker task does to itself, and that it does no more.
LEMMA WorkerMoves ==
  ASSUME LifeInv, NEW w \in Workers, WorkerStep(w)
  PROVE  /\ UNCHANGED <<phase, schema, open, monitors, stopping, grace, maintVars, cancelled>>
         /\ wakeup' \in BOOLEAN /\ left' \in [Workers -> 0..Poll]
         /\ erred' \in [Workers -> BOOLEAN] /\ due' \in [Deliveries -> 0..(Poll + 1) \cup {Never}]
         /\ pc[w] \in {"check", "claim", "job", "clear", "wait"}
         /\ pc' \in [Workers -> PCs] /\ pc'[w] # "none"
         /\ pc'[w] = "done" => stopping
         /\ \A v \in Workers : v # w => pc'[v] = pc[v] /\ left'[v] = left[v] /\ erred'[v] = erred[v]
<1> USE LifeAssumption DEF LifeAssumption, LifeInv, TypeOK, Goes, Rest, PCs
<1>1. CASE CheckStopping(w)
  BY <1>1 DEF CheckStopping
<1>2. CASE Claim(w)
  BY <1>2 DEF Claim
<1>3. CASE ClaimNothing(w)
  BY <1>3 DEF ClaimNothing
<1>4. CASE ClearAndWait(w)
  BY <1>4, ZeroTyped DEF ClearAndWait
<1>5. CASE TimeOut(w)
  BY <1>5 DEF TimeOut
<1>6. CASE LoopError(w)
  BY <1>6 DEF LoopError
<1>7. CASE FinishJob(w)
  BY <1>7 DEF FinishJob
<1> QED BY <1>1, <1>2, <1>3, <1>4, <1>5, <1>6, <1>7 DEF WorkerStep, Work

LEMMA WorkerKeepsLife ==
  ASSUME LifeInv, NEW w \in Workers, WorkerStep(w)
  PROVE  LifeInv'
<1>1. TypeOK'
  BY WorkerMoves DEF LifeInv, TypeOK, PCs, maintVars
<1>2. phase \notin {"down"} \cup Closing
  BY WorkerMoves DEF LifeInv
<1> QED BY <1>1, <1>2, WorkerMoves DEF LifeInv, Closing, maintVars

LEMMA MaintainKeepsLife ==
  ASSUME LifeInv, Maintain \/ PruneFails
  PROVE  LifeInv'
<1> USE LifeAssumption DEF LifeAssumption
<1>1. /\ maint # "none" /\ (maint' = "none" => stopping)
      /\ maint' \in {"none", "sweep", "retain", "wait"}
      /\ sweepLeft' \in 0..Sweep /\ lastPrune' \in 0..Retention \cup {Never}
      /\ pruned' \in 0..(Retention + Sweep + 1) /\ failed' \in 0..(Sweep + 1) \cup {Never}
      /\ UNCHANGED <<phase, schema, open, monitors, stopping, wakeup, taskVars, grace, due>>
  BY DEF Maintain, SweepIncidents, Prune, MaintWakes, PruneFails, Others, LifeInv, TypeOK
<1>2. TypeOK'
  BY <1>1 DEF LifeInv, TypeOK, taskVars
<1> QED BY <1>1, <1>2 DEF LifeInv, Closing, taskVars

LEMMA StopKeepsLife ==
  ASSUME LifeInv, Shutdown \/ Stop
  PROVE  LifeInv'
<1> USE LifeAssumption, Steps DEF LifeAssumption
<1>1. CASE Shutdown
  BY <1>1 DEF Shutdown, LifeInv, TypeOK, Closing, taskVars, maintVars
<1>2. CASE StopMonitor
  BY <1>2 DEF StopMonitor, Monitors, LifeInv, TypeOK, Closing, taskVars, maintVars
<1>3. CASE Signal
  <2>1. TypeOK'
    <3>1. /\ phase' = "grace" /\ stopping' = TRUE /\ grace' = Grace /\ Wake /\ TypeOK
          /\ UNCHANGED <<schema, open, monitors, erred, cancelled, maintVars, due>>
      BY <1>3 DEF Signal, LifeInv
    <3>2. /\ wakeup' = TRUE /\ pc' \in [Workers -> PCs] /\ left' \in [Workers -> 0..Poll]
      BY <3>1, WakeTyped
    <3> QED BY <3>1, <3>2, ZeroTyped DEF TypeOK, maintVars, PCs
  <2>2. \A w \in Workers : pc'[w] # "none"
    <3>1. TypeOK /\ Wake /\ \A w \in Workers : pc[w] # "none"
      BY <1>3 DEF Signal, LifeInv
    <3>2. ASSUME NEW w \in Workers PROVE pc'[w] # "none"
      BY <3>1 DEF Wake, TypeOK
    <3> QED BY <3>2
  <2> QED BY <1>3, <2>1, <2>2 DEF Signal, LifeInv, Closing, maintVars
<1>4. CASE WaitGrace
  BY <1>4 DEF WaitGrace, LifeInv, TypeOK, Closing, taskVars, maintVars
<1>5. CASE Cancel
  <2>1. TypeOK'
    BY <1>5 DEF Cancel, LifeInv, TypeOK
  <2>2. \A w \in Workers : pc'[w] = "done"
    BY <1>5 DEF Cancel, LifeInv, TypeOK, Alive
  <2> QED BY <1>5, <2>1, <2>2 DEF Cancel, LifeInv, Closing
<1>6. CASE Close
  BY <1>6 DEF Close, Clients, LifeInv, TypeOK, Closing, taskVars, maintVars
<1>7. CASE CloseEngine
  BY <1>7, FreshTyped DEF CloseEngine
<1> QED BY <1>1, <1>2, <1>3, <1>4, <1>5, <1>6, <1>7 DEF Stop

\* Time ages what waits, within the bounds.
LEMMA OlderTyped ==
  ASSUME NEW b \in Nat, NEW t \in 0..b \cup {Never}
  PROVE  Older(t, b) \in 0..b \cup {Never} /\ (t # Never => Older(t, b) \in 0..b)
BY DEF Older

LEMMA TickKeepsLife ==
  ASSUME LifeInv, Tick
  PROVE  LifeInv'
<1> USE LifeAssumption DEF LifeAssumption
<1>1. left' \in [Workers -> 0..Poll]
  BY DEF Tick, Waiting, LifeInv, TypeOK
<1>2. grace' \in 0..Grace /\ sweepLeft' \in 0..Sweep
  BY DEF Tick, LifeInv, TypeOK
<1>3. lastPrune' \in 0..Retention \cup {Never} /\ failed' \in 0..(Sweep + 1) \cup {Never}
  BY OlderTyped DEF Tick, LifeInv, TypeOK
<1>4. pruned' \in 0..(Retention + Sweep + 1)
  BY DEF Tick, Older, LifeInv, TypeOK
<1>5. due' \in [Deliveries -> 0..(Poll + 1) \cup {Never}]
  BY OlderTyped DEF Tick, LifeInv, TypeOK
<1>6. UNCHANGED <<phase, schema, open, monitors, stopping, wakeup, pc, maint, erred, cancelled>>
  BY DEF Tick
<1>7. TypeOK'
  BY <1>1, <1>2, <1>3, <1>4, <1>5, <1>6 DEF LifeInv, TypeOK
<1>8. phase = "down" => lastPrune' = Never /\ pruned' = 0
  BY DEF Tick, Older, LifeInv
<1> QED BY <1>6, <1>7, <1>8 DEF LifeInv

LEMMA NextKeepsLife == LifeInv /\ [Next]_vars => LifeInv'
<1> SUFFICES ASSUME LifeInv, [Next]_vars PROVE LifeInv'
  OBVIOUS
<1>1. CASE UNCHANGED vars
  BY <1>1 DEF vars, taskVars, maintVars, LifeInv, TypeOK
<1>2. CASE Next
  BY <1>2, OutsideKeepsLife, WorkerKeepsLife, MaintainKeepsLife, StopKeepsLife, TickKeepsLife
     DEF Next, WorkerStep
<1> QED BY <1>1, <1>2

LEMMA SpecLife == Spec => []LifeInv
BY InitLife, NextKeepsLife, PTL DEF Spec

\* Every variable keeps its type: no wait, grace or age leaves its bounds.
THEOREM TypesStayCorrect == Spec => []TypeOK
<1>1. LifeInv => TypeOK
  BY DEF LifeInv
<1> QED BY <1>1, SpecLife, PTL

\* No task loses a client it may be using, in the order of the lifespan's finally
\* block and for any crash or error before it: api/app.py.
THEOREM ClientsStayWithJobs == Spec => []ClientsOutliveJobs
<1>1. LifeInv => ClientsOutliveJobs
  BY DEF LifeInv, TypeOK, ClientsOutliveJobs, Alive, MaintAlive, Closing, Clients
<1> QED BY <1>1, SpecLife, PTL

\* Ready means that all tasks of the service are there: api/health.py.
THEOREM ReadyStaysTrue == Spec => []ReadyIsTrue
<1>1. LifeInv => ReadyIsTrue
  BY DEF LifeInv, TypeOK, ReadyIsTrue, Ready, Alive, MaintAlive, Closing
<1> QED BY <1>1, SpecLife, PTL

-----------------------------------------------------------------------------
(* A lost notification. *)

\* A worker that found nothing due waits no longer than what became due since
\* may still wait.
PickupInv ==
  \A w \in Workers, d \in Deliveries : ~erred[w] /\ due[d] # Never =>
    /\ pc[w] = "clear" => due[d] = 0
    /\ pc[w] = "wait" => due[d] + left[w] <= Poll

LEMMA InitPickup == Init => PickupInv
BY DEF Init, PickupInv

LEMMA WorkerPickup ==
  ASSUME LifeInv, PickupInv, NEW w \in Workers, WorkerStep(w)
  PROVE  PickupInv'
<1> USE LifeAssumption DEF LifeAssumption, LifeInv, TypeOK, Goes, Rest, PickupInv
<1>1. CASE CheckStopping(w)
  BY <1>1 DEF CheckStopping
<1>2. CASE Claim(w)
  <2>1. UNCHANGED <<left, erred>> /\ pc' = [pc EXCEPT ![w] = "job"]
    BY <1>2 DEF Claim
  <2>2. \A d \in Deliveries : due'[d] = due[d] \/ due'[d] = Never
    BY <1>2 DEF Claim
  <2>3. \A v \in Workers : pc'[v] \in {"clear", "wait"} => pc'[v] = pc[v]
    BY <2>1
  <2> QED BY <2>1, <2>2, <2>3
<1>3. CASE ClaimNothing(w)
  BY <1>3 DEF ClaimNothing
<1>4. CASE ClearAndWait(w)
  <2>1. /\ pc[w] = "clear" /\ pc' = [pc EXCEPT ![w] = "wait"]
        /\ left' = [left EXCEPT ![w] = Poll] /\ UNCHANGED <<erred, due>>
    BY <1>4 DEF ClearAndWait
  <2>2. ASSUME NEW v \in Workers, NEW d \in Deliveries, ~erred[v], due[d] # Never
        PROVE  /\ pc'[v] = "clear" => due[d] = 0
               /\ pc'[v] = "wait" => due[d] + left'[v] <= Poll
    <3>1. CASE v = w
      BY <2>1, <2>2, <3>1
    <3>2. CASE v # w
      BY <2>1, <2>2, <3>2
    <3> QED BY <3>1, <3>2
  <2> QED BY <2>1, <2>2
<1>5. CASE TimeOut(w)
  BY <1>5 DEF TimeOut
<1>6. CASE LoopError(w)
  BY <1>6 DEF LoopError
<1>7. CASE FinishJob(w)
  BY <1>7 DEF FinishJob
<1> QED BY <1>1, <1>2, <1>3, <1>4, <1>5, <1>6, <1>7 DEF WorkerStep, Work

LEMMA WakePickup ==
  ASSUME LifeInv, PickupInv, Wake, UNCHANGED <<erred, due>>
  PROVE  PickupInv'
<1>1. TypeOK
  BY DEF LifeInv
<1>2. \A v \in Workers : pc'[v] = "check" \/ (pc'[v] = pc[v] /\ left'[v] = left[v])
  BY <1>1, WakeMoves
<1> QED BY <1>2 DEF PickupInv

LEMMA TickPickup ==
  ASSUME LifeInv, PickupInv, Tick
  PROVE  PickupInv'
<1> USE LifeAssumption DEF LifeAssumption
<1> SUFFICES ASSUME NEW w \in Workers, NEW d \in Deliveries, ~erred[w], due'[d] # Never
             PROVE  /\ pc[w] = "clear" => due'[d] = 0
                    /\ pc[w] = "wait" => due'[d] + left'[w] <= Poll
  BY DEF Tick, PickupInv
<1>1. pc[w] # "clear" /\ (pc[w] = "wait" => left[w] > 0)
  BY DEF Tick, Waiting
<1>2. CASE pc[w] = "wait"
  <2>1. left'[w] = left[w] - 1 /\ left[w] \in 0..Poll
    BY <1>2 DEF Tick, LifeInv, TypeOK
  <2>2. due'[d] = Older(due[d], Poll + 1) /\ due[d] \in 0..(Poll + 1) \cup {Never}
    BY DEF Tick, LifeInv, TypeOK
  <2>3. due[d] # Never
    BY <2>2 DEF Older
  <2>4. due[d] \in Nat /\ due[d] + left[w] <= Poll
    BY <1>2, <2>2, <2>3 DEF PickupInv
  <2>5. due'[d] = due[d] + 1
    BY <1>1, <1>2, <2>1, <2>2, <2>3, <2>4 DEF Older
  <2> QED BY <1>2, <2>1, <2>4, <2>5
<1> QED BY <1>1, <1>2

LEMMA NextPickup == LifeInv /\ PickupInv /\ [Next]_vars => PickupInv'
<1> SUFFICES ASSUME LifeInv, PickupInv, [Next]_vars PROVE PickupInv'
  OBVIOUS
<1>1. CASE Start \/ Crash \/ CloseEngine
  BY <1>1 DEF Start, Crash, CloseEngine, Fresh, PickupInv
<1>2. CASE Notify \/ Signal
  BY <1>2, WakePickup DEF Notify, Signal
<1>3. CASE Cancel
  <2>1. \A w \in Workers : pc'[w] # "clear" /\ pc'[w] # "wait"
    BY <1>3 DEF Cancel, Alive, LifeInv, TypeOK
  <2> QED BY <2>1 DEF PickupInv
<1>4. ASSUME NEW d \in Deliveries, Due(d) PROVE PickupInv'
  <2>1. /\ UNCHANGED <<pc, left, erred>>
        /\ \A e \in Deliveries : due'[e] = 0 \/ due'[e] = due[e]
    BY <1>4 DEF Due, taskVars, LifeInv, TypeOK
  <2>2. \A w \in Workers : left[w] \in 0..Poll
    BY DEF LifeInv, TypeOK
  <2> QED BY <2>1, <2>2, LifeAssumption DEF LifeAssumption, PickupInv
<1>5. CASE Migrate \/ Maintain \/ PruneFails \/ Shutdown \/ StopMonitor \/ WaitGrace \/ Close
           \/ UNCHANGED vars
  BY <1>5 DEF Migrate, Maintain, SweepIncidents, Prune, MaintWakes, PruneFails, Others,
              Shutdown, StopMonitor, WaitGrace, Close, vars, taskVars, PickupInv
<1> QED BY <1>1, <1>2, <1>3, <1>4, <1>5, WorkerPickup, TickPickup DEF Next, Stop, WorkerStep

\* A lost notification costs one poll interval, whichever worker cleared it and
\* however many wait: _wait_for_work.
THEOREM IdleStaysPrompt == Spec => []IdlePickup
<1>1. LifeInv /\ PickupInv => IdlePickup
  <2> SUFFICES ASSUME LifeInv, PickupInv, NEW d \in Deliveries, NEW w \in Workers,
                      due[d] # Never, due[d] > Poll, pc[w] = "wait", ~erred[w]
               PROVE  FALSE
    BY DEF IdlePickup, LifeInv, TypeOK
  <2>1. left[w] \in Nat /\ due[d] \in Nat /\ due[d] + left[w] <= Poll
    BY DEF LifeInv, TypeOK, PickupInv
  <2> QED BY <2>1, LifeAssumption DEF LifeAssumption
<1> QED BY <1>1, InitLife, InitPickup, NextKeepsLife, NextPickup, PTL DEF Spec

-----------------------------------------------------------------------------
(* The grace period. *)

\* While the grace period runs, a worker that has not failed looks for work only
\* at its start, and waits for no longer than what a poll has left.
GraceInv ==
  /\ phase = "cancel" => grace = 0 \/ AllDone
  /\ phase \in {"grace", "cancel"} => \A w \in Workers :
       /\ pc[w] = "claim" => grace = Grace
       /\ pc[w] = "clear" /\ ~erred[w] => grace = Grace
       /\ pc[w] = "wait" /\ ~erred[w] => left[w] + Grace <= Poll + grace
  /\ OnlyJobsAreCancelled

LEMMA WorkerKeepsGrace ==
  ASSUME LifeInv, GraceInv, NEW w \in Workers, WorkerStep(w)
  PROVE  GraceInv'
<1> USE LifeAssumption DEF LifeAssumption
<1>1. /\ UNCHANGED <<phase, stopping, grace, maint, cancelled>>
      /\ pc[w] \in {"check", "claim", "job", "clear", "wait"}
      /\ \A v \in Workers : v # w => pc'[v] = pc[v] /\ left'[v] = left[v] /\ erred'[v] = erred[v]
  BY WorkerMoves DEF maintVars
<1>2. \A v \in Workers : cancelled'[v] = "no"
  BY <1>1 DEF LifeInv
<1>3. phase' = "cancel" => grace' = 0 \/ AllDone'
  BY <1>1 DEF GraceInv, AllDone, Alive
<1>4. ASSUME phase \in {"grace", "cancel"}
      PROVE  /\ pc'[w] = "claim" => grace = Grace
             /\ pc'[w] = "clear" /\ ~erred'[w] => grace = Grace
             /\ pc'[w] = "wait" /\ ~erred'[w] => left'[w] + Grace <= Poll + grace
  <2> USE <1>4 DEF LifeInv, TypeOK, Goes, Rest, GraceInv
  <2>1. CASE CheckStopping(w)
    BY <2>1 DEF CheckStopping
  <2>2. CASE Claim(w)
    BY <2>2 DEF Claim
  <2>3. CASE ClaimNothing(w)
    BY <2>3 DEF ClaimNothing
  <2>4. CASE ClearAndWait(w)
    BY <2>4 DEF ClearAndWait
  <2>5. CASE TimeOut(w)
    BY <2>5 DEF TimeOut
  <2>6. CASE LoopError(w)
    BY <2>6 DEF LoopError
  <2>7. CASE FinishJob(w)
    BY <2>7 DEF FinishJob
  <2> QED BY <2>1, <2>2, <2>3, <2>4, <2>5, <2>6, <2>7 DEF WorkerStep, Work
<1> QED BY <1>1, <1>2, <1>3, <1>4 DEF GraceInv, OnlyJobsAreCancelled

LEMMA NextKeepsGrace == LifeInv /\ GraceInv /\ [Next]_vars => GraceInv'
<1> SUFFICES ASSUME LifeInv, GraceInv, [Next]_vars PROVE GraceInv'
  OBVIOUS
<1> USE LifeAssumption, Steps DEF LifeAssumption
<1>1. CASE Start \/ Crash \/ CloseEngine
  BY <1>1 DEF Start, Crash, CloseEngine, Fresh, GraceInv, OnlyJobsAreCancelled
<1>2. CASE Notify
  BY <1>2 DEF Notify, GraceInv, OnlyJobsAreCancelled
<1>3. CASE Signal
  <2>1. /\ phase' = "grace" /\ grace' = Grace /\ UNCHANGED <<erred, cancelled>>
        /\ TypeOK /\ Wake
    BY <1>3 DEF Signal, LifeInv
  <2>2. \A w \in Workers : pc'[w] # "wait"
    BY <2>1 DEF Wake, TypeOK
  <2> QED BY <2>1, <2>2 DEF GraceInv, OnlyJobsAreCancelled
<1>4. CASE WaitGrace
  BY <1>4 DEF WaitGrace, GraceInv, OnlyJobsAreCancelled, taskVars, maintVars, AllDone, Alive, MaintAlive
<1>5. CASE Cancel
  <2>1. phase' = "vision" /\ UNCHANGED erred
    BY <1>5 DEF Cancel
  <2>2. ASSUME NEW w \in Workers, Poll < Grace, cancelled'[w] = "idle"
        PROVE  erred[w]
    <3>1. pc[w] = "wait" /\ phase = "cancel"
      BY <1>5, <2>2 DEF Cancel
    <3>2. grace = 0
      BY <3>1 DEF GraceInv, AllDone, Alive
    <3>3. ~erred[w] => left[w] + Grace <= Poll
      BY <3>1, <3>2 DEF GraceInv
    <3>4. left[w] \in Nat
      BY DEF LifeInv, TypeOK
    <3> QED BY <2>2, <3>3, <3>4
  <2> QED BY <2>1, <2>2 DEF GraceInv, OnlyJobsAreCancelled
<1>6. CASE Tick
  <2>1. UNCHANGED <<phase, pc, erred, cancelled>> /\ phase # "cancel"
    BY <1>6 DEF Tick
  <2>2. ASSUME NEW w \in Workers, phase = "grace"
        PROVE  /\ pc[w] # "claim" /\ pc[w] # "clear"
               /\ pc[w] = "wait" /\ ~erred[w] => left'[w] + Grace <= Poll + grace'
    <3>1. pc[w] # "claim" /\ pc[w] # "clear" /\ grace' = grace - 1 /\ grace \in Nat
      BY <1>6, <2>2 DEF Tick, Waiting, LifeInv, TypeOK
    <3>2. left[w] \in 0..Poll /\ (pc[w] = "wait" => left'[w] = left[w] - 1)
      BY <1>6 DEF Tick, LifeInv, TypeOK
    <3>3. pc[w] = "wait" /\ ~erred[w] => left[w] + Grace <= Poll + grace
      BY <2>2 DEF GraceInv
    <3> QED BY <3>1, <3>2, <3>3
  <2> QED BY <2>1, <2>2 DEF GraceInv, OnlyJobsAreCancelled
<1>7. CASE Migrate \/ Shutdown \/ StopMonitor \/ Close \/ \E d \in Deliveries : Due(d)
  BY <1>7 DEF Migrate, Shutdown, StopMonitor, Monitors, Close, Due, taskVars, maintVars, LifeInv,
              Closing, Clients, GraceInv, OnlyJobsAreCancelled, AllDone, Alive, MaintAlive
<1>8. CASE Maintain \/ PruneFails \/ UNCHANGED vars
  <2>1. UNCHANGED <<phase, pc, left, erred, cancelled, grace>> /\ (maint = "none" => maint' = "none")
    BY <1>8 DEF Maintain, SweepIncidents, Prune, MaintWakes, PruneFails, Others, vars, taskVars, maintVars
  <2> QED BY <2>1 DEF GraceInv, OnlyJobsAreCancelled, AllDone, Alive, MaintAlive
<1> QED BY <1>1, <1>2, <1>3, <1>4, <1>5, <1>6, <1>7, <1>8, WorkerKeepsGrace
        DEF Next, Stop, WorkerStep

\* A shutdown that leaves room for a poll cancels no idle worker, for any number
\* of them, any intervals, and whatever the wakeup was cleared by: stop().
THEOREM IdleWorkersStop == Spec => []OnlyJobsAreCancelled
<1>1. Init => GraceInv
  BY DEF Init, GraceInv, OnlyJobsAreCancelled
<1>2. GraceInv => OnlyJobsAreCancelled
  BY DEF GraceInv
<1> QED BY <1>1, <1>2, InitLife, NextKeepsLife, NextKeepsGrace, PTL DEF Spec

-----------------------------------------------------------------------------
(* Retention. *)

\* Retention is due at the next sweep, or has failed at the last one.
RetainInv ==
  /\ lastPrune # Never => pruned <= lastPrune \/ lastPrune >= Retention
  /\ maint = "wait" => failed + sweepLeft <= Sweep \/ pruned + sweepLeft <= Retention + Sweep
  /\ maint \in {"sweep", "retain"} => failed <= Sweep \/ pruned <= Retention + Sweep

LEMMA MaintainKeepsRetain ==
  ASSUME LifeInv, RetainInv, Maintain \/ PruneFails
  PROVE  RetainInv'
<1> USE LifeAssumption DEF LifeAssumption, LifeInv, TypeOK, RetainInv
<1>1. CASE SweepIncidents
  BY <1>1 DEF SweepIncidents, PruneIsDue
<1>2. CASE Prune
  BY <1>2 DEF Prune
<1>3. CASE MaintWakes
  BY <1>3 DEF MaintWakes
<1>4. CASE PruneFails
  BY <1>4 DEF PruneFails
<1> QED BY <1>1, <1>2, <1>3, <1>4 DEF Maintain

\* What a tick adds to an age it takes from a wait.
LEMMA TickKeepsSum ==
  ASSUME NEW age \in Nat, NEW older \in Nat, NEW wait \in Nat, NEW bound \in Nat,
         older <= age + 1, age + wait <= bound
  PROVE  older + (wait - 1) <= bound
OBVIOUS

LEMMA TickKeepsRetain ==
  ASSUME LifeInv, RetainInv, Tick
  PROVE  RetainInv'
<1> USE LifeAssumption DEF LifeAssumption
<1>1. /\ lastPrune \in 0..Retention \cup {Never} /\ pruned \in 0..(Retention + Sweep + 1)
      /\ failed \in 0..(Sweep + 1) \cup {Never} /\ sweepLeft \in 0..Sweep
  BY DEF LifeInv, TypeOK
<1>2. pruned' \in Nat /\ pruned' <= pruned + 1
  BY <1>1 DEF Tick, Older
<1>3. failed' \in Nat /\ (failed # Never => failed' <= failed + 1)
  BY <1>1 DEF Tick, Older
<1>4. lastPrune' # Never => /\ lastPrune # Never
                            /\ lastPrune' = lastPrune + 1 \/ lastPrune' >= Retention
  BY <1>1 DEF Tick, Older
<1>5. maint' = maint /\ maint \in {"none", "wait"}
  BY DEF Tick
<1>6. maint = "wait" => sweepLeft' = sweepLeft - 1
  BY DEF Tick
<1>7. lastPrune' # Never => pruned' <= lastPrune' \/ lastPrune' >= Retention
  BY <1>1, <1>2, <1>4 DEF RetainInv
<1>8. maint = "wait" => failed' + sweepLeft' <= Sweep \/ pruned' + sweepLeft' <= Retention + Sweep
  <2> SUFFICES ASSUME maint = "wait"
               PROVE  failed' + sweepLeft' <= Sweep \/ pruned' + sweepLeft' <= Retention + Sweep
    OBVIOUS
  <2>1. /\ sweepLeft \in Nat /\ failed \in Nat /\ pruned \in Nat /\ sweepLeft' = sweepLeft - 1
        /\ Sweep \in Nat /\ Retention \in Nat
    BY <1>1, <1>6
  <2>2. failed + sweepLeft <= Sweep => failed' + sweepLeft' <= Sweep
    <3>1. failed + sweepLeft <= Sweep => failed # Never
      BY <1>1
    <3> QED BY <1>3, <2>1, <3>1, TickKeepsSum
  <2>3. pruned + sweepLeft <= Retention + Sweep => pruned' + sweepLeft' <= Retention + Sweep
    <3>1. Retention + Sweep \in Nat
      BY <2>1
    <3> QED BY <1>2, <2>1, <3>1, TickKeepsSum
  <2> QED BY <2>2, <2>3 DEF RetainInv
<1> QED BY <1>5, <1>7, <1>8 DEF RetainInv

LEMMA NextKeepsRetain == LifeInv /\ RetainInv /\ [Next]_vars => RetainInv'
<1> SUFFICES ASSUME LifeInv, RetainInv, [Next]_vars PROVE RetainInv'
  OBVIOUS
<1>1. CASE Start
  BY <1>1, LifeAssumption DEF LifeAssumption, Start, LifeInv, RetainInv
<1>2. CASE Crash \/ CloseEngine
  BY <1>2 DEF Crash, CloseEngine, Fresh, RetainInv
<1>3. CASE Cancel
  BY <1>3 DEF Cancel, RetainInv
<1>4. CASE Migrate \/ Notify \/ Shutdown \/ StopMonitor \/ Signal \/ WaitGrace \/ Close
           \/ (\E d \in Deliveries : Due(d)) \/ UNCHANGED vars
  <2>1. UNCHANGED maintVars
    BY <1>4 DEF Migrate, Notify, Shutdown, StopMonitor, Signal, WaitGrace, Close, Due, vars
  <2> QED BY <2>1 DEF maintVars, RetainInv
<1>5. ASSUME NEW w \in Workers, WorkerStep(w) PROVE RetainInv'
  BY <1>5, WorkerMoves DEF maintVars, RetainInv
<1> QED BY <1>1, <1>2, <1>3, <1>4, <1>5, MaintainKeepsRetain, TickKeepsRetain
        DEF Next, Stop, WorkerStep

\* Failed retention is repeated after a sweep interval, for any intervals and any
\* number of failures: _maintain.
THEOREM RetentionStaysTimely == Spec => []RetentionIsTimely
<1>1. Init => RetainInv
  BY DEF Init, RetainInv
<1>2. LifeInv /\ RetainInv => RetentionIsTimely
  <2> SUFFICES ASSUME LifeInv, RetainInv, maint # "none", pruned > Retention + Sweep
               PROVE  failed <= Sweep
    BY DEF RetentionIsTimely, MaintAlive
  <2>1. sweepLeft \in Nat /\ failed \in Nat /\ pruned \in Nat /\ maint \in {"sweep", "retain", "wait"}
    BY LifeAssumption DEF LifeAssumption, LifeInv, TypeOK
  <2> QED BY <2>1, LifeAssumption DEF LifeAssumption, RetainInv
<1> QED BY <1>1, <1>2, InitLife, NextKeepsLife, NextKeepsRetain, PTL DEF Spec

-----------------------------------------------------------------------------
(* The end of a shutdown. *)

\* How many steps of the shutdown are left at step p with rest g of the grace
\* period, its seconds among them.
StepsLeft(p, g) ==
  IF p \in {"up", "down"} THEN 0
  ELSE [reconciler |-> Grace + 9, health |-> Grace + 8, signal |-> Grace + 7,
        grace |-> g + 6, cancel |-> 5, vision |-> 4, ha |-> 3, verify |-> 2, engine |-> 1][p]

ShutdownLeft == StepsLeft(phase, grace)

\* The countdown of a shutdown: nothing a job, a worker or maintenance does
\* adds to it, every step of the finally block and every second takes from it.
CountsDown ==
  phase \in Stopping =>
    /\ ShutdownLeft \in 1..(Grace + 9)
    /\ phase' \in Stopping \cup {"down"}
    /\ ShutdownLeft' <= ShutdownLeft
    /\ Stop \/ Tick \/ Crash => ShutdownLeft' < ShutdownLeft

LEMMA LeftPerStep ==
  ASSUME NEW g \in 0..Grace
  PROVE  /\ StepsLeft("down", g) = 0
         /\ StepsLeft("reconciler", g) = Grace + 9 /\ StepsLeft("health", g) = Grace + 8
         /\ StepsLeft("signal", g) = Grace + 7 /\ StepsLeft("grace", g) = g + 6
         /\ StepsLeft("cancel", g) = 5 /\ StepsLeft("vision", g) = 4
         /\ StepsLeft("ha", g) = 3 /\ StepsLeft("verify", g) = 2 /\ StepsLeft("engine", g) = 1
BY DEF StepsLeft

LEMMA StopCountsDown ==
  ASSUME LifeInv, LifeInv', Stop
  PROVE  phase' \in Stopping \cup {"down"} /\ ShutdownLeft' < ShutdownLeft
<1> USE Steps DEF ShutdownLeft
<1>1. Grace \in Nat /\ grace \in 0..Grace /\ grace' \in 0..Grace
  BY LifeAssumption DEF LifeAssumption, LifeInv, TypeOK
<1>2. CASE StopMonitor
  BY <1>1, <1>2, LeftPerStep DEF StopMonitor, Monitors
<1>3. CASE Signal
  BY <1>1, <1>3, LeftPerStep DEF Signal
<1>4. CASE WaitGrace
  BY <1>1, <1>4, LeftPerStep DEF WaitGrace
<1>5. CASE Cancel
  BY <1>1, <1>5, LeftPerStep DEF Cancel
<1>6. CASE Close
  BY <1>1, <1>6, LeftPerStep DEF Close, Clients
<1>7. CASE CloseEngine
  BY <1>1, <1>7, LeftPerStep DEF CloseEngine
<1> QED BY <1>2, <1>3, <1>4, <1>5, <1>6, <1>7 DEF Stop

LEMMA NextCountsDown == LifeInv /\ LifeInv' /\ [Next]_vars => CountsDown
<1> SUFFICES ASSUME LifeInv, LifeInv', [Next]_vars, phase \in Stopping
             PROVE  /\ ShutdownLeft \in 1..(Grace + 9)
                    /\ phase' \in Stopping \cup {"down"}
                    /\ ShutdownLeft' <= ShutdownLeft
                    /\ Stop \/ Tick \/ Crash => ShutdownLeft' < ShutdownLeft
  BY DEF CountsDown
<1>1. Grace \in Nat /\ grace \in 0..Grace /\ grace' \in 0..Grace
  BY LifeAssumption DEF LifeAssumption, LifeInv, TypeOK
<1>2. ShutdownLeft \in 1..(Grace + 9)
  BY <1>1, LeftPerStep, Steps DEF ShutdownLeft
<1>3. CASE Stop
  <2>1. phase' \in Stopping \cup {"down"} /\ ShutdownLeft' < ShutdownLeft
    BY <1>3, StopCountsDown
  <2>2. ShutdownLeft' \in Nat
    <3>1. phase' = "down" \/ phase' \in Stopping
      BY <2>1
    <3> QED BY <1>1, <3>1, LeftPerStep, Steps DEF ShutdownLeft
  <2> QED BY <1>2, <1>1, <2>1, <2>2
<1>4. CASE Crash
  <2>1. phase' = "down" /\ ShutdownLeft' = 0
    BY <1>1, <1>4, LeftPerStep DEF Crash, ShutdownLeft
  <2> QED BY <1>1, <1>2, <2>1
<1>5. CASE Tick
  <2>1. phase = "grace" /\ phase' = phase /\ grace' = grace - 1
    BY <1>5, Steps DEF Tick
  <2>2. ShutdownLeft = grace + 6 /\ ShutdownLeft' = grace' + 6
    BY <1>1, <2>1, LeftPerStep DEF ShutdownLeft
  <2> QED BY <1>1, <1>2, <2>1, <2>2, Steps
<1>6. CASE UNCHANGED <<phase, grace>> /\ ~Stop /\ ~Tick /\ ~Crash
  <2>1. ShutdownLeft' = ShutdownLeft
    BY <1>6 DEF ShutdownLeft
  <2> QED BY <1>1, <1>2, <1>6, <2>1
<1>7. UNCHANGED <<phase, grace>> \/ Stop \/ Tick \/ Crash
  <2>1. ASSUME NEW w \in Workers, WorkerStep(w) PROVE UNCHANGED <<phase, grace>>
    BY <2>1, WorkerMoves
  <2>2. ASSUME Maintain \/ PruneFails \/ (\E d \in Deliveries : Due(d)) \/ UNCHANGED vars
        PROVE  UNCHANGED <<phase, grace>>
    BY <2>2 DEF Maintain, SweepIncidents, Prune, MaintWakes, PruneFails, Others, Due, vars
  <2>3. ~Start /\ ~Migrate /\ ~Notify /\ ~Shutdown
    BY Steps DEF Start, Migrate, Notify, Shutdown
  <2> QED BY <2>1, <2>2, <2>3 DEF Next, WorkerStep
<1> QED BY <1>3, <1>4, <1>5, <1>6, <1>7

\* A shutdown counts down to the end of the process in at most its nine steps and
\* the grace period, whatever the jobs, the workers and maintenance do meanwhile:
\* the safety half of ShutdownEnds.  _lifespan's finally block and stop().
THEOREM ShutdownCountsDown == Spec => [][CountsDown]_vars
<1>1. Init /\ [][Next]_vars => []LifeInv
  BY InitLife, NextKeepsLife, PTL
<1> QED BY <1>1, NextCountsDown, PTL DEF Spec
=============================================================================
