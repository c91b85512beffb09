--------------------------- MODULE FreshFrameProofs ---------------------------
(* Theorems about FreshFrame, for any number of triggers, workers, polls and  *)
(* attempts, any tolerance, and whatever Home Assistant answers.             *)
EXTENDS FreshFrame, TLAPS

Busy == {"poll", "fetch", "check", "store"}
Open == {"absent", "queued", "held"}

\* A worker with a job: the job is held, the floor is not below its trigger, and
\* a timestamp it keeps is after the trigger and of a publication no later than
\* the one its frame was served under.
Working(w) ==
  /\ pc[w] = "idle" => held[w] = None
  /\ pc[w] # "idle" => held[w] \in Jobs /\ stage[held[w]] = "held"
  /\ pc[w] = "poll" => floor[w] >= occurred[held[w]] - Tolerance
  /\ pc[w] \in {"fetch", "check", "store"} /\ stamp[w] # None =>
       stamp[w] > occurred[held[w]] - Tolerance /\ stamp[w] <= issued
  /\ pc[w] \in {"check", "store"} /\ stamp[w] # None =>
       frame[w] # None /\ served[w] # None /\ served[w] >= stamp[w]

Exclusive == \A w, v \in Workers : w # v /\ held[w] # None => held[w] # held[v]
Camera    == picture <= issued /\ issued <= now /\ (state # None => state = issued)
Budget    == \A j \in Jobs : stage[j] \in Open => tries[j] < MaxAttempts
Kept ==
  \A i \in DOMAIN events :
    /\ stage[events[i].job] = "stored"
    /\ events[i].stamp # None =>
         /\ events[i].frame # None
         /\ events[i].served >= events[i].stamp
         /\ events[i].stamp > occurred[events[i].job] - Tolerance

Inv == TypeOK /\ (\A w \in Workers : Working(w)) /\ Exclusive /\ Camera /\ Budget /\ Kept

-----------------------------------------------------------------------------
LEMMA InitInv == Init => Inv
<1> SUFFICES ASSUME Init PROVE Inv
  OBVIOUS
<1> USE FreshAssumption DEF FreshAssumption, Init
<1>1. TypeOK
  BY DEF TypeOK, Time, Row
<1>2. (\A w \in Workers : Working(w)) /\ Exclusive /\ Camera /\ Budget /\ Kept
  BY DEF Working, Exclusive, Camera, Budget, Kept, Time
<1> QED BY <1>1, <1>2 DEF Inv

LEMMA RowsTyped ==
  ASSUME TypeOK
  PROVE  \A i \in DOMAIN events : events[i] \in Row /\ events[i].job \in Jobs
<1>1. events \in Seq(Row)
  BY DEF TypeOK
<1>2. \A i \in DOMAIN events : events[i] \in Row
  BY <1>1
<1> QED BY <1>2 DEF Row

\* A worker that does not move is not disturbed by a later publication,
\* nor by what happens to the jobs of others.
LEMMA Undisturbed ==
  ASSUME NEW v \in Workers, Working(v), TypeOK, issued' \in Time, issued' >= issued,
         pc'[v] = pc[v], held'[v] = held[v], floor'[v] = floor[v],
         stamp'[v] = stamp[v], frame'[v] = frame[v], served'[v] = served[v],
         held[v] # None => /\ stage'[held[v]] = stage[held[v]]
                           /\ occurred'[held[v]] = occurred[held[v]]
  PROVE  Working(v)'
<1> USE FreshAssumption DEF FreshAssumption
<1>1. CASE pc[v] = "idle"
  BY <1>1 DEF Working
<1>2. CASE pc[v] # "idle"
  <2>1. held[v] \in Jobs /\ held[v] # None
    BY <1>2 DEF Working, Jobs
  <2>2. stamp[v] \in Time \cup {None} /\ issued \in Time
    BY DEF TypeOK
  <2> QED BY <1>2, <2>1, <2>2 DEF Working, Time
<1> QED BY <1>1, <1>2

\* What the camera, the clock and the triggers do.
LEMMA WorldKeeps ==
  ASSUME Inv, Tick \/ (\E j \in Jobs : Trigger(j)) \/ (\E s \in Time : Publish(s)) \/ Reload
  PROVE  Inv'
<1> USE FreshAssumption DEF FreshAssumption
<1>1. CASE Tick
  <2>1. TypeOK' /\ Camera'
    BY <1>1 DEF Tick, Inv, TypeOK, Camera, Time, cameraVars, jobVars, workerVars
  <2>2. \A w \in Workers : Working(w)'
    BY <1>1 DEF Tick, Inv, Working, cameraVars, jobVars, workerVars
  <2>3. Exclusive' /\ Budget' /\ Kept'
    BY <1>1 DEF Tick, Inv, Exclusive, Budget, Kept, cameraVars, jobVars, workerVars
  <2> QED BY <2>1, <2>2, <2>3 DEF Inv
<1>2. ASSUME NEW j \in Jobs, Trigger(j) PROVE Inv'
  <2>1. TypeOK' /\ Camera'
    BY <1>2 DEF Trigger, Inv, TypeOK, Camera, cameraVars, workerVars
  <2>2. \A i \in Jobs : stage[i] # "absent" => stage'[i] = stage[i] /\ occurred'[i] = occurred[i]
    BY <1>2 DEF Trigger, Inv, TypeOK
  <2>3. ASSUME NEW w \in Workers PROVE Working(w)'
    <3>1. held[w] # None => held[w] \in Jobs /\ stage[held[w]] = "held"
      BY DEF Inv, Working
    <3>2. /\ UNCHANGED <<pc, held, floor, stamp, frame, served>> /\ issued \in Int
          /\ issued' \in Time /\ issued' = issued
      BY <1>2 DEF Trigger, Inv, TypeOK, Time, cameraVars, workerVars
    <3> QED BY <2>2, <3>1, <3>2, Undisturbed DEF Inv
  <2>4. Exclusive' /\ Budget'
    BY <1>2 DEF Trigger, Inv, TypeOK, Exclusive, Budget, Open, workerVars
  <2>5. Kept'
    <3>1. \A i \in DOMAIN events : events[i].job \in Jobs /\ stage[events[i].job] = "stored"
      BY RowsTyped DEF Inv, Kept
    <3> QED BY <1>2, <2>2, <3>1 DEF Trigger, Inv, Kept
  <2> QED BY <2>1, <2>3, <2>4, <2>5 DEF Inv
<1>3. ASSUME NEW s \in Time, Publish(s) PROVE Inv'
  <2>1. TypeOK' /\ Camera'
    BY <1>3 DEF Publish, Inv, TypeOK, Camera, Time, jobVars, workerVars
  <2>2. \A w \in Workers : Working(w)'
    <3>1. /\ UNCHANGED <<pc, held, floor, stamp, frame, served, stage, occurred>>
          /\ issued' \in Time /\ issued' >= issued
      BY <1>3 DEF Publish, Inv, TypeOK, Time, jobVars, workerVars
    <3> QED BY <3>1, Undisturbed DEF Inv
  <2>3. Exclusive' /\ Budget' /\ Kept'
    BY <1>3 DEF Publish, Inv, Exclusive, Budget, Kept, jobVars, workerVars
  <2> QED BY <2>1, <2>2, <2>3 DEF Inv
<1>4. CASE Reload
  <2>1. TypeOK' /\ Camera'
    BY <1>4 DEF Reload, Inv, TypeOK, Camera, jobVars, workerVars
  <2>2. \A w \in Workers : Working(w)'
    BY <1>4 DEF Reload, Inv, Working, jobVars, workerVars
  <2>3. Exclusive' /\ Budget' /\ Kept'
    BY <1>4 DEF Reload, Inv, Exclusive, Budget, Kept, jobVars, workerVars
  <2> QED BY <2>1, <2>2, <2>3 DEF Inv
<1> QED BY <1>1, <1>2, <1>3, <1>4

\* The other workers, when one moves and settles, or not, its own job.
LEMMA OthersKeep ==
  ASSUME Inv, NEW w \in Workers, NEW v \in Workers, v # w,
         pc'[v] = pc[v], held'[v] = held[v], floor'[v] = floor[v],
         stamp'[v] = stamp[v], frame'[v] = frame[v], served'[v] = served[v],
         UNCHANGED <<issued, occurred>>, held[w] \in Jobs,
         \A j \in Jobs : j # held[w] => stage'[j] = stage[j]
  PROVE  Working(v)'
<1>1. held[v] # None => held[v] \in Jobs /\ held[v] # held[w]
  BY DEF Inv, Exclusive, Working
<1>2. issued \in Int /\ issued' \in Time /\ issued' = issued
  BY DEF Inv, TypeOK, Time
<1>3. held[v] # None => /\ stage'[held[v]] = stage[held[v]]
                        /\ occurred'[held[v]] = occurred[held[v]]
  BY <1>1
<1> QED BY <1>2, <1>3, Undisturbed DEF Inv

\* The end of a job, with whatever it did to tries and events.
LEMMA SettleKeeps ==
  ASSUME Inv, NEW w \in Workers, pc[w] \in Busy, NEW outcome \in {"queued"} \cup Settled,
         Settle(w, outcome),
         tries' \in [Jobs -> 0..MaxAttempts], Budget', events' \in Seq(Row), Kept'
  PROVE  Inv'
<1> USE FreshAssumption DEF FreshAssumption
<1>1. held[w] \in Jobs /\ stage[held[w]] = "held"
  BY DEF Inv, Working, Busy
<1>2. TypeOK'
  <2>1. /\ now' \in Time /\ picture' \in Time /\ issued' \in Time /\ state' \in Time \cup {None}
        /\ occurred' \in [Jobs -> Time]
    BY DEF Inv, TypeOK, Settle, cameraVars
  <2>2. stage' \in [Jobs -> {"absent", "queued", "held"} \cup Settled]
    BY <1>1 DEF Inv, TypeOK, Settle
  <2>3. /\ pc' \in [Workers -> {"idle", "poll", "fetch", "check", "store"}]
        /\ held' \in [Workers -> Jobs \cup {None}]
    BY DEF Inv, TypeOK, Settle
  <2>4. floor' \in [Workers -> Int] /\ polls' \in [Workers -> 0..(PollAttempts - 1)]
    BY DEF Inv, TypeOK, Settle
  <2>5. /\ stamp' \in [Workers -> Time \cup {None}] /\ frame' \in [Workers -> Time \cup {None}]
        /\ served' \in [Workers -> Time \cup {None}]
    BY DEF Inv, TypeOK, Settle
  <2> QED BY <2>1, <2>2, <2>3, <2>4, <2>5 DEF TypeOK
<1>3. Camera'
  BY DEF Inv, Camera, Settle, cameraVars
<1>4. Exclusive'
  BY DEF Inv, TypeOK, Exclusive, Settle
<1>5. Working(w)'
  BY DEF Inv, TypeOK, Working, Settle
<1>6. ASSUME NEW v \in Workers, v # w PROVE Working(v)'
  BY <1>1, <1>6, OthersKeep DEF Inv, TypeOK, Settle, cameraVars
<1> QED BY <1>2, <1>3, <1>4, <1>5, <1>6 DEF Inv

\* One that leaves tries and events as they are.
LEMMA SettledKeeps ==
  ASSUME Inv, NEW w \in Workers, pc[w] \in Busy, NEW outcome \in Settled,
         Settle(w, outcome), UNCHANGED <<tries, events>>
  PROVE  Inv'
<1>1. held[w] \in Jobs /\ stage[held[w]] = "held"
  BY DEF Inv, Working, Busy
<1>2. stage' = [stage EXCEPT ![held[w]] = outcome] /\ UNCHANGED occurred
  BY DEF Settle
<1>3. Budget'
  BY <1>2 DEF Inv, TypeOK, Budget, Open, Settled
<1>4. Kept'
  <2>1. \A i \in DOMAIN events : events[i].job \in Jobs /\ stage[events[i].job] = "stored"
    BY RowsTyped DEF Inv, Kept
  <2> QED BY <1>1, <1>2, <2>1 DEF Inv, TypeOK, Kept
<1>5. events' \in Seq(Row) /\ tries' \in [Jobs -> 0..MaxAttempts]
  BY DEF Inv, TypeOK
<1> QED BY <1>3, <1>4, <1>5, SettleKeeps

\* A step of a worker that goes on with its job.
LEMMA MoveKeeps ==
  ASSUME Inv, NEW w \in Workers, pc[w] \in Busy, Working(w)', TypeOK',
         UNCHANGED <<now, cameraVars, occurred, jobVars, events, held>>,
         \A v \in Workers : v # w =>
           /\ pc'[v] = pc[v] /\ floor'[v] = floor[v]
           /\ stamp'[v] = stamp[v] /\ frame'[v] = frame[v] /\ served'[v] = served[v]
  PROVE  Inv'
<1>1. held[w] \in Jobs
  BY DEF Inv, Working, Busy
<1>2. ASSUME NEW v \in Workers, v # w PROVE Working(v)'
  BY <1>1, <1>2, OthersKeep DEF cameraVars, jobVars
<1>3. Exclusive' /\ Camera' /\ Budget' /\ Kept'
  BY DEF Inv, Exclusive, Camera, Budget, Kept, cameraVars, jobVars
<1> QED BY <1>2, <1>3 DEF Inv

-----------------------------------------------------------------------------
(* The steps of a worker. *)

\* The floor is at the trigger's time less the tolerance, or above it.
LEMMA FloorAboveTrigger ==
  ASSUME TypeOK, NEW j \in Jobs, NEW m \in Time \cup {None}
  PROVE  Floor(j, m) \in Int /\ Floor(j, m) >= occurred[j] - Tolerance
         /\ (m # None => Floor(j, m) >= m)
BY FreshAssumption DEF FreshAssumption, TypeOK, Time, Floor

LEMMA BeginKeeps ==
  ASSUME Inv, NEW w \in Workers, Begin(w)
  PROVE  Inv'
<1> USE FreshAssumption DEF FreshAssumption
<1>1. PICK j \in Jobs, m \in Time \cup {None} :
        /\ stage[j] = "queued"
        /\ stage' = [stage EXCEPT ![j] = "held"]
        /\ held' = [held EXCEPT ![w] = j]
        /\ floor' = [floor EXCEPT ![w] = Floor(j, m)]
  BY DEF Begin
<1>2. Floor(j, m) \in Int /\ Floor(j, m) >= occurred[j] - Tolerance
  BY FloorAboveTrigger DEF Inv
<1>3. TypeOK'
  BY <1>1, <1>2 DEF Begin, Inv, TypeOK, cameraVars
<1>4. \A v \in Workers : held[v] # None =>
        held[v] \in Jobs /\ stage[held[v]] = "held" /\ held[v] # j
  BY <1>1 DEF Inv, Working
<1>5. Exclusive'
  BY <1>1, <1>4 DEF Inv, TypeOK, Exclusive
<1>6. Working(w)'
  BY <1>1, <1>2 DEF Begin, Inv, TypeOK, Working
<1>7. ASSUME NEW v \in Workers, v # w PROVE Working(v)'
  <2>1. issued \in Int /\ issued' \in Time /\ issued' = issued
    BY DEF Begin, Inv, TypeOK, Time, cameraVars
  <2>2. held[v] # None => /\ stage'[held[v]] = stage[held[v]]
                          /\ occurred'[held[v]] = occurred[held[v]]
    BY <1>1, <1>4 DEF Begin, Inv, TypeOK
  <2>3. /\ pc'[v] = pc[v] /\ held'[v] = held[v] /\ floor'[v] = floor[v]
        /\ stamp'[v] = stamp[v] /\ frame'[v] = frame[v] /\ served'[v] = served[v]
    BY <1>1, <1>7 DEF Begin, Inv, TypeOK
  <2> QED BY <2>1, <2>2, <2>3, Undisturbed DEF Inv
<1>8. Camera' /\ Budget'
  BY <1>1 DEF Begin, Inv, TypeOK, Camera, Budget, Open, cameraVars
<1>9. Kept'
  <2>1. \A i \in DOMAIN events : events[i].job \in Jobs /\ stage[events[i].job] = "stored"
    BY RowsTyped DEF Inv, Kept
  <2> QED BY <1>1, <2>1 DEF Begin, Inv, TypeOK, Kept
<1> QED BY <1>3, <1>5, <1>6, <1>7, <1>8, <1>9 DEF Inv

LEMMA PollKeeps ==
  ASSUME Inv, NEW w \in Workers, Poll(w)
  PROVE  Inv'
<1> USE FreshAssumption DEF FreshAssumption
<1>1. pc[w] = "poll" /\ pc[w] \in Busy /\ floor[w] \in Int /\ polls[w] \in 0..(PollAttempts - 1)
  BY DEF Poll, PollFresh, PollAgain, PollUnknown, PollStale, Read, Inv, TypeOK, Busy
<1>2. held[w] \in Jobs /\ floor[w] >= occurred[held[w]] - Tolerance
  BY <1>1 DEF Inv, Working
<1>3. /\ state # None => state \in Time /\ state = issued
      /\ occurred[held[w]] \in Int
  BY <1>2 DEF Inv, TypeOK, Camera, Time
<1>4. CASE PollFresh(w) \/ PollUnknown(w)
  <2>1. /\ Read(w) /\ Leave(w)
        /\ state # None => state > floor[w]
    BY <1>4 DEF PollFresh, PollUnknown, Fresh
  <2>2. TypeOK'
    BY <2>1 DEF Read, Leave, Inv, TypeOK, cameraVars, jobVars
  <2>3. Working(w)'
    BY <1>1, <1>2, <1>3, <2>1 DEF Read, Leave, Inv, TypeOK, Working, Time, cameraVars, jobVars
  <2>4. \A v \in Workers : v # w => /\ pc'[v] = pc[v] /\ floor'[v] = floor[v]
                                   /\ stamp'[v] = stamp[v] /\ frame'[v] = frame[v] /\ served'[v] = served[v]
    BY <2>1 DEF Read, Leave, Inv, TypeOK
  <2> QED BY <1>1, <2>1, <2>2, <2>3, <2>4, MoveKeeps DEF Read
<1>5. CASE PollAgain(w)
  <2>1. TypeOK'
    <3>1. polls' \in [Workers -> 0..(PollAttempts - 1)]
      <4>1. polls[w] + 1 \in 0..(PollAttempts - 1)
        BY <1>1, <1>5 DEF PollAgain, LastPoll
      <4> QED BY <1>5, <4>1 DEF PollAgain, Inv, TypeOK
    <3> QED BY <1>5, <3>1 DEF PollAgain, Read, Inv, TypeOK, cameraVars, jobVars
  <2>2. Working(w)'
    BY <1>1, <1>2, <1>5 DEF PollAgain, Read, Inv, TypeOK, Working, cameraVars, jobVars
  <2>3. \A v \in Workers : v # w => /\ pc'[v] = pc[v] /\ floor'[v] = floor[v]
                                   /\ stamp'[v] = stamp[v] /\ frame'[v] = frame[v] /\ served'[v] = served[v]
    BY <1>5 DEF PollAgain, Read, Inv, TypeOK
  <2> QED BY <1>1, <1>5, <2>1, <2>2, <2>3, MoveKeeps DEF PollAgain, Read
<1>6. CASE PollStale(w)
  BY <1>1, <1>2, <1>6, SettledKeeps DEF PollStale, Settled
<1> QED BY <1>4, <1>5, <1>6 DEF Poll

LEMMA FetchKeeps ==
  ASSUME Inv, NEW w \in Workers, Fetch(w)
  PROVE  Inv'
<1>1. pc[w] = "fetch" /\ pc[w] \in Busy
  BY DEF Fetch, Busy
<1>2. TypeOK' /\ picture \in Time /\ issued \in Time /\ None \notin Time
  BY FreshAssumption DEF FreshAssumption, Fetch, Inv, TypeOK, Time, cameraVars, jobVars
<1>3. Working(w)'
  BY <1>1, <1>2 DEF Fetch, Inv, TypeOK, Working, cameraVars, jobVars
<1>4. \A v \in Workers : v # w => /\ pc'[v] = pc[v] /\ floor'[v] = floor[v]
                                 /\ stamp'[v] = stamp[v] /\ frame'[v] = frame[v] /\ served'[v] = served[v]
  BY DEF Fetch, Inv, TypeOK
<1> QED BY <1>1, <1>2, <1>3, <1>4, MoveKeeps DEF Fetch

LEMMA CheckKeeps ==
  ASSUME Inv, NEW w \in Workers, Check(w)
  PROVE  Inv'
<1>1. pc[w] = "check" /\ pc[w] \in Busy
  BY DEF Check, RejectUnchanged, SuppressTwin, Analyze, Busy
<1>2. held[w] \in Jobs
  BY <1>1 DEF Inv, Working
<1>3. CASE RejectUnchanged(w)
  BY <1>1, <1>2, <1>3, SettledKeeps DEF RejectUnchanged, Settled
<1>4. CASE SuppressTwin(w)
  BY <1>1, <1>2, <1>4, SettledKeeps DEF SuppressTwin, Settled
<1>5. CASE Analyze(w)
  <2>1. TypeOK'
    BY <1>5 DEF Analyze, Inv, TypeOK, cameraVars, jobVars
  <2>2. Working(w)'
    BY <1>1, <1>5 DEF Analyze, Inv, TypeOK, Working, cameraVars, jobVars
  <2>3. \A v \in Workers : v # w => /\ pc'[v] = pc[v] /\ floor'[v] = floor[v]
                                   /\ stamp'[v] = stamp[v] /\ frame'[v] = frame[v] /\ served'[v] = served[v]
    BY <1>5 DEF Analyze, Inv, TypeOK
  <2> QED BY <1>1, <1>5, <2>1, <2>2, <2>3, MoveKeeps DEF Analyze
<1> QED BY <1>3, <1>4, <1>5 DEF Check

LEMMA StoreKeeps ==
  ASSUME Inv, NEW w \in Workers, Store(w)
  PROVE  Inv'
<1> USE FreshAssumption DEF FreshAssumption
<1>1. pc[w] = "store" /\ pc[w] \in Busy /\ Settle(w, "stored") /\ UNCHANGED <<tries, occurred>>
  BY DEF Store, Busy, Settle
<1>2. held[w] \in Jobs /\ stage[held[w]] = "held"
  BY <1>1 DEF Inv, Working
<1>3. PICK r : r = [job |-> held[w], stamp |-> stamp[w], frame |-> frame[w], served |-> served[w]]
  OBVIOUS
<1>4. r \in Row /\ r.job = held[w] /\ events' = Append(events, r)
  BY <1>2, <1>3 DEF Store, Inv, TypeOK, Row
<1>5. events \in Seq(Row)
  BY DEF Inv, TypeOK
<1>6. /\ events' \in Seq(Row) /\ DOMAIN events = 1..Len(events) /\ Len(events) \in Nat
      /\ DOMAIN events' = 1..(Len(events) + 1) /\ events'[Len(events) + 1] = r
      /\ \A i \in 1..Len(events) : events'[i] = events[i]
  BY <1>4, <1>5
<1>7. stage' = [stage EXCEPT ![held[w]] = "stored"]
  BY <1>1 DEF Settle
<1>8. Kept'
  <2> SUFFICES ASSUME NEW i \in DOMAIN events'
               PROVE  /\ stage'[events'[i].job] = "stored"
                      /\ events'[i].stamp # None =>
                           /\ events'[i].frame # None
                           /\ events'[i].served >= events'[i].stamp
                           /\ events'[i].stamp > occurred[events'[i].job] - Tolerance
    BY <1>1 DEF Kept
  <2>1. CASE i \in 1..Len(events)
    <3>1. events'[i] = events[i] /\ i \in DOMAIN events /\ events[i].job \in Jobs
      BY <1>6, <2>1, RowsTyped DEF Inv
    <3> QED BY <1>2, <1>7, <3>1 DEF Inv, TypeOK, Kept
  <2>2. CASE i = Len(events) + 1
    <3>1. stage'[held[w]] = "stored"
      BY <1>2, <1>7 DEF Inv, TypeOK
    <3>2. stamp[w] # None =>
            /\ frame[w] # None /\ served[w] >= stamp[w]
            /\ stamp[w] > occurred[held[w]] - Tolerance
      BY <1>1, <1>2 DEF Inv, TypeOK, Working, Time
    <3> QED BY <1>3, <1>4, <1>6, <2>2, <3>1, <3>2
  <2> QED BY <1>6, <2>1, <2>2
<1>9. Budget' /\ tries' \in [Jobs -> 0..MaxAttempts]
  BY <1>1, <1>7 DEF Inv, TypeOK, Budget, Open
<1> QED BY <1>1, <1>6, <1>8, <1>9, SettleKeeps DEF Settled

LEMMA FaultKeeps ==
  ASSUME Inv, NEW w \in Workers, Fault(w)
  PROVE  Inv'
<1> USE FreshAssumption DEF FreshAssumption
<1>1. pc[w] \in {"poll", "fetch"} /\ pc[w] \in Busy
  BY DEF Fault, RequestFails, RequestDenied, Busy
<1>2. held[w] \in Jobs /\ stage[held[w]] = "held"
  BY <1>1 DEF Inv, Working
<1>3. CASE RequestFails(w)
  <2>1. PICK outcome : outcome = IF tries'[held[w]] < MaxAttempts THEN "queued" ELSE "failed"
    OBVIOUS
  <2>2. /\ tries' = [tries EXCEPT ![held[w]] = @ + 1] /\ UNCHANGED events
        /\ Settle(w, outcome) /\ outcome \in {"queued"} \cup Settled
    BY <1>3, <2>1 DEF RequestFails, Settled
  <2>3. stage' = [stage EXCEPT ![held[w]] = outcome] /\ UNCHANGED occurred
    BY <2>2 DEF Settle
  <2>4. tries[held[w]] < MaxAttempts /\ tries[held[w]] \in Nat
    BY <1>2 DEF Inv, TypeOK, Budget, Open
  <2>5. tries' \in [Jobs -> 0..MaxAttempts]
    BY <1>2, <2>2, <2>4 DEF Inv, TypeOK
  <2>6. Budget'
    BY <1>2, <2>1, <2>2, <2>3 DEF Inv, TypeOK, Budget, Open
  <2>7. Kept'
    <3>1. \A i \in DOMAIN events : events[i].job \in Jobs /\ stage[events[i].job] = "stored"
      BY RowsTyped DEF Inv, Kept
    <3> QED BY <1>2, <2>2, <2>3, <3>1 DEF Inv, TypeOK, Kept
  <2>8. events' \in Seq(Row)
    BY <2>2 DEF Inv, TypeOK
  <2> QED BY <1>1, <2>2, <2>5, <2>6, <2>7, <2>8, SettleKeeps
<1>4. CASE RequestDenied(w)
  <2>1. TypeOK'
    BY <1>4 DEF RequestDenied, Inv, TypeOK, cameraVars, jobVars
  <2>2. Working(w)'
    BY <1>2, <1>4 DEF RequestDenied, Inv, TypeOK, Working, cameraVars, jobVars
  <2>3. \A v \in Workers : v # w => /\ pc'[v] = pc[v] /\ floor'[v] = floor[v]
                                   /\ stamp'[v] = stamp[v] /\ frame'[v] = frame[v] /\ served'[v] = served[v]
    BY <1>4 DEF RequestDenied, Inv, TypeOK
  <2> QED BY <1>1, <1>4, <2>1, <2>2, <2>3, MoveKeeps DEF RequestDenied
<1> QED BY <1>3, <1>4 DEF Fault

LEMMA NextKeepsInv == Inv /\ [Next]_vars => Inv'
<1> SUFFICES ASSUME Inv, [Next]_vars PROVE Inv'
  OBVIOUS
<1>1. CASE Tick \/ (\E j \in Jobs : Trigger(j)) \/ (\E s \in Time : Publish(s)) \/ Reload
  BY <1>1, WorldKeeps
<1>2. ASSUME NEW w \in Workers, Work(w) \/ Fault(w) PROVE Inv'
  BY <1>2, BeginKeeps, PollKeeps, FetchKeeps, CheckKeeps, StoreKeeps, FaultKeeps DEF Work
<1>3. CASE UNCHANGED vars
  BY <1>3 DEF vars, cameraVars, jobVars, workerVars, Inv, TypeOK, Working, Exclusive,
              Camera, Budget, Kept
<1> QED BY <1>1, <1>2, <1>3 DEF Next

LEMMA SpecInv == Spec => []Inv
BY InitInv, NextKeepsInv, PTL DEF Spec

\* The variables stay in their types: the wait counts its polls and a job its
\* attempts, and neither passes its limit.
THEOREM TypesStayCorrect == Spec => []TypeOK
<1>1. Inv => TypeOK
  BY DEF Inv
<1> QED BY <1>1, SpecInv, PTL

\* Bytes stored with a confirmed timestamp were served under a publication no
\* older than it, and it is the trigger's or later, however many workers there
\* are and whatever is published again: fetch_event_image, process_delivery.
THEOREM StampsStayForTheirTrigger == Spec => []PublishedForItsTrigger
<1>1. Inv => PublishedForItsTrigger
  BY DEF Inv, Kept, PublishedForItsTrigger, Rows
<1> QED BY <1>1, SpecInv, PTL

-----------------------------------------------------------------------------
(* With one worker the rows do not change while a job is under way: what it    *)
(* read of them when it began still holds when it stores.                    *)

OneWorker == \E w : Workers = {w}

Image(i) == events[i].frame # None

\* The rows are in the order of their timestamps, and of their pictures.
Ordered ==
  \A i, k \in DOMAIN events : i < k =>
    /\ events[i].stamp # None /\ events[k].stamp # None => events[i].stamp < events[k].stamp
    /\ Image(i) /\ Image(k) => events[i].frame <= events[k].frame

\* There is a last row with an image, if there is any.
LastImage ==
  \/ \A i \in DOMAIN events : ~Image(i)
  \/ \E m \in DOMAIN events : Image(m) /\ \A i \in DOMAIN events : i > m => ~Image(i)

\* A picture in a row, or with a worker, was served before.
Served ==
  /\ \A i \in DOMAIN events : Image(i) => events[i].frame <= picture
  /\ \A w \in Workers : frame[w] # None => frame[w] <= picture

\* A picture the dedupe window no longer finds.
Forgotten(i) == occurred[events[i].job] + DedupeWindow < now

\* Rows that share a picture.
Shared ==
  \A i, k \in DOMAIN events : i < k /\ Image(i) /\ events[k].frame = events[i].frame => Forgotten(i)

\* What a worker holds is ahead of every row; a picture on its way into the table
\* is in none the dedupe window finds, and an unverified one in none at all.
Ahead(w) ==
  /\ pc[w] \in {"idle", "poll", "fetch"} => frame[w] = None
  /\ pc[w] = "check" => frame[w] # None
  /\ pc[w] = "poll" =>
       \A i \in DOMAIN events : events[i].stamp # None => events[i].stamp <= floor[w]
  /\ pc[w] \in {"fetch", "check", "store"} /\ stamp[w] # None =>
       \A i \in DOMAIN events : events[i].stamp # None => events[i].stamp < stamp[w]
  /\ frame[w] # None => \A i \in DOMAIN events : Image(i) => events[i].frame <= frame[w]
  /\ pc[w] = "store" /\ frame[w] # None =>
       \A i \in DOMAIN events : events[i].frame = frame[w] => Forgotten(i)
  /\ pc[w] = "store" /\ stamp[w] = None /\ frame[w] # None /\ InOrder =>
       \A i \in DOMAIN events : Image(i) => events[i].frame # frame[w]

SoloInv ==
  /\ Inv /\ Ordered /\ Shared /\ LastImage /\ Served /\ RepeatIsRefused
  /\ \A w \in Workers : Ahead(w)

LEMMA InitSolo == Init => SoloInv
<1> SUFFICES ASSUME Init PROVE SoloInv
  OBVIOUS
<1>1. Ordered /\ Shared /\ LastImage /\ Served /\ RepeatIsRefused
  BY DEF Init, Ordered, Shared, LastImage, Served, RepeatIsRefused
<1>2. \A w \in Workers : Ahead(w)
  BY DEF Init, Ahead
<1> QED BY <1>1, <1>2, InitInv DEF SoloInv

\* A step that stores nothing: the rows and the order of their occurrences stay,
\* and a picture the dedupe window has lost stays lost.
LEMMA RowsStay ==
  ASSUME Inv, Inv', UNCHANGED events, now' >= now,
         \A j \in Jobs : stage[j] # "absent" => occurred'[j] = occurred[j]
  PROVE  /\ InOrder' <=> InOrder
         /\ \A i \in DOMAIN events : Forgotten(i) => Forgotten(i)'
<1>1. \A i \in DOMAIN events : events[i].job \in Jobs /\ stage[events[i].job] = "stored"
  BY RowsTyped DEF Inv, Kept
<1>2. \A i \in DOMAIN events : occurred'[events[i].job] = occurred[events[i].job]
  BY <1>1
<1>3. InOrder' <=> InOrder
  BY <1>2 DEF InOrder
<1>4. \A i \in DOMAIN events : Forgotten(i) => Forgotten(i)'
  <2>1. now \in Int /\ now' \in Int /\ DedupeWindow \in Int
        /\ \A i \in DOMAIN events : occurred[events[i].job] \in Int
    BY <1>1, FreshAssumption DEF FreshAssumption, Inv, TypeOK, Time
  <2> QED BY <1>2, <2>1 DEF Forgotten
<1> QED BY <1>3, <1>4

\* The world's steps move neither rows nor workers.
LEMMA WorldSolo ==
  ASSUME SoloInv, UNCHANGED <<events, pc, held, floor, stamp, frame>>,
         picture \in Time, picture' \in Time, picture' >= picture, Inv', InOrder' <=> InOrder,
         \A i \in DOMAIN events : Forgotten(i) => Forgotten(i)'
  PROVE  SoloInv'
<1>1. Ordered' /\ LastImage' /\ Shared'
  <2>1. Ordered' /\ LastImage'
    BY DEF SoloInv, Ordered, LastImage, Image
  <2>2. Shared'
    BY DEF SoloInv, Shared, Image
  <2> QED BY <2>1, <2>2
<1>2. RepeatIsRefused'
  BY DEF SoloInv, RepeatIsRefused
<1>3. /\ \A i \in DOMAIN events : Image(i) => events[i].frame \in Time
      /\ \A w \in Workers : frame[w] \in Time \cup {None}
  BY RowsTyped DEF SoloInv, Inv, TypeOK, Row, Image
<1>4. Served'
  BY <1>3 DEF SoloInv, Served, Image, Time
<1>5. \A w \in Workers : Ahead(w)'
  BY DEF SoloInv, Ahead, Image
<1> QED BY <1>1, <1>2, <1>4, <1>5 DEF SoloInv

LEMMA WorldKeepsSolo ==
  ASSUME SoloInv, Tick \/ (\E j \in Jobs : Trigger(j)) \/ (\E s \in Time : Publish(s)) \/ Reload
  PROVE  SoloInv'
<1>1. Inv' /\ Inv
  BY WorldKeeps DEF SoloInv
<1>2. UNCHANGED <<events, pc, held, floor, stamp, frame>>
  BY DEF Tick, Trigger, Publish, Reload, workerVars
<1>3. /\ picture \in Time /\ picture' \in Time /\ picture' >= picture
      /\ now' >= now
  BY <1>1 DEF Tick, Trigger, Publish, Reload, cameraVars, Inv, TypeOK, Time, Camera
<1>4. \A j \in Jobs : stage[j] # "absent" => occurred'[j] = occurred[j]
  BY <1>1 DEF Tick, Trigger, Publish, Reload, Inv, TypeOK
<1> QED BY <1>1, <1>2, <1>3, <1>4, RowsStay, WorldSolo

\* A step of the worker that stores nothing.
LEMMA QuietSolo ==
  ASSUME OneWorker, SoloInv, Inv', NEW w \in Workers,
         UNCHANGED <<events, picture, occurred, now>>,
         frame[w] = frame'[w] \/ frame'[w] \in {None, picture},
         Ahead(w)'
  PROVE  SoloInv'
<1>1. Workers = {w}
  BY DEF OneWorker
<1>2. Ordered' /\ LastImage' /\ RepeatIsRefused' /\ Shared'
  BY DEF SoloInv, Ordered, LastImage, Image, RepeatIsRefused, InOrder, Shared, Forgotten
<1>3. picture \in Int
  BY DEF SoloInv, Inv, TypeOK, Time
<1>4. Served'
  BY <1>1, <1>3 DEF SoloInv, Served, Image
<1> QED BY <1>1, <1>2, <1>4 DEF SoloInv

\* The end of a job that stores nothing.
LEMMA SettledSolo ==
  ASSUME OneWorker, SoloInv, Inv', NEW w \in Workers, NEW outcome, Settle(w, outcome),
         UNCHANGED events
  PROVE  SoloInv'
<1>1. pc'[w] = "idle" /\ frame'[w] = None
  BY DEF Settle, SoloInv, Inv, TypeOK
<1>2. Ahead(w)'
  BY <1>1 DEF Ahead
<1> QED BY <1>1, <1>2, QuietSolo DEF Settle, cameraVars

LEMMA BeginSolo ==
  ASSUME OneWorker, SoloInv, Inv', NEW w \in Workers, Begin(w)
  PROVE  SoloInv'
<1> USE FreshAssumption DEF FreshAssumption
<1>1. PICK j \in Jobs, m \in Time \cup {None} :
        LastSeen(m) /\ floor' = [floor EXCEPT ![w] = Floor(j, m)]
  BY DEF Begin
<1>2. Floor(j, m) \in Int /\ (m # None => Floor(j, m) >= m)
  BY FloorAboveTrigger DEF SoloInv, Inv
<1>3. pc[w] = "idle" /\ pc'[w] = "poll" /\ frame'[w] = None /\ floor'[w] = Floor(j, m)
  BY <1>1 DEF Begin, SoloInv, Ahead, Inv, TypeOK
<1>4. ASSUME NEW i \in DOMAIN events, events[i].stamp # None
      PROVE  events[i].stamp <= floor'[w]
  <2>1. events[i].stamp \in ConsumedStamps /\ events[i].stamp \in Int
    BY <1>4, RowsTyped DEF SoloInv, Inv, ConsumedStamps, Rows, Row, Time
  <2>2. m # None /\ events[i].stamp <= m /\ m \in Int
    BY <1>1, <2>1 DEF LastSeen, ConsumedStamps, Time
  <2> QED BY <1>2, <1>3, <2>1, <2>2
<1>5. Ahead(w)'
  BY <1>3, <1>4 DEF Ahead, Begin
<1> QED BY <1>3, <1>5, QuietSolo DEF Begin, cameraVars, SoloInv, Ahead

LEMMA PollSolo ==
  ASSUME OneWorker, SoloInv, Inv', NEW w \in Workers, Poll(w)
  PROVE  SoloInv'
<1> USE FreshAssumption DEF FreshAssumption
<1>1. CASE PollStale(w)
  BY <1>1, SettledSolo DEF PollStale
<1>2. CASE PollFresh(w) \/ PollUnknown(w) \/ PollAgain(w)
  <2>1. /\ Read(w) /\ pc[w] = "poll" /\ frame[w] = None
        /\ UNCHANGED <<frame, events, picture, occurred, now>>
    BY <1>2 DEF PollFresh, PollUnknown, PollAgain, Read, SoloInv, Ahead, cameraVars
  <2>2. stamp'[w] = state /\ floor[w] \in Int
    BY <2>1 DEF Read, SoloInv, Inv, TypeOK
  <2>3. \A i \in DOMAIN events : events[i].stamp # None =>
          events[i].stamp <= floor[w] /\ events[i].stamp \in Int
    BY <2>1, RowsTyped DEF SoloInv, Ahead, Inv, Row, Time
  <2>4. CASE PollFresh(w) \/ PollUnknown(w)
    <3>1. pc'[w] = "fetch" /\ (state # None => state > floor[w] /\ state \in Int)
      BY <2>4 DEF PollFresh, PollUnknown, Leave, Fresh, SoloInv, Inv, TypeOK, Time
    <3>2. Ahead(w)'
      BY <2>1, <2>2, <2>3, <3>1 DEF Ahead
    <3> QED BY <2>1, <3>2, QuietSolo
  <2>5. CASE PollAgain(w)
    <3>1. pc'[w] = "poll" /\ floor'[w] = floor[w]
      BY <2>1, <2>5 DEF PollAgain
    <3>2. Ahead(w)'
      BY <2>1, <2>3, <3>1 DEF Ahead
    <3> QED BY <2>1, <3>2, QuietSolo
  <2> QED BY <1>2, <2>4, <2>5
<1> QED BY <1>1, <1>2 DEF Poll

LEMMA FetchSolo ==
  ASSUME OneWorker, SoloInv, Inv', NEW w \in Workers, Fetch(w)
  PROVE  SoloInv'
<1>1. /\ pc[w] = "fetch" /\ pc'[w] = "check" /\ frame'[w] = picture /\ picture # None
      /\ stamp'[w] = stamp[w] /\ UNCHANGED <<events, picture, occurred, now>>
  BY FreshAssumption DEF FreshAssumption, Fetch, SoloInv, Inv, TypeOK, Time, cameraVars
<1>2. \A i \in DOMAIN events : Image(i) => events[i].frame <= picture
  BY DEF SoloInv, Served
<1>3. Ahead(w)'
  BY <1>1, <1>2 DEF SoloInv, Ahead, Image
<1> QED BY <1>1, <1>3, QuietSolo

\* Of rows in the order of their occurrences, the last with an image is the one
\* the fallback compares with, and no earlier one has a newer picture.
LEMMA LatestIsLast ==
  ASSUME SoloInv, InOrder, NEW f \in Time, NEW i \in DOMAIN events, events[i].frame = f,
         \A k \in DOMAIN events : Image(k) => events[k].frame <= f
  PROVE  LatestFrames = {f}
<1> USE FreshAssumption DEF FreshAssumption
<1>1. f # None /\ f \in Int /\ Image(i)
  BY DEF Time, Image
<1>2. PICK m \in DOMAIN events : Image(m) /\ \A k \in DOMAIN events : k > m => ~Image(k)
  BY <1>1 DEF SoloInv, LastImage
<1>3. DOMAIN events \subseteq Int
  BY DEF SoloInv, Inv, TypeOK
<1>4. i <= m
  BY <1>1, <1>2, <1>3
<1>5. events[m].frame \in Int /\ events[m].frame >= f
  BY <1>1, <1>2, <1>3, <1>4, RowsTyped DEF SoloInv, Ordered, Inv, Row, Time, Image
<1>6. events[m].frame = f
  BY <1>1, <1>2, <1>5
<1>7. \A k \in DOMAIN events : Image(k) /\ k # m =>
        occurred[events[k].job] < occurred[events[m].job]
  BY <1>2, <1>3 DEF InOrder
<1>8. \A k \in DOMAIN events : occurred[events[k].job] \in Int
  BY RowsTyped DEF SoloInv, Inv, TypeOK, Time
<1>9. \A s \in WithImage : occurred[s.job] <= occurred[events[m].job]
  BY <1>7, <1>8 DEF WithImage, Rows, Image
<1>10. events[m] \in WithImage
  BY <1>2 DEF WithImage, Rows, Image
<1>11. ASSUME NEW s \in WithImage, \A t \in WithImage : occurred[t.job] <= occurred[s.job]
       PROVE  s = events[m]
  <2>1. PICK k \in DOMAIN events : s = events[k] /\ Image(k)
    BY DEF WithImage, Rows, Image
  <2>2. occurred[events[m].job] <= occurred[events[k].job]
    BY <1>10, <1>11, <2>1
  <2> QED BY <1>7, <1>8, <2>1, <2>2
<1> QED BY <1>6, <1>9, <1>10, <1>11 DEF LatestFrames

LEMMA CheckSolo ==
  ASSUME OneWorker, SoloInv, Inv', NEW w \in Workers, Check(w)
  PROVE  SoloInv'
<1>1. CASE RejectUnchanged(w)
  BY <1>1, SettledSolo DEF RejectUnchanged
<1>2. CASE SuppressTwin(w)
  BY <1>2, SettledSolo DEF SuppressTwin
<1>3. CASE Analyze(w)
  <2>1. /\ pc[w] = "check" /\ pc'[w] = "store"
        /\ UNCHANGED <<events, picture, occurred, now, stamp, frame>> /\ ~Twin(frame[w])
        /\ stamp[w] = None => LatestFrames # {frame[w]}
    BY <1>3 DEF Analyze, Changed, Verified, SoloInv, Inv, TypeOK, cameraVars
  <2>2. /\ frame[w] # None /\ frame[w] \in Time
        /\ \A i \in DOMAIN events : Image(i) => events[i].frame <= frame[w]
    BY <2>1 DEF SoloInv, Ahead, Inv, TypeOK
  <2>3. stamp[w] = None /\ InOrder =>
          \A i \in DOMAIN events : Image(i) => events[i].frame # frame[w]
    BY <2>1, <2>2, LatestIsLast
  <2>4. ASSUME NEW i \in DOMAIN events, events[i].frame = frame[w] PROVE Forgotten(i)
    <3>1. events[i] \in WithImage
      BY <2>2, <2>4 DEF WithImage, Rows
    <3>2. ~(occurred[events[i].job] >= now - DedupeWindow)
      BY <2>1, <2>4, <3>1 DEF Twin
    <3>3. now \in Int /\ DedupeWindow \in Int /\ occurred[events[i].job] \in Int
      <4>1. events[i].job \in Jobs
        BY RowsTyped DEF SoloInv, Inv
      <4> QED BY <4>1, FreshAssumption DEF FreshAssumption, SoloInv, Inv, TypeOK, Time
    <3> QED BY <3>2, <3>3 DEF Forgotten
  <2>5. Ahead(w)'
    <3>1. \A i \in DOMAIN events' : events'[i].frame = frame'[w] => Forgotten(i)'
      BY <2>1, <2>4 DEF Forgotten
    <3>2. frame'[w] # None => \A i \in DOMAIN events' : Image(i)' => events'[i].frame <= frame'[w]
      BY <2>1, <2>2 DEF Image
    <3>3. stamp'[w] = None /\ InOrder' =>
            \A i \in DOMAIN events' : Image(i)' => events'[i].frame # frame'[w]
      BY <2>1, <2>3 DEF Image, InOrder
    <3> QED BY <2>1, <3>1, <3>2, <3>3 DEF SoloInv, Ahead, Image
  <2> QED BY <2>1, <2>5, QuietSolo
<1> QED BY <1>1, <1>2, <1>3 DEF Check

LEMMA FaultSolo ==
  ASSUME OneWorker, SoloInv, Inv', NEW w \in Workers, Fault(w)
  PROVE  SoloInv'
<1>1. CASE RequestFails(w)
  BY <1>1, SettledSolo DEF RequestFails
<1>2. CASE RequestDenied(w)
  <2>1. /\ pc'[w] = "store" /\ stamp'[w] = None /\ frame'[w] = None /\ frame[w] = None
        /\ UNCHANGED <<events, picture, occurred, now>>
    BY <1>2 DEF RequestDenied, SoloInv, Ahead, Inv, TypeOK, cameraVars
  <2>2. Ahead(w)'
    BY <2>1 DEF Ahead
  <2> QED BY <2>1, <2>2, QuietSolo
<1> QED BY <1>1, <1>2 DEF Fault

LEMMA StoreSolo ==
  ASSUME OneWorker, SoloInv, Inv', NEW w \in Workers, Store(w)
  PROVE  SoloInv'
<1> USE FreshAssumption DEF FreshAssumption
<1>1. PICK r, n : /\ r = [job |-> held[w], stamp |-> stamp[w], frame |-> frame[w], served |-> served[w]]
                  /\ n = Len(events)
  OBVIOUS
<1>2. /\ pc[w] = "store" /\ events' = Append(events, r) /\ Settle(w, "stored")
      /\ UNCHANGED <<picture, occurred, now>> /\ Workers = {w}
  BY <1>1 DEF Store, Settle, cameraVars, OneWorker
<1>3. events \in Seq(Row) /\ Inv
  BY DEF SoloInv, Inv, TypeOK
<1>4. /\ n \in Nat /\ DOMAIN events = 1..n /\ DOMAIN events' = 1..(n + 1)
      /\ events'[n + 1] = r /\ \A i \in 1..n : events'[i] = events[i]
  BY <1>1, <1>2, <1>3
<1>5. /\ stamp[w] \in Time \cup {None} /\ frame[w] \in Time \cup {None} /\ picture \in Int
      /\ r.job = held[w] /\ r.stamp = stamp[w] /\ r.frame = frame[w]
  BY <1>1, <1>3 DEF Inv, TypeOK, Time
<1>6. /\ stamp[w] # None =>
           \A i \in 1..n : events[i].stamp # None => events[i].stamp < stamp[w]
      /\ frame[w] # None =>
           /\ frame[w] <= picture
           /\ \A i \in 1..n : events[i].frame # None => events[i].frame <= frame[w]
           /\ \A i \in 1..n : events[i].frame = frame[w] =>
                occurred[events[i].job] + DedupeWindow < now
      /\ stamp[w] = None /\ frame[w] # None /\ InOrder =>
           \A i \in 1..n : events[i].frame # None => events[i].frame # frame[w]
  BY <1>2, <1>4 DEF SoloInv, Ahead, Served, Image, Forgotten
<1>7. \A i \in 1..(n + 1) : i \in 1..n \/ i = n + 1
  BY <1>4
<1>8. Ordered'
  <2> SUFFICES ASSUME NEW i \in 1..(n + 1), NEW k \in 1..(n + 1), i < k
               PROVE  /\ events'[i].stamp # None /\ events'[k].stamp # None =>
                           events'[i].stamp < events'[k].stamp
                      /\ events'[i].frame # None /\ events'[k].frame # None =>
                           events'[i].frame <= events'[k].frame
    BY <1>4 DEF Ordered, Image
  <2>1. i \in 1..n /\ events'[i] = events[i]
    BY <1>4
  <2>2. CASE k \in 1..n
    <3>1. events'[k] = events[k]
      BY <1>4, <2>2
    <3> QED BY <1>4, <2>1, <2>2, <3>1 DEF SoloInv, Ordered, Image
  <2>3. CASE k = n + 1
    <3>1. events'[k] = r
      BY <1>4, <2>3
    <3> QED BY <1>5, <1>6, <2>1, <3>1
  <2> QED BY <1>7, <2>2, <2>3
<1>9. LastImage'
  <2>1. CASE frame[w] # None
    <3>1. n + 1 \in DOMAIN events' /\ Image(n + 1)'
      BY <1>4, <1>5, <2>1 DEF Image
    <3>2. \A i \in DOMAIN events' : ~(i > n + 1)
      BY <1>4
    <3> QED BY <3>1, <3>2 DEF LastImage
  <2>2. CASE frame[w] = None
    <3>1. \A i \in 1..n : Image(i)' <=> Image(i)
      BY <1>4 DEF Image
    <3>2. ~Image(n + 1)'
      BY <1>4, <1>5, <2>2 DEF Image
    <3>3. CASE \A i \in DOMAIN events : ~Image(i)
      BY <1>4, <1>7, <3>1, <3>2, <3>3 DEF LastImage
    <3>4. CASE \E m \in DOMAIN events : Image(m) /\ \A i \in DOMAIN events : i > m => ~Image(i)
      <4>1. PICK m \in 1..n : Image(m) /\ \A i \in 1..n : i > m => ~Image(i)
        BY <1>4, <3>4
      <4>2. m \in DOMAIN events' /\ Image(m)'
        BY <1>4, <3>1, <4>1
      <4>3. \A i \in DOMAIN events' : i > m => ~Image(i)'
        BY <1>4, <1>7, <3>1, <3>2, <4>1
      <4> QED BY <4>2, <4>3 DEF LastImage
    <3> QED BY <3>3, <3>4 DEF SoloInv, LastImage
  <2> QED BY <2>1, <2>2
<1>10. Served'
  <2>1. ASSUME NEW i \in 1..(n + 1), events'[i].frame # None PROVE events'[i].frame <= picture
    <3>1. CASE i \in 1..n
      BY <1>4, <2>1, <3>1 DEF SoloInv, Served, Image
    <3>2. CASE i = n + 1
      BY <1>4, <1>5, <1>6, <2>1, <3>2
    <3> QED BY <1>7, <3>1, <3>2
  <2>2. frame'[w] = None
    BY <1>2, <1>3 DEF Settle, Inv, TypeOK
  <2> QED BY <1>2, <1>4, <2>1, <2>2 DEF Served, Image
<1>11. InOrder' => InOrder
  BY <1>2, <1>4 DEF InOrder
<1>12. RepeatIsRefused'
  <2> SUFFICES ASSUME InOrder', NEW i \in 1..(n + 1), NEW k \in 1..(n + 1), i < k,
                      events'[k].frame # None, events'[k].stamp = None
               PROVE  events'[i].frame # events'[k].frame
    BY <1>4 DEF RepeatIsRefused
  <2>1. i \in 1..n /\ events'[i] = events[i] /\ InOrder
    BY <1>4, <1>11
  <2>2. CASE k \in 1..n
    <3>1. events'[k] = events[k]
      BY <1>4, <2>2
    <3> QED BY <1>4, <2>1, <2>2, <3>1 DEF SoloInv, RepeatIsRefused
  <2>3. CASE k = n + 1
    <3>1. events'[k] = r
      BY <1>4, <2>3
    <3> QED BY <1>5, <1>6, <2>1, <3>1
  <2> QED BY <1>7, <2>2, <2>3
<1>13. Shared'
  <2> SUFFICES ASSUME NEW i \in 1..(n + 1), NEW k \in 1..(n + 1), i < k,
                      events'[i].frame # None, events'[k].frame = events'[i].frame
               PROVE  occurred[events'[i].job] + DedupeWindow < now
    BY <1>2, <1>4 DEF Shared, Image, Forgotten
  <2>1. i \in 1..n /\ events'[i] = events[i]
    BY <1>4
  <2>2. CASE k \in 1..n
    <3>1. events'[k] = events[k]
      BY <1>4, <2>2
    <3> QED BY <1>4, <2>1, <2>2, <3>1 DEF SoloInv, Shared, Image, Forgotten
  <2>3. CASE k = n + 1
    <3>1. events'[k] = r
      BY <1>4, <2>3
    <3> QED BY <1>5, <1>6, <2>1, <3>1
  <2> QED BY <1>7, <2>2, <2>3
<1>14. Ahead(w)'
  <2>1. pc'[w] = "idle" /\ frame'[w] = None
    BY <1>2, <1>3 DEF Settle, Inv, TypeOK
  <2> QED BY <2>1 DEF Ahead
<1> QED BY <1>2, <1>8, <1>9, <1>10, <1>12, <1>13, <1>14 DEF SoloInv

LEMMA NextKeepsSolo == OneWorker /\ SoloInv /\ [Next]_vars => SoloInv'
<1> SUFFICES ASSUME OneWorker, SoloInv, [Next]_vars PROVE SoloInv'
  OBVIOUS
<1>0. Inv'
  BY NextKeepsInv DEF SoloInv
<1>1. CASE Tick \/ (\E j \in Jobs : Trigger(j)) \/ (\E s \in Time : Publish(s)) \/ Reload
  BY <1>1, WorldKeepsSolo
<1>2. ASSUME NEW w \in Workers, Work(w) \/ Fault(w) PROVE SoloInv'
  BY <1>0, <1>2, BeginSolo, PollSolo, FetchSolo, CheckSolo, StoreSolo, FaultSolo DEF Work
<1>3. CASE UNCHANGED vars
  BY <1>0, <1>3 DEF vars, cameraVars, jobVars, workerVars, SoloInv, Ordered, LastImage,
                    Served, RepeatIsRefused, Ahead, Image, InOrder, Shared, Forgotten
<1> QED BY <1>1, <1>2, <1>3 DEF Next

LEMMA SpecSolo == ASSUME OneWorker PROVE Spec => []SoloInv
<1>1. SoloInv /\ [Next]_vars => SoloInv'
  BY NextKeepsSolo
<1> QED BY <1>1, InitSolo, PTL DEF Spec

\* With one worker no timestamp serves two events, and no picture does while the
\* dedupe window of the earlier one lasts, although both are read before the
\* wait, the fetch and the analysis and used after: latest_source_state_ts,
\* find_recent_by_content_hash, process_delivery.
THEOREM ReuseStaysBounded == ASSUME OneWorker PROVE Spec => []ReuseIsBounded
<1>1. SoloInv => ReuseIsBounded
  BY DEF SoloInv, Ordered, Shared, Image, Forgotten, ReuseIsBounded
<1> QED BY <1>1, SpecSolo, PTL

\* With one worker, a picture without a timestamp is stored once while events are
\* stored in order, whatever time passes: latest_content_hash and the fallback.
THEOREM RepeatStaysRefused == ASSUME OneWorker PROVE Spec => []RepeatIsRefused
<1>1. SoloInv => RepeatIsRefused
  BY DEF SoloInv
<1> QED BY <1>1, SpecSolo, PTL

-----------------------------------------------------------------------------
(* Why a trigger is refused as stale, however many workers there are. *)

\* The floor of a wait is the trigger's, or a timestamp some row has consumed.
Attributed(w) ==
  pc[w] = "poll" =>
    \/ floor[w] = occurred[held[w]] - Tolerance
    \/ \E i \in DOMAIN events : events[i].stamp # None /\ events[i].stamp = floor[w]

\* Rows are never removed or changed, nor is the time of a trigger that fired.
LEMMA RowsStand ==
  ASSUME Inv, [Next]_vars
  PROVE  /\ \A i \in DOMAIN events : i \in DOMAIN events' /\ events'[i] = events[i]
         /\ \A j \in Jobs : stage[j] # "absent" => occurred'[j] = occurred[j]
<1>1. events \in Seq(Row)
  BY DEF Inv, TypeOK
<1>2. CASE \E w \in Workers : Store(w)
  <2>0. PICK w \in Workers : Store(w)
    BY <1>2
  <2>1. PICK r \in {[job |-> held[w], stamp |-> stamp[w], frame |-> frame[w], served |-> served[w]]} :
          events' = Append(events, r) /\ UNCHANGED occurred
    BY <2>0 DEF Store, Settle
  <2>2. \A i \in DOMAIN events : i \in DOMAIN events' /\ events'[i] = events[i]
    BY <1>1, <2>1
  <2> QED BY <2>1, <2>2
<1>3. CASE \E w \in Workers : Begin(w) \/ Poll(w) \/ Fetch(w) \/ Check(w) \/ Fault(w)
  <2>1. PICK w \in Workers : Begin(w) \/ Poll(w) \/ Fetch(w) \/ Check(w) \/ Fault(w)
    BY <1>3
  <2>2. CASE Begin(w) \/ Fetch(w)
    BY <2>2 DEF Begin, Fetch
  <2>3. CASE Poll(w)
    BY <2>3 DEF Poll, PollFresh, PollAgain, PollUnknown, PollStale, Read, Settle
  <2>4. CASE Check(w) \/ Fault(w)
    BY <2>4 DEF Check, RejectUnchanged, SuppressTwin, Analyze, Fault, RequestFails,
                RequestDenied, Settle
  <2> QED BY <2>1, <2>2, <2>3, <2>4
<1>4. CASE Tick \/ (\E s \in Time : Publish(s)) \/ Reload \/ UNCHANGED vars
  BY <1>4 DEF Tick, Publish, Reload, vars
<1>5. CASE \E j \in Jobs : Trigger(j)
  BY <1>5 DEF Trigger, Inv, TypeOK
<1> QED BY <1>2, <1>3, <1>4, <1>5 DEF Next, Work

\* A wait that goes on keeps its job and its floor; one that begins takes it
\* from the trigger or from the newest row.
LEMMA AttributedStays ==
  ASSUME Inv, \A w \in Workers : Attributed(w), [Next]_vars, NEW v \in Workers
  PROVE  Attributed(v)'
<1> USE FreshAssumption DEF FreshAssumption
<1>1. CASE pc[v] = "poll" /\ pc'[v] = "poll" /\ floor'[v] = floor[v] /\ held'[v] = held[v]
  <2>1. held[v] \in Jobs /\ stage[held[v]] # "absent"
    BY <1>1 DEF Inv, Working
  <2>2. occurred'[held[v]] = occurred[held[v]]
    BY <2>1, RowsStand
  <2>3. CASE floor[v] = occurred[held[v]] - Tolerance
    BY <1>1, <2>2, <2>3 DEF Attributed
  <2>4. CASE \E i \in DOMAIN events : events[i].stamp # None /\ events[i].stamp = floor[v]
    <3>1. PICK i \in DOMAIN events : events[i].stamp # None /\ events[i].stamp = floor[v]
      BY <2>4
    <3>2. i \in DOMAIN events' /\ events'[i] = events[i]
      BY RowsStand
    <3> QED BY <1>1, <3>1, <3>2 DEF Attributed
  <2> QED BY <1>1, <2>3, <2>4 DEF Attributed
<1>2. CASE pc'[v] # "poll"
  BY <1>2 DEF Attributed
<1>3. CASE Begin(v)
  <2>1. PICK j \in Jobs, m \in Time \cup {None} :
          /\ LastSeen(m) /\ held' = [held EXCEPT ![v] = j]
          /\ floor' = [floor EXCEPT ![v] = Floor(j, m)]
    BY <1>3 DEF Begin
  <2>2. held'[v] = j /\ floor'[v] = Floor(j, m) /\ UNCHANGED <<occurred, events>>
    BY <1>3, <2>1 DEF Begin, Inv, TypeOK
  <2>3. CASE Floor(j, m) = occurred[j] - Tolerance
    BY <2>2, <2>3 DEF Attributed
  <2>4. CASE Floor(j, m) # occurred[j] - Tolerance
    <3>1. m # None /\ Floor(j, m) = m
      BY <2>4 DEF Floor
    <3>2. m \in ConsumedStamps
      BY <2>1, <3>1 DEF LastSeen
    <3>3. PICK i \in DOMAIN events : events[i].stamp = m
      BY <3>2 DEF ConsumedStamps, Rows
    <3> QED BY <2>2, <3>1, <3>3 DEF Attributed
  <2> QED BY <2>3, <2>4
<1>4. \/ pc'[v] # "poll" \/ Begin(v)
      \/ pc[v] = "poll" /\ pc'[v] = "poll" /\ floor'[v] = floor[v] /\ held'[v] = held[v]
  <2>1. CASE Tick \/ (\E j \in Jobs : Trigger(j)) \/ (\E s \in Time : Publish(s)) \/ Reload
             \/ UNCHANGED vars
    BY <2>1 DEF Tick, Trigger, Publish, Reload, vars, workerVars
  <2>2. ASSUME NEW w \in Workers, Begin(w) \/ Fetch(w) \/ Store(w)
        PROVE  \/ pc'[v] # "poll" \/ Begin(v)
               \/ /\ pc[v] = "poll" /\ pc'[v] = "poll"
                  /\ floor'[v] = floor[v] /\ held'[v] = held[v]
    <3>1. CASE w = v
      BY <2>2, <3>1 DEF Begin, Fetch, Store, Settle, Inv, TypeOK
    <3>2. CASE w # v
      <4>1. pc'[v] = pc[v] /\ floor'[v] = floor[v] /\ held'[v] = held[v]
        <5>1. CASE Begin(w)
          BY <3>2, <5>1 DEF Begin, Inv, TypeOK
        <5>2. CASE Fetch(w)
          BY <3>2, <5>2 DEF Fetch, Inv, TypeOK
        <5>3. CASE Store(w)
          BY <3>2, <5>3 DEF Store, Settle, Inv, TypeOK
        <5> QED BY <2>2, <5>1, <5>2, <5>3
      <4> QED BY <4>1
    <3> QED BY <3>1, <3>2
  <2>3. ASSUME NEW w \in Workers, Poll(w)
        PROVE  \/ pc'[v] # "poll" \/ Begin(v)
               \/ /\ pc[v] = "poll" /\ pc'[v] = "poll"
                  /\ floor'[v] = floor[v] /\ held'[v] = held[v]
    BY <2>3 DEF Poll, PollFresh, PollAgain, PollUnknown, PollStale, Read, Leave, Settle,
                Inv, TypeOK
  <2>4. ASSUME NEW w \in Workers, Check(w) \/ Fault(w)
        PROVE  \/ pc'[v] # "poll" \/ Begin(v)
               \/ /\ pc[v] = "poll" /\ pc'[v] = "poll"
                  /\ floor'[v] = floor[v] /\ held'[v] = held[v]
    BY <2>4 DEF Check, RejectUnchanged, SuppressTwin, Analyze, Fault, RequestFails,
                RequestDenied, Settle, Inv, TypeOK
  <2> QED BY <2>1, <2>2, <2>3, <2>4 DEF Next, Work
<1> QED BY <1>1, <1>2, <1>3, <1>4

\* What the property says of one step.
Justified(j) ==
  \/ issued <= occurred[j] - Tolerance
  \/ \E r \in Rows : r.stamp # None /\ r.stamp >= issued
  \/ \E w \in Workers : held[w] = j /\ \E r \in Rows : r.frame = frame[w] /\ frame[w] # None

LEMMA StaleStep ==
  ASSUME Inv, \A w \in Workers : Attributed(w), Next,
         NEW j \in Jobs, stage[j] # "stale", stage'[j] = "stale"
  PROVE  Justified(j)
<1> USE FreshAssumption DEF FreshAssumption
<1>1. ASSUME NEW w \in Workers, PollStale(w) PROVE Justified(j)
  <2>1. /\ pc[w] = "poll" /\ state # None /\ state <= floor[w]
        /\ stage' = [stage EXCEPT ![held[w]] = "stale"]
    BY <1>1 DEF PollStale, Settle
  <2>2. j = held[w] /\ state = issued
    BY <2>1 DEF Inv, TypeOK, Camera
  <2>3. CASE floor[w] = occurred[held[w]] - Tolerance
    BY <2>1, <2>2, <2>3 DEF Justified
  <2>4. CASE \E i \in DOMAIN events : events[i].stamp # None /\ events[i].stamp = floor[w]
    <3>1. PICK i \in DOMAIN events : events[i].stamp # None /\ events[i].stamp = floor[w]
      BY <2>4
    <3>2. events[i] \in Rows /\ events[i].stamp >= issued
      BY <2>1, <2>2, <3>1 DEF Rows, Inv, TypeOK, Time
    <3> QED BY <3>1, <3>2 DEF Justified
  <2> QED BY <2>1, <2>3, <2>4 DEF Attributed
<1>2. ASSUME NEW w \in Workers, RejectUnchanged(w) PROVE Justified(j)
  <2>1. frame[w] \in LatestFrames /\ stage' = [stage EXCEPT ![held[w]] = "stale"]
    BY <1>2 DEF RejectUnchanged, Unchanged, Settle
  <2>2. j = held[w]
    BY <2>1 DEF Inv, TypeOK
  <2>3. PICK r \in Rows : r.frame = frame[w] /\ r.frame # None
    BY <2>1 DEF LatestFrames, WithImage
  <2> QED BY <2>2, <2>3 DEF Justified
<1>3. ASSUME NEW w \in Workers, NEW outcome, outcome # "stale", Settle(w, outcome) PROVE FALSE
  BY <1>3 DEF Settle, Inv, TypeOK
<1>4. CASE Tick \/ (\E s \in Time : Publish(s)) \/ Reload
  BY <1>4 DEF Tick, Publish, Reload, jobVars
<1>5. CASE \E i \in Jobs : Trigger(i)
  BY <1>5 DEF Trigger, Inv, TypeOK
<1>6. ASSUME NEW w \in Workers, Begin(w) \/ Poll(w) \/ Fetch(w) PROVE Justified(j)
  <2>1. CASE Begin(w)
    BY <2>1 DEF Begin, Inv, TypeOK
  <2>2. CASE PollFresh(w) \/ PollAgain(w) \/ PollUnknown(w) \/ Fetch(w)
    BY <2>2 DEF PollFresh, PollAgain, PollUnknown, Read, Fetch, jobVars
  <2> QED BY <1>1, <1>6, <2>1, <2>2 DEF Poll
<1>7. ASSUME NEW w \in Workers, Check(w) \/ Store(w) \/ Fault(w) PROVE Justified(j)
  <2>1. CASE Analyze(w) \/ RequestDenied(w)
    BY <2>1 DEF Analyze, RequestDenied, jobVars
  <2>2. CASE SuppressTwin(w) \/ Store(w) \/ RequestFails(w)
    BY <1>3, <2>2 DEF SuppressTwin, Store, RequestFails
  <2> QED BY <1>2, <1>7, <2>1, <2>2 DEF Check, Fault
<1> QED BY <1>4, <1>5, <1>6, <1>7 DEF Next, Work

LEMMA InitAttributed == Init => \A w \in Workers : Attributed(w)
BY DEF Init, Attributed

\* A trigger is refused as stale only when nothing newer could be had, whatever
\* other workers store during the wait: StaleImageError, the stale fallback.
THEOREM StaleStaysJustified == Spec => StaleIsJustified
<1> DEFINE FInv == Inv /\ \A w \in Workers : Attributed(w)
           Step == \A j \in Jobs : stage[j] # "stale" /\ stage'[j] = "stale" =>
                     \/ issued <= occurred[j] - Tolerance
                     \/ \E r \in Rows : r.stamp # None /\ r.stamp >= issued
                     \/ \E w \in Workers : held[w] = j /\
                          \E r \in Rows : r.frame = frame[w] /\ frame[w] # None
<1>1. Init => FInv
  BY InitInv, InitAttributed
<1>2. FInv /\ [Next]_vars => FInv'
  BY NextKeepsInv, AttributedStays
<1>3. FInv /\ [Next]_vars => [Step]_vars
  BY StaleStep DEF Justified
<1> HIDE DEF FInv, Step
<1>4. Spec => [][Step]_vars
  BY <1>1, <1>2, <1>3, PTL DEF Spec
<1> QED BY <1>4 DEF Step, StaleIsJustified

-----------------------------------------------------------------------------
(* The end of a wait. *)

\* How many steps a job has left at place p of its worker, n state reads done.
PlacesLeft(p, n) ==
  IF p = "idle" THEN 0
  ELSE [poll |-> PollAttempts - n + 3, fetch |-> 3, check |-> 2, store |-> 1][p]

JobLeft(w) == PlacesLeft(pc[w], polls[w])

\* The countdown of a job: no step adds to what is left of it, each of its own
\* takes from it until it settles or takes one of the attempts, and a settled
\* one is not taken up again.
Counted(w) ==
  /\ JobLeft(w) \in 1..(PollAttempts + 3)
  /\ \/ held'[w] = held[w] /\ stage'[held[w]] = "held" /\ JobLeft(w)' <= JobLeft(w)
     \/ stage'[held[w]] \in Settled
     \/ /\ stage'[held[w]] = "queued"
        /\ tries'[held[w]] = tries[held[w]] + 1 /\ tries'[held[w]] < MaxAttempts
  /\ (Work(w) \/ Fault(w)) /\ held'[w] = held[w] => JobLeft(w)' < JobLeft(w)

CountsDown ==
  /\ \A j \in Jobs : tries[j] <= tries'[j] /\ (stage[j] \in Settled => stage'[j] = stage[j])
  /\ \A w \in Workers : pc[w] # "idle" => Counted(w)

LEMMA LeftPerPlace ==
  ASSUME NEW n \in 0..(PollAttempts - 1)
  PROVE  /\ PlacesLeft("idle", n) = 0 /\ PlacesLeft("poll", n) = PollAttempts - n + 3
         /\ PlacesLeft("fetch", n) = 3 /\ PlacesLeft("check", n) = 2
         /\ PlacesLeft("store", n) = 1
BY DEF PlacesLeft

LEMMA LeftTyped ==
  ASSUME NEW p \in Busy, NEW n \in 0..(PollAttempts - 1)
  PROVE  PlacesLeft(p, n) \in 1..(PollAttempts + 3)
BY FreshAssumption, LeftPerPlace DEF FreshAssumption, Busy

\* A worker touches its own place and, of the jobs, the one it takes or has.
LEMMA TouchesItsOwn ==
  ASSUME Inv, NEW w \in Workers, Work(w) \/ Fault(w)
  PROVE  /\ \A v \in Workers : v # w => pc'[v] = pc[v] /\ polls'[v] = polls[v] /\ held'[v] = held[v]
         /\ \A j \in Jobs : \/ stage'[j] = stage[j] /\ tries'[j] = tries[j]
                            \/ stage[j] = "queued" /\ tries'[j] = tries[j]
                            \/ /\ pc[w] # "idle" /\ j = held[w]
                               /\ tries'[j] = tries[j] \/ tries'[j] = tries[j] + 1
<1> USE DEF Inv, TypeOK
<1>1. CASE Begin(w)
  BY <1>1 DEF Begin
<1>2. CASE PollFresh(w) \/ PollAgain(w) \/ PollUnknown(w)
  BY <1>2 DEF PollFresh, PollAgain, PollUnknown, Read, Leave, jobVars
<1>3. CASE Fetch(w) \/ Analyze(w) \/ RequestDenied(w)
  BY <1>3 DEF Fetch, Analyze, RequestDenied, jobVars
<1>4. CASE PollStale(w)
  BY <1>4 DEF PollStale, Settle
<1>5. CASE RejectUnchanged(w) \/ SuppressTwin(w) \/ Store(w)
  BY <1>5 DEF RejectUnchanged, SuppressTwin, Store, Settle
<1>6. CASE RequestFails(w)
  <2>1. PICK outcome : Settle(w, outcome)
    BY <1>6 DEF RequestFails
  <2>2. tries' = [tries EXCEPT ![held[w]] = @ + 1] /\ pc[w] # "idle"
    BY <1>6 DEF RequestFails
  <2> QED BY <2>1, <2>2 DEF Settle
<1> QED BY <1>1, <1>2, <1>3, <1>4, <1>5, <1>6 DEF Work, Poll, Check, Fault

\* One that settles.
LEMMA SettleCounted ==
  ASSUME Inv, NEW w \in Workers, pc[w] \in Busy, NEW outcome, Settle(w, outcome),
         \/ outcome \in Settled
         \/ /\ outcome = "queued" /\ tries'[held[w]] = tries[held[w]] + 1
            /\ tries'[held[w]] < MaxAttempts
  PROVE  Counted(w)
<1>1. held[w] \in Jobs
  BY DEF Inv, Working, Busy
<1>2. stage'[held[w]] = outcome /\ held'[w] = None
  BY <1>1 DEF Inv, TypeOK, Settle
<1>3. held'[w] # held[w]
  BY <1>1, <1>2, FreshAssumption DEF FreshAssumption, Jobs
<1>4. JobLeft(w) \in 1..(PollAttempts + 3)
  BY LeftTyped DEF JobLeft, Inv, TypeOK
<1> QED BY <1>2, <1>3, <1>4 DEF Counted

\* One that goes on.
LEMMA MoveCounted ==
  ASSUME Inv, NEW w \in Workers, pc[w] \in Busy, UNCHANGED <<jobVars, held>>,
         JobLeft(w)' < JobLeft(w), JobLeft(w)' \in Nat
  PROVE  Counted(w)
<1>1. stage'[held[w]] = "held" /\ held'[w] = held[w]
  BY DEF Inv, Working, Busy, jobVars
<1>2. JobLeft(w) \in 1..(PollAttempts + 3)
  BY LeftTyped DEF JobLeft, Inv, TypeOK
<1> QED BY <1>1, <1>2, FreshAssumption DEF FreshAssumption, Counted

LEMMA MoverCounted ==
  ASSUME Inv, Inv', NEW w \in Workers, Work(w) \/ Fault(w), pc[w] # "idle"
  PROVE  Counted(w)
<1>1. pc[w] \in Busy /\ held[w] \in Jobs /\ polls[w] \in 0..(PollAttempts - 1)
      /\ polls'[w] \in 0..(PollAttempts - 1) /\ PollAttempts \in Nat
  BY FreshAssumption DEF FreshAssumption, Inv, TypeOK, Working, Busy
<1>2. CASE PollFresh(w) \/ PollUnknown(w)
  <2>1. pc[w] = "poll" /\ pc'[w] = "fetch" /\ UNCHANGED <<jobVars, held>>
    BY <1>2 DEF PollFresh, PollUnknown, Read, Leave, Inv, TypeOK
  <2>2. JobLeft(w) = PollAttempts - polls[w] + 3 /\ JobLeft(w)' = 3
    BY <1>1, <2>1, LeftPerPlace DEF JobLeft
  <2> QED BY <1>1, <2>1, <2>2, MoveCounted
<1>3. CASE PollAgain(w)
  <2>1. /\ pc[w] = "poll" /\ pc'[w] = "poll" /\ polls'[w] = polls[w] + 1
        /\ UNCHANGED <<jobVars, held>>
    BY <1>3 DEF PollAgain, Read, Inv, TypeOK
  <2>2. JobLeft(w) = PollAttempts - polls[w] + 3 /\ JobLeft(w)' = PollAttempts - polls'[w] + 3
    BY <1>1, <2>1, LeftPerPlace DEF JobLeft
  <2> QED BY <1>1, <2>1, <2>2, MoveCounted
<1>4. CASE Fetch(w)
  <2>1. pc[w] = "fetch" /\ pc'[w] = "check" /\ UNCHANGED <<jobVars, held>>
    BY <1>4 DEF Fetch, Inv, TypeOK
  <2>2. JobLeft(w) = 3 /\ JobLeft(w)' = 2
    BY <1>1, <2>1, LeftPerPlace DEF JobLeft
  <2> QED BY <1>1, <2>1, <2>2, MoveCounted
<1>5. CASE Analyze(w)
  <2>1. pc[w] = "check" /\ pc'[w] = "store" /\ UNCHANGED <<jobVars, held>>
    BY <1>5 DEF Analyze, Inv, TypeOK
  <2>2. JobLeft(w) = 2 /\ JobLeft(w)' = 1
    BY <1>1, <2>1, LeftPerPlace DEF JobLeft
  <2> QED BY <1>1, <2>1, <2>2, MoveCounted
<1>6. CASE RequestDenied(w)
  <2>1. pc[w] \in {"poll", "fetch"} /\ pc'[w] = "store" /\ UNCHANGED <<jobVars, held>>
    BY <1>6 DEF RequestDenied, Inv, TypeOK
  <2>2. JobLeft(w) >= 3 /\ JobLeft(w) \in Nat /\ JobLeft(w)' = 1
    BY <1>1, <2>1, LeftPerPlace DEF JobLeft
  <2> QED BY <1>1, <2>1, <2>2, MoveCounted
<1>7. CASE PollStale(w) \/ RejectUnchanged(w) \/ SuppressTwin(w) \/ Store(w)
  <2>1. PICK outcome \in Settled : Settle(w, outcome)
    BY <1>7 DEF PollStale, RejectUnchanged, SuppressTwin, Store, Settled
  <2> QED BY <1>1, <2>1, SettleCounted
<1>8. CASE RequestFails(w)
  <2>1. PICK outcome : outcome = IF tries'[held[w]] < MaxAttempts THEN "queued" ELSE "failed"
    OBVIOUS
  <2>2. Settle(w, outcome) /\ tries'[held[w]] = tries[held[w]] + 1
    BY <1>1, <1>8, <2>1 DEF RequestFails, Inv, TypeOK
  <2> QED BY <1>1, <2>1, <2>2, SettleCounted DEF Settled
<1>9. ~Begin(w)
  BY DEF Begin
<1> QED BY <1>2, <1>3, <1>4, <1>5, <1>6, <1>7, <1>8, <1>9 DEF Work, Poll, Check, Fault

\* One that stands while others work, or the world moves.
LEMMA StandingCounted ==
  ASSUME Inv, NEW v \in Workers, pc[v] # "idle", ~Work(v), ~Fault(v),
         pc'[v] = pc[v], polls'[v] = polls[v], held'[v] = held[v],
         stage'[held[v]] = stage[held[v]]
  PROVE  Counted(v)
<1>1. pc[v] \in Busy /\ stage[held[v]] = "held" /\ polls[v] \in 0..(PollAttempts - 1)
  BY DEF Inv, TypeOK, Working, Busy
<1>2. JobLeft(v) \in 1..(PollAttempts + 3) /\ JobLeft(v)' = JobLeft(v)
  BY <1>1, LeftTyped DEF JobLeft
<1> QED BY <1>1, <1>2, FreshAssumption DEF FreshAssumption, Counted

LEMMA NextCountsDown == Inv /\ Inv' /\ [Next]_vars => CountsDown
<1> SUFFICES ASSUME Inv, Inv', [Next]_vars PROVE CountsDown
  OBVIOUS
<1>0. \A j \in Jobs : tries[j] \in Nat
  BY DEF Inv, TypeOK
<1>1. ASSUME NEW w \in Workers, Work(w) \/ Fault(w) PROVE CountsDown
  <2>1. ASSUME NEW j \in Jobs
        PROVE  tries[j] <= tries'[j] /\ (stage[j] \in Settled => stage'[j] = stage[j])
    <3>1. pc[w] # "idle" => stage[held[w]] = "held"
      BY DEF Inv, Working
    <3> QED BY <1>0, <1>1, <3>1, TouchesItsOwn DEF Settled
  <2>2. ASSUME NEW v \in Workers, pc[v] # "idle" PROVE Counted(v)
    <3>1. CASE Work(v) \/ Fault(v)
      BY <2>2, <3>1, MoverCounted
    <3>2. CASE ~Work(v) /\ ~Fault(v)
      <4>1. v # w
        BY <1>1, <3>2
      <4>2. held[v] \in Jobs /\ stage[held[v]] = "held" /\ held[v] # None
        BY <2>2, FreshAssumption DEF FreshAssumption, Inv, Working, Jobs
      <4>3. held[v] # held[w]
        BY <4>1, <4>2 DEF Inv, Exclusive
      <4>4. stage'[held[v]] = stage[held[v]]
        BY <1>1, <4>2, <4>3, TouchesItsOwn
      <4>5. pc'[v] = pc[v] /\ polls'[v] = polls[v] /\ held'[v] = held[v]
        BY <1>1, <4>1, TouchesItsOwn
      <4> QED BY <2>2, <3>2, <4>4, <4>5, StandingCounted
    <3> QED BY <3>1, <3>2
  <2> QED BY <2>1, <2>2 DEF CountsDown
<1>2. ASSUME \A w \in Workers : ~Work(w) /\ ~Fault(w) PROVE CountsDown
  <2>1. UNCHANGED <<workerVars, tries>>
    BY <1>2 DEF Next, Tick, Trigger, Publish, Reload, vars, jobVars
  <2>2. \A j \in Jobs : stage[j] # "absent" => stage'[j] = stage[j]
    BY <1>2 DEF Next, Tick, Trigger, Publish, Reload, vars, jobVars, Inv, TypeOK
  <2>3. ASSUME NEW v \in Workers, pc[v] # "idle" PROVE Counted(v)
    <3>1. stage'[held[v]] = stage[held[v]]
      BY <2>2, <2>3 DEF Inv, Working
    <3> QED BY <1>2, <2>1, <2>3, <3>1, StandingCounted DEF workerVars
  <2> QED BY <1>0, <2>1, <2>2, <2>3 DEF CountsDown, Settled
<1> QED BY <1>1, <1>2

\* Every wait and every job counts down, for any number of workers and whatever
\* Home Assistant answers: the safety half of TriggersSettle.
\* wait_for_fresh_entity_state, process_delivery, mark_retry_or_fail.
THEOREM JobsCountDown == Spec => [][CountsDown]_vars
BY InitInv, NextKeepsInv, NextCountsDown, PTL DEF Spec
=============================================================================
