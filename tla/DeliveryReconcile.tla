--------------------------- MODULE DeliveryReconcile ---------------------------
(***************************************************************************)
(* DeliveryReconciler: it compares the triggers Home Assistant recorded for *)
(* each camera with the deliveries that reached this service, records every *)
(* trigger nobody delivered as a gap, and keeps a watermark of how far it    *)
(* looked.  get_pipeline_coverage and pipeline_health answer from both.      *)
(*                                                                         *)
(* A pass visits the cameras in turn.  For each it takes its moment, asks    *)
(* Home Assistant for the trigger history, and then compares in one          *)
(* transaction; triggers fire, deliveries arrive and time passes between.    *)
(* All the reconciler knows is in the database, so a crash only ends a pass. *)
(***************************************************************************)
EXTENDS Integers, Sequences, FiniteSets, FiniteSetsExt

CONSTANTS
  Order,        (* the reconcilable cameras, in the order of cameras.yaml   *)
  Settle,       (* delivery_settle_seconds, in ticks                        *)
  Slack,        (* delivery_match_window_seconds, in ticks                  *)
  Lookback,     (* delivery_reconciliation_lookback_seconds, in ticks       *)
  StaleAfter,   (* three reconciliation intervals, in ticks                 *)
  Skew,         (* how far Home Assistant's clock may run ahead of ours     *)
  MaxTime,      (* bound: ticks of a run                                    *)
  MaxTriggers,  (* bound: triggers of a run, over all cameras               *)
  MaxPasses,    (* bound: completed looks of a run, over all cameras        *)
  None

Cameras == {Order[i] : i \in DOMAIN Order}
Times == 0..MaxTime

ReconcileAssumption ==
  /\ Settle \in Nat \ {0} /\ Slack \in Nat /\ Lookback \in Nat
  /\ StaleAfter \in Nat /\ Skew \in Nat
  /\ MaxTime \in Nat /\ MaxTriggers \in Nat /\ MaxPasses \in Nat
  /\ None \notin Int /\ None \notin {"missing", "matched"}
  /\ Order \in Seq(Cameras) /\ Order # <<>>
  /\ \A i, j \in DOMAIN Order : Order[i] = Order[j] => i = j

ASSUME ReconcileAssumption

VARIABLES
  now,          (* this host's clock                                       *)
  fired,        (* per camera, the triggers in Home Assistant's recorder   *)
  owed,         (* per camera, the triggers whose webhook has not arrived; *)
                (* a lost one stays here                                   *)
  received,     (* per camera, received_at of its rows in event_deliveries *)
  turn,         (* the camera a pass is at, or the next one begins with    *)
  moment,       (* moment of the camera under way, or None                 *)
  gap,          (* per camera and trigger: no row, "missing" or "matched"  *)
  first,        (* per camera, first_checked_at, or None without a row     *)
  checked,      (* per camera, last_checked_at                             *)
  through,      (* per camera, checked_through                             *)
  verified,     (* per camera, last_verified_delivery_at                   *)
  passes        (* log: per camera, the moments of its completed passes    *)

worldVars == <<now, fired, owed, received>>
stateVars == <<gap, first, checked, through, verified, passes>>
vars == <<worldVars, turn, moment, stateVars>>

Moments == Times \cup {None}

TypeOK ==
  /\ now \in Times
  /\ fired \in [Cameras -> SUBSET Times]
  /\ owed \in [Cameras -> SUBSET Times]
  /\ received \in [Cameras -> SUBSET Times]
  /\ turn \in DOMAIN Order
  /\ moment \in Moments
  /\ gap \in [Cameras -> [Times -> {None, "missing", "matched"}]]
  /\ first \in [Cameras -> Moments]
  /\ checked \in [Cameras -> Moments]
  /\ through \in [Cameras -> (-Settle..MaxTime) \cup {None}]
  /\ verified \in [Cameras -> Moments]
  /\ passes \in [Cameras -> SUBSET Times]

Init ==
  /\ now = 0
  /\ fired = [c \in Cameras |-> {}]
  /\ owed = [c \in Cameras |-> {}]
  /\ received = [c \in Cameras |-> {}]
  /\ turn = 1
  /\ moment = None
  /\ gap = [c \in Cameras |-> [t \in Times |-> None]]
  /\ first = [c \in Cameras |-> None]
  /\ checked = [c \in Cameras |-> None]
  /\ through = [c \in Cameras |-> None]
  /\ verified = [c \in Cameras |-> None]
  /\ passes = [c \in Cameras |-> {}]

-----------------------------------------------------------------------------
(* Home Assistant: triggers fire, and their webhooks arrive late or never.   *)

Pairs(times) == UNION {{c} \X times[c] : c \in Cameras}

Fire(c) ==
  /\ Cardinality(Pairs(fired)) < MaxTriggers
  /\ \E t \in (now..(now + Skew)) \cap Times :
       /\ t \notin fired[c]
       /\ fired' = [fired EXCEPT ![c] = @ \cup {t}]
       /\ owed' = [owed EXCEPT ![c] = @ \cup {t}]
  /\ UNCHANGED <<now, received, turn, moment, stateVars>>

Arrive(c) ==
  /\ \E t \in owed[c] : owed' = [owed EXCEPT ![c] = @ \ {t}]
  /\ received' = [received EXCEPT ![c] = @ \cup {now}]
  /\ UNCHANGED <<now, fired, turn, moment, stateVars>>

Tick ==
  /\ now < MaxTime
  /\ now' = now + 1
  /\ UNCHANGED <<fired, owed, received, turn, moment, stateVars>>

-----------------------------------------------------------------------------
(* One camera of a pass, _reconcile_camera. *)

Near(r, t) == r - t \in -Slack..Slack

\* rising_edges of the recorder's history over the lookback window, without
\* those still in flight and those before the camera's first pass.
Edges(c, at) ==
  IF first[c] = None THEN {}
  ELSE {t \in fired[c] : at - Lookback <= t /\ t <= at - Settle /\ t >= first[c]}

\* Seeded fault: the deliveries are not told apart by camera.
DeliveriesOfAll(c, start, end) ==
  {r \in UNION {received[d] : d \in Cameras} : start <= r /\ r <= end}

DeliveriesBetween(c, start, end) == {r \in received[c] : start <= r /\ r <= end}

RecordGap(row) == IF row = None THEN "missing" ELSE row
ResolveGap(row) == IF row = "missing" THEN "matched" ELSE row

\* The latest trigger ever matched.
LastVerified(c, matched) ==
  LET known == IF verified[c] = None THEN {} ELSE {verified[c]}
  IN IF matched \cup known = {} THEN None ELSE Max(matched \cup known)

\* mark_checked.  The first pass sets the boundary at the moment it ran.
MarkChecked(c, at) ==
  /\ first' = [first EXCEPT ![c] = IF @ = None THEN at ELSE @]
  /\ checked' = [checked EXCEPT ![c] = at]
  /\ through' = [through EXCEPT ![c] =
       IF first[c] # None /\ @ > at - Settle THEN @ ELSE at - Settle]
  /\ passes' = [passes EXCEPT ![c] = @ \cup {at}]

NextCamera == turn' = IF turn < Len(Order) THEN turn + 1 ELSE 1

\* moment = now_utc(); the request to Home Assistant goes out.
AskHistory ==
  /\ moment = None
  /\ moment' = now
  /\ UNCHANGED <<worldVars, turn, stateVars>>

\* The answer is compared with the deliveries, in one transaction.
Compare ==
  /\ moment # None
  /\ Cardinality(Pairs(passes)) < MaxPasses
  /\ LET c == Order[turn]
         edges == Edges(c, moment)
         heard == DeliveriesBetween(c, moment - Lookback - Slack, moment + Slack)
         matched == {t \in edges : \E r \in heard : Near(r, t)}
     IN /\ gap' = [gap EXCEPT ![c] = [t \in Times |->
              IF t \in matched THEN ResolveGap(@[t])
              ELSE IF t \in edges THEN RecordGap(@[t]) ELSE @[t]]]
        /\ verified' = [verified EXCEPT ![c] = LastVerified(c, matched)]
        /\ MarkChecked(c, moment)
  /\ NextCamera
  /\ moment' = None
  /\ UNCHANGED worldVars

\* Seeded fault: a failed look counts as one.
UnavailableButChecked ==
  /\ moment # None
  /\ MarkChecked(Order[turn], moment)
  /\ NextCamera
  /\ moment' = None
  /\ UNCHANGED <<worldVars, gap, verified>>

\* HomeAssistantError: nothing was learnt, the watermark stays.
Unavailable ==
  /\ moment # None
  /\ NextCamera
  /\ moment' = None
  /\ UNCHANGED <<worldVars, stateVars>>

\* Any other exception, or the end of the process, abandons the whole pass.
Abort ==
  /\ turn # 1 \/ moment # None
  /\ turn' = 1
  /\ moment' = None
  /\ UNCHANGED <<worldVars, stateVars>>

Next ==
  \/ \E c \in Cameras : Fire(c) \/ Arrive(c)
  \/ AskHistory \/ Compare \/ Unavailable \/ Abort
  \/ Tick

Spec == Init /\ [][Next]_vars

-----------------------------------------------------------------------------
(* What is answered from these rows. *)

\* Seeded fault: the window is half-open.
OpenGapsBefore(c, start, end) ==
  {t \in Times : start <= t /\ t < end /\ gap[c][t] = "missing"}

\* gaps_between
OpenGaps(c, start, end) ==
  {t \in Times : start <= t /\ t <= end /\ gap[c][t] = "missing"}

UnknownPeriods(c, start, end) ==
  IF first[c] = None THEN {<<start, end>>}
  ELSE {p \in {<<start, Min({first[c], end})>>, <<Max({through[c], start}), end>>} : p[1] < p[2]}

\* get_pipeline_coverage for a set of cameras.
PipelineComplete(watching, start, end) ==
  IF \E c \in watching : OpenGaps(c, start, end) # {} THEN "false"
  ELSE IF watching = {} \/ \E c \in watching : UnknownPeriods(c, start, end) # {} THEN "null"
  ELSE "true"

\* pipeline_health
PipelineStatus(c) ==
  IF first[c] = None \/ now - checked[c] > StaleAfter THEN "unknown"
  ELSE IF OpenGaps(c, now - Lookback, now) # {} THEN "degraded"
  ELSE "healthy"

-----------------------------------------------------------------------------
Delivered(c, t) == \E r \in received[c] : Near(r, t)

\* The instants some completed pass really looked at.
Examined(c) ==
  {t \in Times : first[c] # None /\ t >= first[c] /\
     \E m \in passes[c] : m - Lookback <= t /\ t <= m - Settle}

\* Gaps are the losses, exactly: a trigger a pass looked at has an open gap only
\* if no delivery of its own camera arrived near it before the latest pass that
\* looked, and has one whenever none has arrived at all.  Nothing else has a row.
GapsAreExact ==
  \A c \in Cameras : LET examined == fired[c] \cap Examined(c) IN \A t \in Times :
    /\ gap[c][t] # None => t \in examined
    /\ t \in examined /\ ~Delivered(c, t) => gap[c][t] = "missing"
    /\ gap[c][t] = "missing" =>
         LET looked == Max({m \in passes[c] : m - Lookback <= t /\ t <= m - Settle})
         IN \A r \in received[c] : Near(r, t) => r >= looked

\* A pipeline reported healthy hides no loss: every trigger of the lookback
\* window that is older than the staleness limit plus the settle time, and not
\* older than the first pass, was delivered, whatever passes failed meanwhile.
PipelineStatusIsHonest ==
  \A c \in Cameras : PipelineStatus(c) = "healthy" =>
    \A t \in fired[c] :
      t >= first[c] /\ now - Lookback <= t /\ t <= now - StaleAfter - Settle => Delivered(c, t)

Periods == {p \in Times \X Times : p[1] < p[2]}

\* Every trigger of the period was delivered.
TrueOf(watching, p) == \A c \in watching : \A t \in fired[c] \cap (p[1]..p[2]) : Delivered(c, t)

\* Over a period that passes really looked at, complete = true says that every
\* trigger of every camera in it was delivered.
CompleteWhereExamined ==
  LET examined == [c \in Cameras |-> Examined(c)] IN
  \A watching \in SUBSET Cameras :
    \A p \in {p \in Periods : \A c \in watching : p[1]..p[2] \subseteq examined[c]} :
      PipelineComplete(watching, p[1], p[2]) = "true" => TrueOf(watching, p)

\* What the documentation says of complete = true, without that condition.
CompleteIsTrue ==
  \A c \in Cameras, p \in Periods :
    PipelineComplete({c}, p[1], p[2]) = "true" => TrueOf({c}, p)
=============================================================================
