----------------------------- MODULE FreshFrame -----------------------------
(***************************************************************************)
(* The freshness gate of one camera with the image_entity_state strategy:  *)
(* process_delivery from the read of the newest consumed timestamp to the   *)
(* INSERT of the event, fetch_event_image, the stale-frame fallback and     *)
(* the content dedupe, against an image entity whose state and picture      *)
(* change while the job waits.                                              *)
(*                                                                         *)
(* A frame is named by the time of the publication that first brought its   *)
(* bytes.  Frames differ in their bytes, so comparing content hashes is      *)
(* comparing frames.  An integration may publish the bytes it has a second   *)
(* time, so the entity's timestamp says when a frame was last published, and *)
(* nothing is known here of the moment it shows.  The entity is the one the  *)
(* automation posts and the events are recorded against.                     *)
(***************************************************************************)
EXTENDS Integers, Sequences, FiniteSetsExt

CONSTANTS
  NumJobs,       (* triggers of this camera, numbered as they fire          *)
  Workers,       (* ingest_worker_concurrency tasks                         *)
  PollAttempts,  (* freshness_poll_attempts                                 *)
  Tolerance,     (* freshness_tolerance_seconds, in ticks                   *)
  DedupeWindow,  (* dedupe_window_seconds, in ticks                         *)
  MaxAttempts,   (* ingest_max_attempts                                     *)
  MaxFaults,     (* bound of the transient failures of Home Assistant       *)
  MaxTime,       (* bound of the clock                                      *)
  None           (* no timestamp, no frame, no job                          *)

ASSUME FreshAssumption ==
  /\ PollAttempts \in Nat \ {0}
  /\ MaxAttempts \in Nat \ {0}
  /\ Tolerance \in Nat
  /\ DedupeWindow \in Nat
  /\ MaxTime \in Nat
  /\ NumJobs \in Nat /\ MaxFaults \in Nat
  /\ None \notin Int

VARIABLES
  now,       (* the clock of Home Assistant, which ours follows             *)
  picture,   (* the frame image_proxy serves                                *)
  issued,    (* when the entity last published one                          *)
  state,     (* the image entity's timestamp, None while "unknown"          *)
  occurred,  (* per job: the time of its trigger                            *)
  stage,     (* per job: where its delivery stands                          *)
  tries,     (* per job: transient failures so far                          *)
  events,    (* rows of events for this entity, in the order of insertion   *)
  pc,        (* per worker: "idle", "poll", "fetch", "check" or "store"     *)
  held,      (* per worker: its job                                         *)
  floor,     (* per worker: the time a frame has to be newer than           *)
  polls,     (* per worker: state reads so far                              *)
  stamp,     (* per worker: state_ts of the last read                       *)
  frame,     (* per worker: the image fetched                               *)
  served     (* per worker, for the properties: the publication it was      *)
             (* served under; no code reads it                              *)

cameraVars == <<picture, issued, state>>
jobVars    == <<stage, tries>>
workerVars == <<pc, held, floor, polls, stamp, frame, served>>
vars == <<now, cameraVars, occurred, jobVars, events, workerVars>>

Time == 0..MaxTime
Jobs == 1..NumJobs
Settled == {"stored", "stale", "duplicate", "failed"}
Row == [job : Jobs, stamp : Time \cup {None}, frame : Time \cup {None},
        served : Time \cup {None}]

TypeOK ==
  /\ now \in Time /\ picture \in Time /\ issued \in Time /\ state \in Time \cup {None}
  /\ occurred \in [Jobs -> Time]
  /\ stage \in [Jobs -> {"absent", "queued", "held"} \cup Settled]
  /\ tries \in [Jobs -> 0..MaxAttempts]
  /\ events \in Seq(Row)
  /\ pc \in [Workers -> {"idle", "poll", "fetch", "check", "store"}]
  /\ held \in [Workers -> Jobs \cup {None}]
  /\ floor \in [Workers -> Int]
  /\ polls \in [Workers -> 0..(PollAttempts - 1)]
  /\ stamp \in [Workers -> Time \cup {None}]
  /\ frame \in [Workers -> Time \cup {None}]
  /\ served \in [Workers -> Time \cup {None}]

Init ==
  /\ now = 0 /\ picture = 0 /\ issued = 0 /\ state \in {0, None}
  /\ occurred = [j \in Jobs |-> 0]
  /\ stage = [j \in Jobs |-> "absent"]
  /\ tries = [j \in Jobs |-> 0]
  /\ events = <<>>
  /\ pc = [w \in Workers |-> "idle"]
  /\ held = [w \in Workers |-> None]
  /\ floor = [w \in Workers |-> 0]
  /\ polls = [w \in Workers |-> 0]
  /\ stamp = [w \in Workers |-> None]
  /\ frame = [w \in Workers |-> None]
  /\ served = [w \in Workers |-> None]

-----------------------------------------------------------------------------
(* The world: time, detections, and the camera behind Home Assistant. *)

Tick ==
  /\ now < MaxTime
  /\ now' = now + 1
  /\ UNCHANGED <<cameraVars, occurred, jobVars, events, workerVars>>

\* A detection fires the automation, and its delivery is accepted.
Trigger(j) ==
  /\ stage[j] = "absent" /\ \A i \in 1..(j - 1) : stage[i] # "absent"
  /\ stage' = [stage EXCEPT ![j] = "queued"]
  /\ occurred' = [occurred EXCEPT ![j] = now]
  /\ UNCHANGED <<now, cameraVars, tries, events, workerVars>>

\* The integration publishes a frame, new bytes or those it published last, for
\* a detection or not, with a timestamp of its capture or of its receipt; it may
\* fail to publish the timestamp.
Publish(s) ==
  /\ issued < s /\ s <= now
  /\ issued' = s
  /\ picture' \in {picture, s}
  /\ state' \in {s, None}
  /\ UNCHANGED <<now, occurred, jobVars, events, workerVars>>

\* Home Assistant restarts or reloads the integration: the entity is
\* "unknown" and image_proxy keeps serving the last picture.
Reload ==
  /\ state # None
  /\ state' = None
  /\ UNCHANGED <<now, picture, issued, occurred, jobVars, events, workerVars>>

-----------------------------------------------------------------------------
(* What the job reads of the events stored so far. *)

Rows == {events[i] : i \in DOMAIN events}

\* latest_source_state_ts: MAX over the rows that have one.
ConsumedStamps == {r.stamp : r \in Rows} \ {None}
LastSeen(m) ==
  IF ConsumedStamps = {} THEN m = None
  ELSE m \in ConsumedStamps /\ \A s \in ConsumedStamps : s <= m

\* Seeded fault: the test of an earlier version, against the last consumed
\* frame alone.
FloorByConsumed(j, m) == IF m = None THEN -1 ELSE m

\* Published for this event, and not consumed by an earlier one.
Floor(j, m) ==
  IF m # None /\ m > occurred[j] - Tolerance THEN m ELSE occurred[j] - Tolerance

\* latest_content_hash: of the rows with an image, one that occurred last
\* (whichever the database returns when several did).
WithImage == {r \in Rows : r.frame # None}

\* Seeded fault: rows without an image are not left out.
LatestOfAllRows ==
  {r.frame : r \in {s \in Rows : \A t \in Rows : occurred[t.job] <= occurred[s.job]}}

LatestFrames ==
  {r.frame : r \in {s \in WithImage : \A t \in WithImage : occurred[t.job] <= occurred[s.job]}}

\* Seeded fault: a window that leaves out its own end.
TwinWithinWindow(f) ==
  \E r \in WithImage : r.frame = f /\ occurred[r.job] > now - DedupeWindow

\* find_recent_by_content_hash.
Twin(f) == \E r \in WithImage : r.frame = f /\ occurred[r.job] >= now - DedupeWindow

-----------------------------------------------------------------------------
(* The job. *)

Settle(w, outcome) ==
  /\ stage' = [stage EXCEPT ![held[w]] = outcome]
  /\ pc' = [pc EXCEPT ![w] = "idle"]
  /\ held' = [held EXCEPT ![w] = None]
  /\ floor' = [floor EXCEPT ![w] = 0]
  /\ polls' = [polls EXCEPT ![w] = 0]
  /\ stamp' = [stamp EXCEPT ![w] = None]
  /\ frame' = [frame EXCEPT ![w] = None]
  /\ served' = [served EXCEPT ![w] = None]
  /\ UNCHANGED <<now, cameraVars, occurred>>

\* The claim, and the read of last_seen before the wait.  A retried delivery
\* comes back after its backoff, so the queue is not in order of occurrence.
Begin(w) ==
  /\ pc[w] = "idle"
  /\ \E j \in Jobs, m \in Time \cup {None} :
       /\ stage[j] = "queued"
       /\ LastSeen(m)
       /\ stage' = [stage EXCEPT ![j] = "held"]
       /\ held' = [held EXCEPT ![w] = j]
       /\ floor' = [floor EXCEPT ![w] = Floor(j, m)]
  /\ pc' = [pc EXCEPT ![w] = "poll"]
  /\ UNCHANGED <<now, cameraVars, occurred, tries, events, polls, stamp, frame, served>>

Fresh(w) == state # None /\ state > floor[w]
LastPoll(w) == polls[w] + 1 = PollAttempts

Read(w) ==
  /\ pc[w] = "poll"
  /\ stamp' = [stamp EXCEPT ![w] = state]
  /\ UNCHANGED <<now, cameraVars, occurred, jobVars, events, held, frame, served>>

\* The wait is over, and its locals with it.
Leave(w) ==
  /\ pc' = [pc EXCEPT ![w] = "fetch"]
  /\ polls' = [polls EXCEPT ![w] = 0]
  /\ floor' = [floor EXCEPT ![w] = 0]

\* The timestamp passed the floor: verified.
PollFresh(w) ==
  /\ Fresh(w)
  /\ Read(w)
  /\ Leave(w)

\* Seeded fault: a wait that does not count its polls.
PollUncounted(w) ==
  /\ ~Fresh(w) /\ ~LastPoll(w)
  /\ Read(w)
  /\ UNCHANGED <<pc, polls, floor>>

\* Not yet: sleep and read again.
PollAgain(w) ==
  /\ ~Fresh(w) /\ ~LastPoll(w)
  /\ Read(w)
  /\ polls' = [polls EXCEPT ![w] = @ + 1]
  /\ UNCHANGED <<pc, floor>>

\* It never published a usable time: fetch anyway, unverified.
PollUnknown(w) ==
  /\ state = None /\ LastPoll(w)
  /\ Read(w)
  /\ Leave(w)

\* Seeded fault: the verdict on the read before the last one.
PollStaleOnOldRead(w) ==
  /\ pc[w] = "poll" /\ LastPoll(w)
  /\ stamp[w] # None /\ stamp[w] <= floor[w]
  /\ Settle(w, "stale")
  /\ UNCHANGED <<tries, events>>

\* StaleImageError.
PollStale(w) ==
  /\ pc[w] = "poll" /\ LastPoll(w)
  /\ state # None /\ state <= floor[w]
  /\ Settle(w, "stale")
  /\ UNCHANGED <<tries, events>>

\* The bytes are those served by now, of whatever frame that is.
Fetch(w) ==
  /\ pc[w] = "fetch"
  /\ frame' = [frame EXCEPT ![w] = picture]
  /\ served' = [served EXCEPT ![w] = issued]
  /\ pc' = [pc EXCEPT ![w] = "check"]
  /\ UNCHANGED <<now, cameraVars, occurred, jobVars, events, held, floor, polls, stamp>>

\* A transient Home Assistant error: ProcessingError, mark_retry_or_fail.
RequestFails(w) ==
  /\ pc[w] \in {"poll", "fetch"}
  /\ MapThenSumSet(LAMBDA j : tries[j], Jobs) < MaxFaults
  /\ tries' = [tries EXCEPT ![held[w]] = @ + 1]
  /\ Settle(w, IF tries'[held[w]] < MaxAttempts THEN "queued" ELSE "failed")
  /\ UNCHANGED events

\* A permanent one: the event is kept, without an image.
RequestDenied(w) ==
  /\ pc[w] \in {"poll", "fetch"}
  /\ stamp' = [stamp EXCEPT ![w] = None]
  /\ pc' = [pc EXCEPT ![w] = "store"]
  /\ polls' = [polls EXCEPT ![w] = 0]
  /\ floor' = [floor EXCEPT ![w] = 0]
  /\ UNCHANGED <<now, cameraVars, occurred, jobVars, events, held, frame, served>>

Verified(w) == stamp[w] # None

\* Unverified, and the bytes are those of the previous event; or not so.
Unchanged(w) == ~Verified(w) /\ frame[w] \in LatestFrames
Changed(w)   == Verified(w) \/ LatestFrames # {frame[w]}

RejectUnchanged(w) ==
  /\ pc[w] = "check"
  /\ Unchanged(w)
  /\ Settle(w, "stale")
  /\ UNCHANGED <<tries, events>>

SuppressTwin(w) ==
  /\ pc[w] = "check"
  /\ Changed(w) /\ Twin(frame[w])
  /\ Settle(w, "duplicate")
  /\ UNCHANGED <<tries, events>>

\* On to the vision provider, which takes its time.
Analyze(w) ==
  /\ pc[w] = "check"
  /\ Changed(w) /\ ~Twin(frame[w])
  /\ pc' = [pc EXCEPT ![w] = "store"]
  /\ UNCHANGED <<now, cameraVars, occurred, jobVars, events, held, floor, polls, stamp, frame,
                 served>>

Store(w) ==
  /\ pc[w] = "store"
  /\ events' = Append(events, [job |-> held[w], stamp |-> stamp[w], frame |-> frame[w],
                               served |-> served[w]])
  /\ Settle(w, "stored")
  /\ UNCHANGED tries

Poll(w)  == PollFresh(w) \/ PollAgain(w) \/ PollUnknown(w) \/ PollStale(w)
Check(w) == RejectUnchanged(w) \/ SuppressTwin(w) \/ Analyze(w)
Work(w)  == Begin(w) \/ Poll(w) \/ Fetch(w) \/ Check(w) \/ Store(w)
Fault(w) == RequestFails(w) \/ RequestDenied(w)

Next ==
  \/ Tick
  \/ \E j \in Jobs : Trigger(j)
  \/ \E s \in Time : Publish(s)
  \/ Reload
  \/ \E w \in Workers : Work(w) \/ Fault(w)

Spec == Init /\ [][Next]_vars

\* Workers poll the queue and every await in a job ends; nothing is assumed
\* of the camera, of the clock, or of Home Assistant, which may fail or not.
FairSpec == Spec /\ \A w \in Workers : WF_vars(Work(w))

-----------------------------------------------------------------------------
(* Properties. *)

\* The bytes stored with a confirmed timestamp were served under a publication
\* no older than that timestamp, and the timestamp is the trigger's or later,
\* although the bytes are fetched after it is read, others may be published and
\* the entity may be reloaded in between.
PublishedForItsTrigger ==
  \A r \in Rows : r.stamp # None =>
    /\ r.frame # None /\ r.served >= r.stamp
    /\ r.stamp > occurred[r.job] - Tolerance

\* With one worker, two events never share a timestamp, and they share a picture
\* only when the dedupe window of the earlier one is over: bytes published a
\* second time, or published between the read of a timestamp and the fetch,
\* pass the floor again (ingest/freshness.py:95, find_recent_by_content_hash).
ReuseIsBounded ==
  \A i, k \in DOMAIN events : i < k =>
    /\ events[i].stamp # None /\ events[k].stamp # None => events[i].stamp < events[k].stamp
    /\ events[i].frame # None /\ events[k].frame = events[i].frame =>
         occurred[events[i].job] + DedupeWindow < now

\* With one worker, and as long as events are stored in the order they
\* occurred in, a picture served by an entity that lost its timestamp is
\* never stored a second time, whatever time has passed.
InOrder ==
  \A i, k \in DOMAIN events : i < k => occurred[events[i].job] < occurred[events[k].job]

RepeatIsRefused ==
  InOrder =>
    \A i, k \in DOMAIN events :
      i < k /\ events[k].frame # None /\ events[k].stamp = None
        => events[i].frame # events[k].frame

\* A trigger is refused as stale only when nothing newer could be had: the last
\* publication is from before the trigger, or its timestamp is consumed already,
\* or an event holds the picture.
StaleIsJustified ==
  [][\A j \in Jobs : stage[j] # "stale" /\ stage'[j] = "stale" =>
       \/ issued <= occurred[j] - Tolerance
       \/ \E r \in Rows : r.stamp # None /\ r.stamp >= issued
       \/ \E w \in Workers : held[w] = j /\ \E r \in Rows : r.frame = frame[w] /\ frame[w] # None]_vars

\* Every accepted trigger is settled: the wait for a frame ends, and so do
\* the retries.
TriggersSettle == \A j \in Jobs : stage[j] # "absent" ~> stage[j] \in Settled
=============================================================================
