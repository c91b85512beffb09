------------------------------ MODULE Incidents ------------------------------
(***************************************************************************)
(* Grouping events into incidents: correlate, which runs in the            *)
(* transaction that inserts an event, and close_stale_incidents, which the *)
(* maintenance loop of the worker runs beside the jobs.                     *)
(*                                                                         *)
(* SQLite gives a transaction the write lock at its first write.  A job     *)
(* has inserted its event when it looks for an incident, so Correlate is   *)
(* one step.  The sweep only writes when it commits: what it read before   *)
(* that may be out of date, so it is several.                               *)
(*                                                                         *)
(* An incident is named by the event that opened it.                        *)
(***************************************************************************)
EXTENDS Integers, FiniteSets

CONSTANTS
  Events,    (* occurrences whose camera belongs to a zone              *)
  Zones,
  ZoneOf,    (* events.zone_id                                          *)
  Window,    (* correlation_window_seconds, in ticks                    *)
  Idle,      (* incident_idle_seconds, in ticks                         *)
  Skew,      (* how far a trigger may be stamped ahead of this host     *)
  MaxTime,   (* bound of the clock                                      *)
  None       (* has not occurred, not correlated, no summary            *)

ASSUME IncidentsAssumption ==
  /\ ZoneOf \in [Events -> Zones]
  /\ Window \in Nat
  /\ Idle \in Nat
  /\ Skew \in Nat
  /\ MaxTime \in Nat
  /\ None \notin Events /\ None \notin Int

VARIABLES
  now,
  occurred,    (* occurred_at of each event; the job that stores it is slower *)
  incidentOf,  (* events.incident_id, set when the event is stored            *)
  status,      (* of each incident: "absent", "open" or "closed"              *)
  startedAt,
  endedAt,
  summary,     (* the events the summary of an incident counts                *)
  stale,       (* the incidents a sweep under way has selected                *)
  seen         (* the members it has read of each                             *)

incidentVars == <<incidentOf, status, startedAt, endedAt, summary>>
sweepVars    == <<stale, seen>>
vars == <<now, occurred, incidentVars, sweepVars>>

Time == 0..MaxTime

TypeOK ==
  /\ now \in Time
  /\ occurred \in [Events -> Time \cup {None}]
  /\ incidentOf \in [Events -> Events \cup {None}]
  /\ status \in [Events -> {"absent", "open", "closed"}]
  /\ startedAt \in [Events -> Time]
  /\ endedAt \in [Events -> Time]
  /\ summary \in [Events -> (SUBSET Events) \cup {None}]
  /\ stale \in SUBSET Events
  /\ seen \in [Events -> (SUBSET Events) \cup {None}]

Init ==
  /\ now = 0
  /\ occurred = [e \in Events |-> None]
  /\ incidentOf = [e \in Events |-> None]
  /\ status = [i \in Events |-> "absent"]
  /\ startedAt = [i \in Events |-> 0]
  /\ endedAt = [i \in Events |-> 0]
  /\ summary = [i \in Events |-> None]
  /\ stale = {}
  /\ seen = [i \in Events |-> None]

Members(i)  == {e \in Events : incidentOf[e] = i}
Open(i)     == status[i] = "open"
Happened(e) == occurred[e] # None
Stored(e)   == incidentOf[e] # None

-----------------------------------------------------------------------------
\* The trigger, stamped by Home Assistant's clock; its delivery waits in the
\* queue, is analysed and perhaps retried, so events are stored in any order.
Occur(e) ==
  /\ ~Happened(e)
  /\ \E t \in now..(now + Skew) \cap Time : occurred' = [occurred EXCEPT ![e] = t]
  /\ UNCHANGED <<now, incidentVars, sweepVars>>

\* Seeded faults: the status filter is dropped, the window is measured from
\* the beginning of the incident, or excludes its own boundary.
JoinableClosed(e) ==
  {i \in Events : status[i] # "absent" /\ ZoneOf[i] = ZoneOf[e]
                    /\ endedAt[i] >= occurred[e] - Window}
JoinableFromStart(e) ==
  {i \in Events : Open(i) /\ ZoneOf[i] = ZoneOf[e] /\ startedAt[i] >= occurred[e] - Window}
JoinableStrict(e) ==
  {i \in Events : Open(i) /\ ZoneOf[i] = ZoneOf[e] /\ endedAt[i] > occurred[e] - Window}

\* find_open_in_zone: the floor is the only bound; an incident that lies
\* entirely after the event qualifies.
Joinable(e) ==
  {i \in Events : Open(i) /\ ZoneOf[i] = ZoneOf[e] /\ endedAt[i] >= occurred[e] - Window}

OpenIncident(e) ==
  /\ Joinable(e) = {}
  /\ incidentOf' = [incidentOf EXCEPT ![e] = e]
  /\ status' = [status EXCEPT ![e] = "open"]
  /\ startedAt' = [startedAt EXCEPT ![e] = occurred[e]]
  /\ endedAt' = [endedAt EXCEPT ![e] = occurred[e]]

\* Seeded fault: the end of the incident is whatever came last.
ExtendUnordered(i, e) == [endedAt EXCEPT ![i] = occurred[e]]

Extend(i, e) ==
  IF occurred[e] > endedAt[i] THEN [endedAt EXCEPT ![i] = occurred[e]] ELSE endedAt

\* ORDER BY started_at DESC LIMIT 1.  The start of the incident never moves.
JoinIncident(e) ==
  \E i \in Joinable(e) :
    /\ \A j \in Joinable(e) : startedAt[j] <= startedAt[i]
    /\ incidentOf' = [incidentOf EXCEPT ![e] = i]
    /\ endedAt' = Extend(i, e)
    /\ UNCHANGED <<status, startedAt>>

\* The job of e stores it: INSERT, correlate, COMMIT.
Correlate(e) ==
  /\ Happened(e)
  /\ ~Stored(e)
  /\ OpenIncident(e) \/ JoinIncident(e)
  /\ UNCHANGED <<now, occurred, summary, sweepVars>>

-----------------------------------------------------------------------------
(* close_stale_incidents: select, read each, write all when it commits. *)

\* Seeded fault: the sweep closes only incidents of more than one event.
StalePairs ==
  {i \in Events : Open(i) /\ endedAt[i] < now - Idle /\ Cardinality(Members(i)) > 1}

Stale == {i \in Events : Open(i) /\ endedAt[i] < now - Idle}

SweepSelect ==
  /\ stale = {}
  /\ Stale # {}
  /\ stale' = Stale
  /\ UNCHANGED <<now, occurred, incidentVars, seen>>

SweepRead(i) ==
  /\ i \in stale
  /\ seen[i] = None
  /\ seen' = [seen EXCEPT ![i] = Members(i)]
  /\ UNCHANGED <<now, occurred, incidentVars, stale>>

SweepDone ==
  /\ stale' = {}
  /\ seen' = [i \in Events |-> None]

\* UPDATE by primary key: status, summary and updated_at, nothing else.
SweepWrite ==
  /\ stale # {}
  /\ \A i \in stale : seen[i] # None
  /\ status' = [i \in Events |-> IF i \in stale THEN "closed" ELSE status[i]]
  /\ summary' = [i \in Events |-> IF i \in stale THEN seen[i] ELSE summary[i]]
  /\ SweepDone
  /\ UNCHANGED <<now, occurred, incidentOf, startedAt, endedAt>>

\* The sweep raises or the process ends: nothing of it was written.
SweepLost ==
  /\ stale # {}
  /\ SweepDone
  /\ UNCHANGED <<now, occurred, incidentVars>>

Tick ==
  /\ now < MaxTime
  /\ now' = now + 1
  /\ UNCHANGED <<occurred, incidentVars, sweepVars>>

Next ==
  \/ \E e \in Events : Occur(e) \/ Correlate(e)
  \/ SweepSelect \/ SweepWrite \/ SweepLost
  \/ \E i \in Events : SweepRead(i)
  \/ Tick

Spec == Init /\ [][Next]_vars

\* The maintenance loop runs for as long as the process does, and time passes.
\* Nothing is assumed of the jobs.
Fairness ==
  /\ WF_vars(Tick)
  /\ WF_vars(SweepSelect)
  /\ WF_vars(SweepWrite)
  /\ \A i \in Events : WF_vars(SweepRead(i))

FairSpec == Spec /\ Fairness

-----------------------------------------------------------------------------
\* Whatever the order in which jobs finish, the open incidents of a zone lie
\* more than a window apart, so find_open_in_zone never has two candidates that
\* one stretch of activity could belong to.
OpenIncidentsApart ==
  \A i, j \in Events :
    Open(i) /\ Open(j) /\ i # j /\ ZoneOf[i] = ZoneOf[j] =>
      endedAt[i] + Window < startedAt[j] \/ endedAt[j] + Window < startedAt[i]

\* The end of an incident is the moment of its last event, even where late
\* events joined it and a sweep wrote to it at the same time.
EndIsLastEvent ==
  \A i \in Events : status[i] # "absent" =>
    /\ \A e \in Members(i) : occurred[e] <= endedAt[i]
    /\ \E e \in Members(i) : occurred[e] = endedAt[i]

\* No event that occurred after e has been stored in its zone yet.
InOrder(e) ==
  \A f \in Events : Stored(f) /\ ZoneOf[f] = ZoneOf[e] => occurred[f] <= occurred[e]

\* The one rule of the correlator, for events stored in their order: an event
\* joins an open incident exactly if one of its events lies within the window.
InOrderRule ==
  [][\A e, i \in Events :
       ~Stored(e) /\ Stored(e)' /\ InOrder(e) /\ Open(i) /\ ZoneOf[i] = ZoneOf[e] =>
         (incidentOf'[e] = i <=> \E f \in Members(i) : occurred[f] >= occurred[e] - Window)]_vars

\* A closed incident is settled: no late job, and no later sweep, adds to it,
\* reopens it or rewrites its summary.
ClosedIsSettled ==
  [][\A i \in Events : status[i] = "closed" =>
       /\ status'[i] = "closed"
       /\ summary'[i] = summary[i]
       /\ endedAt'[i] = endedAt[i]
       /\ \A e \in Events : incidentOf'[e] = i => incidentOf[e] = i]_vars

\* No incident stays open for good, however many events join it, once sweeps
\* cease to fail (an incident still active near the end of the bounded clock
\* is not idle yet).
IdleIsClosed ==
  <>[][~SweepLost]_vars =>
    \A i \in Events : Open(i) ~> (status[i] = "closed" \/ endedAt[i] + Idle >= MaxTime)
=============================================================================
