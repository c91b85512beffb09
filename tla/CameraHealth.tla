----------------------------- MODULE CameraHealth -----------------------------
(***************************************************************************)
(* CameraHealthMonitor: it polls Home Assistant, keeps one debounced current *)
(* row per camera, and a history of intervals that is never debounced.      *)
(* CameraCoverage then answers from the history whether a camera, or a zone, *)
(* was watched.                                                             *)
(*                                                                         *)
(* The log of polls is not in the code: it is what really was observed, and  *)
(* the properties compare every answer of the code with it.                 *)
(***************************************************************************)
EXTENDS CameraCoverage

CONSTANTS
  Cameras,
  Zones,        (* the sets of cameras that observe a zone                  *)
  Profile,      (* per camera: what cameras.yaml says its health depends on *)
  Answers,      (* per camera: what Home Assistant may answer a poll        *)
  Tolerance,    (* camera_health_gap_tolerance_seconds, in ticks            *)
  StaleAfter,   (* camera_health_stale_after_seconds, in ticks              *)
  Threshold,    (* camera_health_failure_threshold                          *)
  MaxTime,      (* bound: ticks of a run                                    *)
  MaxPolls,     (* bound: recorded polls of a run                           *)
  None

Profiles == [entity : BOOLEAN, predicate : BOOLEAN, image : BOOLEAN]

\* What reading one entity yields: an error that means Home Assistant is down,
\* one that means there is no such entity, or a state.
EntityReads == {"ha_down", "missing", "unavailable", "unknown", "on", "off"}

VARIABLES
  now,          (* the clock                                               *)
  up,           (* the process runs                                        *)
  starting,     (* no poll has been recorded since the process started     *)
  pollAt,       (* moment of the poll in progress, or None                 *)
  history,      (* per camera, its camera_health_intervals                 *)
  current,      (* per camera, its camera_health row, or None              *)
  polls         (* every recorded poll: its moment, what it saw, and whether *)
                (* it was the first since a start                          *)

vars == <<now, up, starting, pollAt, history, current, polls>>

Statuses == {"healthy", "degraded", "offline", "unknown"}
Adverse  == Statuses \ {"healthy"}

Intervals == [status : Statuses, started : 0..MaxTime, ended : {Open} \cup 0..MaxTime,
              through : 0..MaxTime]
Rows == [status : Statuses, pending : Adverse \cup {None}, failures : 0..MaxPolls,
         checked : 0..MaxTime, offlineSince : 0..MaxTime \cup {None}]

HealthAssumption ==
  /\ Zones \subseteq (SUBSET Cameras) \ {{}}
  /\ Profile \in [Cameras -> Profiles]
  /\ \A c \in Cameras : Answers[c] \subseteq [health : EntityReads, image : EntityReads]
  /\ Tolerance \in Nat /\ StaleAfter \in Nat /\ Threshold \in Nat \ {0}
  /\ MaxTime \in Nat \ {0} /\ MaxPolls \in Nat
  /\ None \notin Int /\ None \notin Statuses /\ None \notin Rows

ASSUME HealthAssumption

TypeOK ==
  /\ now \in 0..MaxTime
  /\ up \in BOOLEAN /\ starting \in BOOLEAN
  /\ pollAt \in 0..MaxTime \cup {None}
  /\ history \in [Cameras -> Seq(Intervals)]
  /\ current \in [Cameras -> Rows \cup {None}]
  /\ polls \in Seq([at : 0..MaxTime, first : BOOLEAN, seen : [Cameras -> Statuses]])

Init ==
  /\ now = 1
  /\ up = TRUE
  /\ starting = TRUE
  /\ pollAt = None
  /\ history = [c \in Cameras |-> <<>>]
  /\ current = [c \in Cameras |-> None]
  /\ polls = <<>>

-----------------------------------------------------------------------------
(* One camera's verdict from one poll: evaluate and _observe. *)

\* Availability first, then the state predicate, then the supporting entity;
\* Home Assistant being down is never the camera's fault.
Evaluate(profile, answer) ==
  LET health == answer.health
      image  == IF profile.image THEN answer.image ELSE "on"
  IN
  IF ~profile.entity \/ health = "ha_down" THEN "unknown"
  ELSE IF health = "missing" THEN "offline"
  ELSE IF image = "ha_down" THEN "unknown"
  ELSE IF health = "unavailable" \/ (profile.predicate /\ health = "off") THEN "offline"
  ELSE IF profile.predicate /\ health = "unknown" THEN "unknown"
  ELSE IF image \in {"missing", "unavailable"} THEN "degraded"
  ELSE "healthy"

-----------------------------------------------------------------------------
(* The history, _record_history.  Never debounced. *)

StartInterval(intervals, status, at) ==
  Append(intervals, [status |-> status, started |-> at, ended |-> Open, through |-> at])

ExtendInterval(intervals, at) == [intervals EXCEPT ![Len(intervals)].through = at]

\* "at" is the moment observation lasted to, or None after any break in it.
CloseInterval(intervals, at) ==
  LET last == Last(intervals)
      end  == IF at # None THEN at ELSE last.through
  IN [intervals EXCEPT ![Len(intervals)].ended = Max2(end, last.through)]

Continuous(intervals, at) == ~starting /\ at - Last(intervals).through <= Tolerance

\* Seeded fault: an unchanged status is extended across a hole.
RecordHistoryStitched(intervals, status, at) ==
  IF intervals = <<>> THEN StartInterval(intervals, status, at)
  ELSE IF Last(intervals).status = status THEN ExtendInterval(intervals, at)
  ELSE StartInterval(CloseInterval(intervals, IF Continuous(intervals, at) THEN at ELSE None),
                     status, at)

RecordHistory(intervals, status, at) ==
  IF intervals = <<>> \/ Last(intervals).ended # Open THEN StartInterval(intervals, status, at)
  ELSE IF Last(intervals).status = status /\ Continuous(intervals, at)
    THEN ExtendInterval(intervals, at)
  ELSE StartInterval(CloseInterval(intervals, IF Continuous(intervals, at) THEN at ELSE None),
                     status, at)

-----------------------------------------------------------------------------
(* The current row, _record_current.  Debounced: adverse news must repeat.  *)

NewRow(status, at) ==
  [status |-> status, pending |-> None, failures |-> 0, checked |-> at, offlineSince |-> None]

Healthy(row, at) ==
  [row EXCEPT !.status = "healthy", !.pending = None, !.failures = 0,
              !.checked = at, !.offlineSince = None]

\* Seeded fault: any adverse poll counts, whatever the candidate was.
CountFailureAny(row, status, at) ==
  [row EXCEPT !.pending = status, !.failures = row.failures + 1, !.checked = at]

\* The same adverse status again, or a new candidate.
CountFailure(row, status, at) ==
  [row EXCEPT !.pending = status, !.checked = at,
              !.failures = IF row.pending = status THEN row.failures + 1 ELSE 1]

\* Seeded fault: every commit restarts the outage.
CommitRestarting(row, status, at) ==
  [row EXCEPT !.status = status, !.pending = None,
              !.offlineSince = IF status = "offline" THEN at ELSE row.offlineSince]

Commit(row, status, at) ==
  [row EXCEPT !.status = status, !.pending = None,
              !.offlineSince = IF status = "offline" /\ row.offlineSince = None
                                 THEN at ELSE row.offlineSince]

RecordCurrent(row, status, at) ==
  LET before  == IF row = None THEN NewRow(status, at) ELSE row
      counted == CountFailure(before, status, at)
  IN IF status = "healthy" THEN Healthy(before, at)
     ELSE IF counted.failures >= Threshold THEN Commit(counted, status, at)
     ELSE counted

-----------------------------------------------------------------------------
(* A poll takes its moment first, then reads every camera, then writes all of *)
(* them in one transaction.                                                  *)

LastAt == IF polls = <<>> THEN 0 ELSE polls[Len(polls)].at

PollStart ==
  /\ up
  /\ pollAt = None
  /\ now > LastAt
  /\ pollAt' = now
  /\ UNCHANGED <<now, up, starting, history, current, polls>>

PollRecord ==
  /\ up
  /\ pollAt # None
  /\ Len(polls) < MaxPolls
  /\ \E seen \in {s \in [Cameras -> Statuses] :
                    \A c \in Cameras : \E a \in Answers[c] : s[c] = Evaluate(Profile[c], a)} :
       /\ history' = [c \in Cameras |-> RecordHistory(history[c], seen[c], pollAt)]
       /\ current' = [c \in Cameras |-> RecordCurrent(current[c], seen[c], pollAt)]
       /\ polls' = Append(polls, [at |-> pollAt, first |-> starting, seen |-> seen])
  /\ starting' = FALSE
  /\ pollAt' = None
  /\ UNCHANGED <<now, up>>

\* Anything raised in a poll is logged; its transaction is rolled back.
PollFails ==
  /\ up
  /\ pollAt # None
  /\ pollAt' = None
  /\ UNCHANGED <<now, up, starting, history, current, polls>>

Tick ==
  /\ now < MaxTime
  /\ now' = now + 1
  /\ UNCHANGED <<up, starting, pollAt, history, current, polls>>

\* The process stops or dies, with or without a poll in progress.
Stop ==
  /\ up
  /\ up' = FALSE
  /\ pollAt' = None
  /\ UNCHANGED <<now, starting, history, current, polls>>

Start ==
  /\ ~up
  /\ up' = TRUE
  /\ starting' = TRUE
  /\ UNCHANGED <<now, pollAt, history, current, polls>>

Next == PollStart \/ PollRecord \/ PollFails \/ Tick \/ Stop \/ Start

Spec == Init /\ [][Next]_vars

-----------------------------------------------------------------------------
(* What really was observed, from the log of polls alone. *)

\* Two consecutive polls prove the slices between them when one process made
\* both and they are no further apart than the tolerance.
Proven(c, t, grace) ==
  {polls[i].seen[c] : i \in {i \in DOMAIN polls :
     /\ polls[i].at <= t
     /\ IF i < Len(polls)
          THEN /\ t < polls[i + 1].at
               /\ ~polls[i + 1].first
               /\ polls[i + 1].at - polls[i].at <= Tolerance
          ELSE t < polls[i].at + grace}}

Witnessed(c, t, grace) ==
  IF Proven(c, t, grace) = {} THEN "unknown" ELSE CHOOSE s \in Proven(c, t, grace) : TRUE

\* _effective_status: what is reported for a camera right now.
Effective(c) ==
  IF current[c] = None THEN None
  ELSE IF now - current[c].checked > StaleAfter THEN "unknown"
  ELSE current[c].status

Windows == {w \in (0..now) \X (0..now) : w[1] < w[2]}

\* No fabricated coverage and no invented outage: in every window each slice of
\* a camera's timeline is reported with exactly the status two polls of
\* one process prove, and as unknown where nothing does.
CoverageIsHonest ==
  \A c \in Cameras :
    LET truth == [t \in 0..now |-> Witnessed(c, t, Tolerance)] IN
    \A w \in Windows :
      LET segments == CameraSegments(history[c], w[1], w[2], Tolerance) IN
      \A t \in w[1]..(w[2] - 1) :
        {s.status : s \in {s \in segments : s.start <= t /\ t < s.end}} = {truth[t]}

\* What a zone should answer for a window, given what is true of its cameras:
\* complete exactly when in every slice some watching camera is proven healthy,
\* and a known gap exactly when in some slice all were proven down.
ZoneAnswers(truth, watching, w) ==
  LET dark == {t \in w[1]..(w[2] - 1) : \A c \in watching : truth[c][t] # "healthy"}
      complete == ZoneComplete(history, watching, w[1], w[2])
  IN /\ complete = "true" <=> dark = {}
     /\ complete = "false" <=> \E t \in dark : \A c \in watching : truth[c][t] # "unknown"

\* A zone's answer is the union of its cameras' timelines, slice by slice, up
\* to the last poll, and knows nothing after it.  A camera's own timeline does:
\* get_zone_coverage drops the grace it is given (coverage.py:353).
ZoneCoverageIsUnion ==
  LET truth == [c \in Cameras |-> [t \in 0..now |->
                  IF t < LastAt THEN Witnessed(c, t, Tolerance) ELSE "unknown"]]
  IN \A watching \in Zones, w \in Windows : ZoneAnswers(truth, watching, w)

\* The same up to now, with the grace of an interval still open, "without" which
\* "every query ending now would report unknown" (docs/camera-health.md:80-83).
ZoneCoverageReachesNow ==
  LET truth == [c \in Cameras |-> [t \in 0..now |-> Witnessed(c, t, Tolerance)]]
  IN \A watching \in Zones, w \in Windows : ZoneAnswers(truth, watching, w)

\* Poll i is adverse news repeated often enough: the last Threshold polls up to
\* it all saw the same adverse status.
Repeated(c, i) ==
  /\ i >= Threshold
  /\ polls[i].seen[c] # "healthy"
  /\ \A j \in (i - Threshold + 1)..i : polls[j].seen[c] = polls[i].seen[c]

\* The current status is what the last decisive poll saw: the very first, a
\* healthy one, or a sufficiently repeated adverse one; and it is reported as
\* present only while the monitor keeps polling.
CurrentIsDebounced ==
  \A c \in Cameras : polls # <<>> =>
    LET decisive == {i \in DOMAIN polls :
                       i = 1 \/ polls[i].seen[c] = "healthy" \/ Repeated(c, i)}
        debounced == polls[Max(decisive)].seen[c]
    IN /\ current[c].status = debounced
       /\ Effective(c) = IF now - polls[Len(polls)].at > StaleAfter THEN "unknown" ELSE debounced

\* offline_since is the poll at which the present outage was first confirmed:
\* no healthy poll since, and nothing after it moves it.
OfflineSinceIsConfirmed ==
  \A c \in Cameras : polls # <<>> =>
    LET healthy == {i \in DOMAIN polls : polls[i].seen[c] = "healthy"}
        since == {i \in DOMAIN polls : /\ \A h \in healthy : h < i
                                       /\ polls[i].seen[c] = "offline" /\ Repeated(c, i)}
    IN current[c].offlineSince = IF since = {} THEN None ELSE polls[Min(since)].at
=============================================================================
