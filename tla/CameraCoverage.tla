--------------------------- MODULE CameraCoverage ---------------------------
(***************************************************************************)
(* The segment algebra of health/coverage.py: what recorded health         *)
(* intervals say about a camera, or a zone, over a window.  Pure operators; *)
(* CameraHealth supplies the intervals.                                    *)
(*                                                                         *)
(* Time is a number of ticks.  A window, an interval and a segment are      *)
(* half-open: the slice t stands for [t, t+1).  Reasons and the cosmetic    *)
(* _merge of abutting segments are left out, empty segments are not.        *)
(***************************************************************************)
EXTENDS Integers, Sequences, SequencesExt

Min2(a, b) == IF a <= b THEN a ELSE b
Max2(a, b) == IF a >= b THEN a ELSE b

\* ended_at IS NULL
Open == -1

Segment(from, to, status) == [start |-> from, end |-> to, status |-> status]

NonEmpty(segments) == {s \in segments : s.start < s.end}

\* The rows read for a window: those that overlap it.
Overlaps(interval, start, end) ==
  interval.started <= end /\ (interval.ended = Open \/ interval.ended >= start)

\* How far an interval is trusted.
ConfirmedTo(interval, grace) ==
  IF interval.ended # Open THEN interval.ended ELSE interval.through + grace

\* One step of the loop: a hole up to the interval, then its confirmed span.
AddInterval(acc, interval, start, end, grace) ==
  LET began   == interval.started
      hole    == IF began > acc.cursor
                   THEN {Segment(acc.cursor, Min2(began, end), "unknown")} ELSE {}
      cursor  == IF began > acc.cursor THEN Min2(began, end) ELSE acc.cursor
      from    == Max2(began, start)
      to      == Min2(ConfirmedTo(interval, grace), end)
  IN [segments |-> acc.segments \cup hole \cup NonEmpty({Segment(from, to, interval.status)}),
      cursor   |-> IF to > from THEN Max2(cursor, to) ELSE cursor]

\* The loop over the rows read, in the order of started_at: what it holds after
\* the first k intervals.
Timeline(intervals, start, end, grace) ==
  LET first == intervals[1].started
      acc[k \in 0..Len(intervals)] ==
        IF k = 0
          THEN [segments |-> IF first > start
                               THEN {Segment(start, Min2(first, end), "unknown")} ELSE {},
                cursor   |-> Max2(start, first)]
        ELSE IF Overlaps(intervals[k], start, end)
          THEN AddInterval(acc[k - 1], intervals[k], start, end, grace)
        ELSE acc[k - 1]
  IN acc

\* One camera's timeline over the window, with every hole made explicit.
CameraSegments(intervals, start, end, grace) ==
  IF intervals = <<>> THEN NonEmpty({Segment(start, end, "unknown")})
  ELSE
    LET acc == Timeline(intervals, start, end, grace)[Len(intervals)]
        trailing == IF acc.cursor < end THEN {Segment(acc.cursor, end, "unknown")} ELSE {}
    IN NonEmpty(acc.segments \cup trailing)

IsGap(segment) == segment.status \in {"offline", "degraded"}
IsUnknown(segment) == segment.status = "unknown"

\* complete, in three values.
Verdict(segments) ==
  IF \E s \in segments : IsGap(s) THEN "false"
  ELSE IF \E s \in segments : IsUnknown(s) THEN "null"
  ELSE "true"

CameraComplete(intervals, start, end, grace) ==
  Verdict(CameraSegments(intervals, start, end, grace))

-----------------------------------------------------------------------------
(* Zones: a sweep over the boundaries of every watching camera's segments.  *)

Boundaries(segments, start, end) ==
  {p \in {start, end} \cup UNION {{Max2(s.start, start), Min2(s.end, end)} : s \in segments}
     : start <= p /\ p <= end}

\* Statuses of the cameras that have one segment spanning the slice.
StatusesOver(segments, left, right) ==
  {s.status : s \in {s \in segments : s.start <= left /\ s.end >= right}}

\* Seeded fault: all cameras must be healthy.
SliceStatusAll(statuses) ==
  IF statuses = {"healthy"} THEN "healthy" ELSE IF "unknown" \in statuses THEN "unknown" ELSE "offline"

\* A slice in which every camera was down is reported with the status of one.
SliceStatus(statuses) ==
  IF "healthy" \in statuses THEN "healthy"
  ELSE IF "unknown" \in statuses \/ statuses = {} THEN "unknown"
  ELSE CHOOSE s \in statuses : TRUE

\* The zone's uncovered slices.  The cameras' segments are computed with no
\* grace, whatever grace the caller passes.
ZoneSegments(history, watching, start, end) ==
  LET segments == UNION {CameraSegments(history[c], start, end, 0) : c \in watching}
      points == Boundaries(segments, start, end)
      lefts  == {p \in points : \E q \in points : p < q}
      right(p) == Min({q \in points : p < q})
      swept  == {Segment(p, right(p), SliceStatus(StatusesOver(segments, p, right(p)))) : p \in lefts}
  IN {s \in swept : s.status # "healthy"}

\* A zone nobody watches has no health to report.
ZoneComplete(history, watching, start, end) ==
  IF watching = {} THEN "null" ELSE Verdict(ZoneSegments(history, watching, start, end))
=============================================================================
