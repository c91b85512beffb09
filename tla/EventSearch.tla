----------------------------- MODULE EventSearch -----------------------------
(***************************************************************************)
(* The event tools an agent asks about the past: home_recent_events and      *)
(* home_search_events over the events HouseMap stores, the cutting of a long *)
(* result, the hint of an empty one, and an agent that follows both.  Types, *)
(* tags, wording, notes on the period (query_context) and the coverage       *)
(* blocks (DeliveryReconcile) are left out.                                  *)
(***************************************************************************)
EXTENDS HouseMap

CONSTANTS
  Limit,      (* the limit the agent asks for *)
  Room,       (* events that fit one result at the least *)
  PerMinute,  (* units of the clock in a minute *)
  Slack,      (* minutes home_recent_events adds to the age of an event *)
  MaxMinutes, (* minutes home_recent_events accepts at most *)
  Windows,    (* minutes the agent asks home_recent_events for *)
  Periods,    (* periods it asks home_search_events for, from -1 if no start *)
  Filters     (* cameras and zones it asks for, None for any *)

ASSUME SearchAssumption ==
  /\ Limit \in Nat \ {0} /\ Room \in Nat \ {0}
  /\ MaxTies < Limit /\ MaxTies < Room
  /\ PerMinute \in Nat \ {0} /\ Slack \in Nat \ {0}
  /\ MaxMinutes \in Nat /\ Slack <= MaxMinutes
  /\ Windows \subseteq 1..MaxMinutes
  /\ Periods \subseteq Int \X Int

VARIABLES
  reader,     (* the agent following a list that was cut *)
  hint        (* the hint of the last empty window *)

searchVars == <<reader, hint>>
vars == <<mapVars, searchVars>>

Idle == [asked |-> "no"]
NoHint == [minutes |-> None]

SearchTypeOK ==
  /\ TypeOK
  /\ reader # Idle => reader.asked \in {"more", "all"} /\ reader.missed \subseteq events
  /\ reader.asked = "more" => reader.filter \in Filters /\ reader.start \in Int /\ reader.end \in 0..now
  /\ hint # NoHint => /\ hint.minutes \in Nat /\ hint.filter \in Filters
                      /\ hint.at \in 0..now /\ hint.latest \in 0..hint.at

Init ==
  /\ MapInit
  /\ reader = Idle /\ hint = NoHint

Oldest(S) == CHOOSE t \in {e.at : e \in S} : \A e \in S : e.at >= t
Least(a, b) == IF a < b THEN a ELSE b

-----------------------------------------------------------------------------
(* The queries of EventService. *)

\* A camera that is not in the files, or has no entity, matches nothing.
Known(f) ==
  f.camera # None =>
    f.camera \in CameraKeys(serving) /\ EntitiesOf(serving.cameras[f.camera]) # {}

InZone(f, S) == IF f.zone = None THEN S ELSE {e \in S : e.zone = f.zone}

\* Seeded fault: an exclusive end.
MatchingBefore(f, start, end) ==
  IF ~Known(f) THEN {}
  ELSE {e \in InZone(f, events) :
          /\ start <= e.at /\ e.at < end
          /\ f.camera # None => e.entity = FirstEntity(serving.cameras[f.camera])}

Matching(f, start, end) ==
  IF ~Known(f) THEN {}
  ELSE {e \in InZone(f, events) :
          /\ start <= e.at /\ e.at <= end
          /\ f.camera # None => e.entity = FirstEntity(serving.cameras[f.camera])}

\* latest_event_time takes every entity of the camera; t is None if nothing
\* matches.
OfAnyEntity(f) ==
  IF ~Known(f) THEN {}
  ELSE {e \in InZone(f, events) :
          f.camera # None => e.entity \in EntitiesOf(serving.cameras[f.camera])}

IsLatest(f, t) ==
  IF OfAnyEntity(f) = {} THEN t = None
  ELSE \E e \in OfAnyEntity(f) : e.at = t /\ \A d \in OfAnyEntity(f) : d.at <= t

\* The k newest of S, ties in any order.
NewestOf(S, k) ==
  {K \in SUBSET S : Cardinality(K) = k /\ \A e \in K, d \in S \ K : e.at >= d.at}

\* A result: the newest Limit, then as many of them as fit the text.
Results(f, start, end) ==
  LET S == Matching(f, start, end)
      found == Least(Cardinality(S), Limit)
  IN UNION {{[events |-> K, truncated |-> k < found] : K \in NewestOf(S, k)} :
            k \in Least(Room, found)..found}

-----------------------------------------------------------------------------
(* The agent. *)

\* The text was too long: "search again with end_time={last}".
CutByText(r) == r.truncated

\* A list as long as the limit may have been cut by it.  No answer says so: that
\* the agent asks on is an assumption about the agent.
CutByLimit(r) == Cardinality(r.events) = Limit

\* missed: what matched at first and is not shown.
Follow(f, start, r, owed) ==
  IF r.events # {} /\ (CutByText(r) \/ CutByLimit(r))
    THEN [asked |-> "more", filter |-> f, start |-> start, end |-> Oldest(r.events),
          missed |-> owed \ r.events]
    ELSE [asked |-> "all", missed |-> owed \ r.events]

\* Seeded fault: a window as long as the event's age.
HintUnslacked(f, t) ==
  IF t = None THEN NoHint
  ELSE [filter |-> f, at |-> now, latest |-> t, minutes |-> (now - t) \div PerMinute]

Hint(f, t) ==
  IF t = None THEN NoHint
  ELSE [filter |-> f, at |-> now, latest |-> t, minutes |-> (now - t) \div PerMinute + Slack]

Recent(f, minutes) ==
  LET start == now - minutes * PerMinute
  IN \E r \in Results(f, start, now) :
       /\ reader' = Follow(f, start, r, Matching(f, start, now))
       /\ \E t \in 0..now \cup {None} :
            IsLatest(f, t) /\ hint' = IF r.events = {} THEN Hint(f, t) ELSE NoHint

AskRecent ==
  /\ Up /\ reader.asked # "more"
  /\ \E f \in Filters, m \in Windows : Recent(f, m)
  /\ UNCHANGED <<mapVars>>

FollowHint ==
  /\ Up /\ reader.asked # "more" /\ hint # NoHint
  /\ hint.minutes \in 1..MaxMinutes
  /\ Recent(hint.filter, hint.minutes)
  /\ UNCHANGED <<mapVars>>

\* The call is refused before the tool runs.
HintRefused ==
  /\ Up /\ reader.asked # "more" /\ hint # NoHint
  /\ hint.minutes \notin 1..MaxMinutes
  /\ hint' = NoHint
  /\ UNCHANGED <<mapVars, reader>>

AskSearch ==
  /\ Up /\ reader.asked # "more"
  /\ \E f \in Filters, p \in Periods :
       \E r \in Results(f, p[1], p[2]) :
         reader' = Follow(f, p[1], r, Matching(f, p[1], p[2]))
  /\ hint' = NoHint
  /\ UNCHANGED <<mapVars>>

NextPage ==
  /\ Up /\ reader.asked = "more"
  /\ \E r \in Results(reader.filter, reader.start, reader.end) :
       reader' = Follow(reader.filter, reader.start, r, reader.missed)
  /\ UNCHANGED <<mapVars, hint>>

\* A session of the agent is held in the process.
GoDown == Down /\ reader' = Idle /\ hint' = NoHint

MapStep == (Edit \/ Boot \/ Ingest \/ Tick) /\ UNCHANGED searchVars

Next ==
  MapStep \/ GoDown \/ AskRecent \/ FollowHint \/ HintRefused \/ AskSearch \/ NextPage

Spec == Init /\ [][Next]_vars

-----------------------------------------------------------------------------
(* Properties. *)

\* "A shortened list is never read as the whole of it" (mcp/tools.py:180): an
\* agent that follows end_time={last} until a result is not cut has seen every
\* event that matched when it first asked, whatever was stored meanwhile; and
\* it gets there, as events of one instant never make a page point at itself.
PagesCoverAll ==
  /\ reader.asked = "all" => reader.missed = {}
  /\ Up /\ reader.asked = "more" =>
       \A r \in Results(reader.filter, reader.start, reader.end) :
         Follow(reader.filter, reader.start, r, reader.missed) # reader

\* "The exact `minutes` value that reaches the most recent event"
\* (mcp/tools.py:261).  It does for an event not older than the longest window
\* the tool accepts, less the slack, asked again within the slack less a minute:
\* the call is accepted and the answer not empty.  Only an event posted for an
\* entity of the camera that is not its first stays out of reach: the newest
\* event is looked up over all entities of the camera, the list over the first
\* (docs/home-assistant-setup.md:186).
HintReaches ==
  LET f == hint.filter
      latest == {e \in OfAnyEntity(f) : e.at = hint.latest}
      listed == {e \in latest :
                   f.camera # None => e.entity = FirstEntity(serving.cameras[f.camera])}
  IN (/\ hint # NoHint
      /\ now - hint.at <= Slack * PerMinute - (PerMinute - 1)
      /\ hint.at - hint.latest <= (MaxMinutes - Slack) * PerMinute)
     => /\ hint.minutes \in 1..MaxMinutes
        /\ latest # {}
        /\ listed \subseteq Matching(f, now - hint.minutes * PerMinute, now)
=============================================================================
