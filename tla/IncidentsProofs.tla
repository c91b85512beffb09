--------------------------- MODULE IncidentsProofs ---------------------------
(* Theorems about Incidents, for every set of events, window and clock. *)
EXTENDS Incidents, TLAPS

\* What relates events and incidents: a stored event has occurred and belongs
\* to an incident of its zone, an incident holds the event that opened it, and
\* a sweep has only open incidents in hand.
EventsInv ==
  \A e \in Events : Stored(e) =>
    /\ Happened(e)
    /\ incidentOf[e] \in Events
    /\ status[incidentOf[e]] # "absent"
    /\ ZoneOf[incidentOf[e]] = ZoneOf[e]

OpenersInv ==
  \A i \in Events : status[i] # "absent" =>
    /\ incidentOf[i] = i
    /\ startedAt[i] = occurred[i]
    /\ startedAt[i] <= endedAt[i]

SweepInv == \A i \in stale : Open(i)

Inv ==
  /\ TypeOK
  /\ EventsInv
  /\ OpenersInv
  /\ SweepInv
  /\ EndIsLastEvent
  /\ OpenIncidentsApart

-----------------------------------------------------------------------------
LEMMA InitInv == Init => Inv
BY IncidentsAssumption DEF Init, Inv, TypeOK, Time, EventsInv, OpenersInv, SweepInv,
   EndIsLastEvent, OpenIncidentsApart, Stored, Open

\* An event that is not stored opened no incident, and its moment is a time.
LEMMA Fresh ==
  ASSUME Inv, NEW e \in Events, Happened(e), ~Stored(e)
  PROVE  status[e] = "absent" /\ occurred[e] \in Time
BY IncidentsAssumption DEF Inv, TypeOK, OpenersInv, Stored, Happened

\* Opening an incident: nothing open in the zone reaches into the window.
LEMMA OpenKeepsInv ==
  ASSUME Inv, NEW e \in Events, Happened(e), ~Stored(e), OpenIncident(e),
         UNCHANGED <<now, occurred, summary, sweepVars>>
  PROVE  Inv'
<1> USE IncidentsAssumption
<1>1. status[e] = "absent" /\ occurred[e] \in Time /\ incidentOf[e] = None
  BY Fresh DEF Stored
<1>2. /\ incidentOf' = [incidentOf EXCEPT ![e] = e]
      /\ status' = [status EXCEPT ![e] = "open"]
      /\ startedAt' = [startedAt EXCEPT ![e] = occurred[e]]
      /\ endedAt' = [endedAt EXCEPT ![e] = occurred[e]]
      /\ occurred' = occurred /\ stale' = stale /\ seen' = seen /\ now' = now
      /\ summary' = summary
  BY DEF OpenIncident, sweepVars
<1>3. TypeOK'
  BY <1>1, <1>2 DEF Inv, TypeOK
<1>4. EventsInv'
  BY <1>1, <1>2 DEF Inv, TypeOK, EventsInv, Stored, Happened
<1>5. OpenersInv'
  BY <1>1, <1>2 DEF Inv, TypeOK, OpenersInv, Time
<1>6. SweepInv'
  BY <1>1, <1>2 DEF Inv, TypeOK, SweepInv, Open
<1>7. EndIsLastEvent'
  <2> SUFFICES ASSUME NEW i \in Events, status'[i] # "absent"
               PROVE  /\ \A f \in Members(i)' : occurred'[f] <= endedAt'[i]
                      /\ \E f \in Members(i)' : occurred'[f] = endedAt'[i]
    BY DEF EndIsLastEvent
  <2>1. CASE i = e
    <3>1. Members(i)' = {e}
      BY <1>1, <1>2, <2>1 DEF Members, Inv, TypeOK, EventsInv, Stored
    <3> QED BY <1>1, <1>2, <2>1, <3>1 DEF Inv, TypeOK, Time
  <2>2. CASE i # e
    <3>1. Members(i)' = Members(i)
      BY <1>1, <1>2, <2>2 DEF Members, Inv, TypeOK
    <3> QED BY <1>2, <2>2, <3>1 DEF Inv, TypeOK, EndIsLastEvent
  <2> QED BY <2>1, <2>2
<1>8. OpenIncidentsApart'
  <2>1. \A k \in Events : Open(k) /\ ZoneOf[k] = ZoneOf[e] => endedAt[k] + Window < occurred[e]
    BY <1>1 DEF OpenIncident, Joinable, Inv, TypeOK, Time
  <2>2. \A k \in Events : k # e => (Open(k)' <=> Open(k)) /\ endedAt'[k] = endedAt[k]
                                     /\ startedAt'[k] = startedAt[k]
    BY <1>2 DEF Open, Inv, TypeOK
  <2>3. startedAt'[e] = occurred[e]
    BY <1>2 DEF Inv, TypeOK
  <2> QED BY <2>1, <2>2, <2>3 DEF Inv, OpenIncidentsApart
<1> QED BY <1>3, <1>4, <1>5, <1>6, <1>7, <1>8 DEF Inv

\* Joining: the incident that grows is the latest one in reach, so what lies
\* after it is out of the reach of the event too.
LEMMA JoinKeepsInv ==
  ASSUME Inv, NEW e \in Events, Happened(e), ~Stored(e), JoinIncident(e),
         UNCHANGED <<now, occurred, summary, sweepVars>>
  PROVE  Inv'
<1> USE IncidentsAssumption
<1>1. status[e] = "absent" /\ occurred[e] \in Time /\ incidentOf[e] = None
  BY Fresh DEF Stored
<1>2. PICK i \in Joinable(e) :
        /\ \A j \in Joinable(e) : startedAt[j] <= startedAt[i]
        /\ incidentOf' = [incidentOf EXCEPT ![e] = i]
        /\ endedAt' = Extend(i, e)
        /\ UNCHANGED <<status, startedAt>>
  BY DEF JoinIncident
<1>3. /\ i \in Events /\ Open(i) /\ ZoneOf[i] = ZoneOf[e] /\ endedAt[i] >= occurred[e] - Window
      /\ i # e
  BY <1>1 DEF Joinable, Open
<1>4. /\ occurred' = occurred /\ stale' = stale /\ seen' = seen /\ now' = now
      /\ summary' = summary
  BY DEF sweepVars
<1>5. /\ endedAt' \in [Events -> Time]
      /\ \A k \in Events : k # i => endedAt'[k] = endedAt[k]
      /\ endedAt'[i] = IF occurred[e] > endedAt[i] THEN occurred[e] ELSE endedAt[i]
  BY <1>1, <1>2, <1>3 DEF Extend, Inv, TypeOK
<1>6. TypeOK'
  BY <1>2, <1>3, <1>4, <1>5 DEF Inv, TypeOK
<1>7. EventsInv'
  BY <1>1, <1>2, <1>3, <1>4 DEF Inv, TypeOK, EventsInv, Stored, Happened, Open
<1>8. OpenersInv'
  <2> SUFFICES ASSUME NEW k \in Events, status'[k] # "absent"
               PROVE  incidentOf'[k] = k /\ startedAt'[k] = occurred'[k]
                        /\ startedAt'[k] <= endedAt'[k]
    BY DEF OpenersInv
  <2>1. k # e /\ status[k] # "absent"
    BY <1>1, <1>2
  <2>2. incidentOf'[k] = k /\ startedAt'[k] = occurred'[k]
    BY <1>2, <1>4, <2>1 DEF Inv, TypeOK, OpenersInv
  <2>3. startedAt[k] <= endedAt[k]
    BY <2>1 DEF Inv, OpenersInv
  <2>4. endedAt[k] <= endedAt'[k]
    BY <1>1, <1>5 DEF Inv, TypeOK, Time
  <2>5. startedAt[k] \in Int /\ endedAt[k] \in Int /\ endedAt'[k] \in Int
    BY <1>5 DEF Inv, TypeOK, Time
  <2>6. startedAt'[k] <= endedAt'[k]
    BY <1>2, <2>3, <2>4, <2>5
  <2> QED BY <2>2, <2>6
<1>9. SweepInv'
  BY <1>2, <1>4 DEF Inv, SweepInv, Open
<1>10. EndIsLastEvent'
  <2> SUFFICES ASSUME NEW k \in Events, status'[k] # "absent"
               PROVE  /\ \A f \in Members(k)' : occurred'[f] <= endedAt'[k]
                      /\ \E f \in Members(k)' : occurred'[f] = endedAt'[k]
    BY DEF EndIsLastEvent
  <2>1. /\ \A f \in Members(k) : occurred[f] <= endedAt[k]
        /\ \E f \in Members(k) : occurred[f] = endedAt[k]
    BY <1>2 DEF Inv, EndIsLastEvent
  <2>2. \A f \in Members(k) : occurred[f] \in Time
    BY DEF Members, Inv, EventsInv, TypeOK, Stored, Happened
  <2>3. CASE k = i
    <3>1. Members(k)' = Members(k) \cup {e}
      BY <1>1, <1>2, <1>3, <2>3 DEF Members, Inv, TypeOK
    <3> QED BY <1>1, <1>3, <1>4, <1>5, <2>1, <2>2, <2>3, <3>1 DEF Inv, TypeOK, Time
  <2>4. CASE k # i
    <3>1. Members(k)' = Members(k)
      BY <1>1, <1>2, <1>3, <2>4 DEF Members, Inv, TypeOK
    <3> QED BY <1>4, <1>5, <2>1, <2>4, <3>1
  <2> QED BY <2>3, <2>4
<1>11. OpenIncidentsApart'
  <2>1. ASSUME NEW k \in Events, Open(k), k # i, ZoneOf[k] = ZoneOf[i]
        PROVE  endedAt'[i] + Window < startedAt[k] \/ endedAt[k] + Window < startedAt[i]
    <3>1. endedAt[i] + Window < startedAt[k] \/ endedAt[k] + Window < startedAt[i]
      BY <1>3, <2>1 DEF Inv, OpenIncidentsApart
    <3>2. /\ startedAt[k] \in Nat /\ endedAt[k] \in Nat /\ startedAt[i] \in Nat
          /\ endedAt[i] \in Nat /\ occurred[e] \in Nat
      BY <1>1, <1>3, <2>1 DEF Inv, TypeOK, Time
    <3>3. startedAt[k] <= endedAt[k] /\ startedAt[i] <= endedAt[i]
      BY <1>3, <2>1 DEF Inv, OpenersInv, Open
    <3>4. CASE endedAt[i] + Window < startedAt[k]
      <4>1. endedAt[k] >= occurred[e] - Window
        BY <1>3, <3>2, <3>3, <3>4
      <4>2. k \in Joinable(e)
        BY <1>3, <2>1, <4>1 DEF Joinable
      <4>3. startedAt[k] <= startedAt[i]
        BY <1>2, <4>2
      <4> QED BY <3>2, <3>3, <3>4, <4>3
    <3> QED BY <3>1, <3>4
  <2>2. \A k \in Events : (Open(k)' <=> Open(k)) /\ startedAt'[k] = startedAt[k]
    BY <1>2 DEF Open
  <2> SUFFICES ASSUME NEW j \in Events, NEW k \in Events, Open(j), Open(k), j # k,
                      ZoneOf[j] = ZoneOf[k]
               PROVE  endedAt'[j] + Window < startedAt[k] \/ endedAt'[k] + Window < startedAt[j]
    BY <2>2 DEF OpenIncidentsApart
  <2>3. CASE j = i
    BY <1>5, <2>1, <2>3
  <2>4. CASE k = i
    BY <1>5, <2>1, <2>4
  <2>5. CASE j # i /\ k # i
    BY <1>5, <2>5 DEF Inv, OpenIncidentsApart
  <2> QED BY <2>3, <2>4, <2>5
<1> QED BY <1>6, <1>7, <1>8, <1>9, <1>10, <1>11 DEF Inv

LEMMA StepInv == Inv /\ [Next]_vars => Inv'
<1> SUFFICES ASSUME Inv, [Next]_vars PROVE Inv'
  OBVIOUS
<1> USE IncidentsAssumption
<1>1. ASSUME NEW e \in Events, Occur(e) PROVE Inv'
  <2>1. /\ \E t \in Time : occurred' = [occurred EXCEPT ![e] = t]
        /\ ~Happened(e) /\ ~Stored(e)
        /\ now' = now /\ UNCHANGED incidentVars /\ UNCHANGED sweepVars
    BY <1>1 DEF Occur, Inv, EventsInv
  <2>2. \A f \in Events : Stored(f) => f # e /\ occurred'[f] = occurred[f]
    BY <2>1 DEF Inv, TypeOK
  <2>3. TypeOK'
    BY <2>1 DEF Inv, TypeOK, incidentVars, sweepVars
  <2>4. EventsInv'
    BY <2>1, <2>2 DEF Inv, EventsInv, incidentVars, Stored, Happened
  <2>5. OpenersInv'
    BY <2>1, <2>2 DEF Inv, OpenersInv, incidentVars, Stored
  <2>6. EndIsLastEvent'
    <3>1. \A i \in Events : Members(i)' = Members(i)
      BY <2>1 DEF Members, incidentVars
    <3>2. \A i \in Events : \A f \in Members(i) : occurred'[f] = occurred[f]
      BY <2>2 DEF Members, Stored
    <3> QED BY <2>1, <3>1, <3>2 DEF Inv, EndIsLastEvent, incidentVars
  <2>7. SweepInv' /\ OpenIncidentsApart'
    BY <2>1 DEF Inv, SweepInv, OpenIncidentsApart, incidentVars, sweepVars, Open
  <2> QED BY <2>3, <2>4, <2>5, <2>6, <2>7 DEF Inv
<1>2. ASSUME NEW e \in Events, Correlate(e) PROVE Inv'
  BY <1>2, OpenKeepsInv, JoinKeepsInv DEF Correlate
<1>3. CASE SweepSelect
  BY <1>3 DEF SweepSelect, Stale, Inv, TypeOK, EventsInv, OpenersInv, SweepInv, EndIsLastEvent,
     OpenIncidentsApart, incidentVars, Stored, Happened, Open, Members
<1>4. ASSUME NEW i \in Events, SweepRead(i) PROVE Inv'
  <2>1. Members(i) \in SUBSET Events
    BY DEF Members
  <2>2. TypeOK'
    BY <1>4, <2>1 DEF SweepRead, Inv, TypeOK, incidentVars
  <2> QED BY <1>4, <2>2 DEF SweepRead, Inv, EventsInv, OpenersInv, SweepInv, EndIsLastEvent,
     OpenIncidentsApart, incidentVars, Stored, Happened, Open, Members
<1>5. CASE SweepWrite
  <2>1. /\ \A i \in Events : (status'[i] = "absent" <=> status[i] = "absent")
        /\ \A i \in Events : status'[i] = "open" => status[i] = "open"
    BY <1>5 DEF SweepWrite, Inv, SweepInv, TypeOK, Open
  <2>2. UNCHANGED <<now, occurred, incidentOf, startedAt, endedAt>> /\ stale' = {}
    BY <1>5 DEF SweepWrite, SweepDone
  <2>3. TypeOK'
    BY <1>5, <2>2 DEF SweepWrite, SweepDone, Inv, TypeOK
  <2>4. EventsInv' /\ OpenersInv' /\ SweepInv'
    BY <2>1, <2>2 DEF Inv, EventsInv, OpenersInv, SweepInv, Stored, Happened
  <2>5. EndIsLastEvent' /\ OpenIncidentsApart'
    BY <2>1, <2>2 DEF Inv, EndIsLastEvent, OpenIncidentsApart, Open, Members
  <2> QED BY <2>3, <2>4, <2>5 DEF Inv
<1>6. CASE SweepLost
  BY <1>6 DEF SweepLost, SweepDone, Inv, TypeOK, EventsInv, OpenersInv, SweepInv,
     EndIsLastEvent, OpenIncidentsApart, incidentVars, Stored, Happened, Open, Members
<1>7. CASE Tick \/ UNCHANGED vars
  <2>1. /\ UNCHANGED <<occurred, incidentVars, sweepVars>>
        /\ now' \in Time
    BY <1>7 DEF Tick, vars, Inv, TypeOK, Time
  <2> QED BY <2>1 DEF Inv, TypeOK, EventsInv, OpenersInv, SweepInv, EndIsLastEvent,
     OpenIncidentsApart, incidentVars, sweepVars, Stored, Happened, Open, Members
<1> QED BY <1>1, <1>2, <1>3, <1>4, <1>5, <1>6, <1>7 DEF Next

LEMMA SpecInv == Spec => []Inv
BY InitInv, StepInv, PTL DEF Spec

-----------------------------------------------------------------------------
\* Every variable keeps its type.
THEOREM IncidentsTyped == Spec => []TypeOK
<1>1. Inv => TypeOK
  BY DEF Inv
<1> QED BY <1>1, SpecInv, PTL

\* The open incidents of a zone never come within a window of each other,
\* whatever the order in which events are stored.
THEOREM OpenIncidentsStayApart == Spec => []OpenIncidentsApart
<1>1. Inv => OpenIncidentsApart
  BY DEF Inv
<1> QED BY <1>1, SpecInv, PTL

\* An incident ends with its last event, open or closed.
THEOREM EndStaysLastEvent == Spec => []EndIsLastEvent
<1>1. Inv => EndIsLastEvent
  BY DEF Inv
<1> QED BY <1>1, SpecInv, PTL

\* A closed incident is never reopened, joined or rewritten.
THEOREM ClosedStaysSettled == Spec => ClosedIsSettled
<1> DEFINE Settled ==
      \A i \in Events : status[i] = "closed" =>
        /\ status'[i] = "closed"
        /\ summary'[i] = summary[i]
        /\ endedAt'[i] = endedAt[i]
        /\ \A e \in Events : incidentOf'[e] = i => incidentOf[e] = i
<1>1. Inv /\ [Next]_vars => [Settled]_vars
  <2> SUFFICES ASSUME Inv, Next, NEW i \in Events, status[i] = "closed"
               PROVE  /\ status'[i] = "closed"
                      /\ summary'[i] = summary[i]
                      /\ endedAt'[i] = endedAt[i]
                      /\ \A e \in Events : incidentOf'[e] = i => incidentOf[e] = i
    OBVIOUS
  <2>1. ASSUME NEW e \in Events, Correlate(e), OpenIncident(e)
        PROVE  /\ status'[i] = "closed"
               /\ endedAt'[i] = endedAt[i]
               /\ \A f \in Events : incidentOf'[f] = i => incidentOf[f] = i
    <3>1. e # i
      BY <2>1, Fresh DEF Correlate
    <3> QED BY <2>1, <3>1 DEF OpenIncident, Inv, TypeOK
  <2>2. ASSUME NEW e \in Events, Correlate(e), JoinIncident(e)
        PROVE  /\ status'[i] = "closed"
               /\ endedAt'[i] = endedAt[i]
               /\ \A f \in Events : incidentOf'[f] = i => incidentOf[f] = i
    <3>1. PICK j \in Joinable(e) :
            /\ incidentOf' = [incidentOf EXCEPT ![e] = j]
            /\ endedAt' = Extend(j, e)
            /\ status' = status
      BY <2>2 DEF JoinIncident
    <3>2. j # i
      BY <3>1 DEF Joinable, Open
    <3> QED BY <3>1, <3>2 DEF Extend, Inv, TypeOK
  <2>3. ASSUME NEW e \in Events, Correlate(e) PROVE summary' = summary
    BY <2>3 DEF Correlate
  <2>4. CASE SweepWrite
    <3>1. i \notin stale
      BY DEF Inv, SweepInv, Open
    <3> QED BY <2>4, <3>1 DEF SweepWrite
  <2>5. CASE UNCHANGED incidentVars
    BY <2>5 DEF incidentVars
  <2>6. \/ \E e \in Events : Correlate(e) /\ (OpenIncident(e) \/ JoinIncident(e))
        \/ SweepWrite
        \/ UNCHANGED incidentVars
    BY DEF Next, Correlate, Occur, SweepSelect, SweepLost, SweepRead, Tick
  <2> QED BY <2>1, <2>2, <2>3, <2>4, <2>5, <2>6
<1> QED BY <1>1, SpecInv, PTL DEF Spec, ClosedIsSettled

\* Stored in the order of occurrence, an event joins an open incident exactly
\* if one of that incident's events lies within the window before it.
LEMMA InOrderStep ==
  ASSUME Inv, NEW e \in Events, NEW i \in Events, Correlate(e), InOrder(e), Open(i),
         ZoneOf[i] = ZoneOf[e]
  PROVE  incidentOf'[e] = i <=> \E f \in Members(i) : occurred[f] >= occurred[e] - Window
<1> DEFINE Near == \E f \in Members(i) : occurred[f] >= occurred[e] - Window
<1> USE IncidentsAssumption
<1>1. /\ status[e] = "absent" /\ occurred[e] \in Nat /\ i # e
      /\ startedAt[i] \in Nat /\ endedAt[i] \in Nat
  BY Fresh DEF Correlate, Open, Inv, TypeOK, Time
<1>2. \A f \in Members(i) : occurred[f] \in Nat /\ occurred[f] <= endedAt[i]
  BY DEF Members, Inv, EventsInv, TypeOK, Time, Stored, Happened, EndIsLastEvent, Open
<1>3. i \in Joinable(e) <=> Near
  <2>1. Near => endedAt[i] >= occurred[e] - Window
    BY <1>1, <1>2
  <2>2. endedAt[i] >= occurred[e] - Window => Near
    BY DEF Inv, EndIsLastEvent, Open
  <2> QED BY <2>1, <2>2 DEF Joinable
<1>4. CASE OpenIncident(e)
  <2>1. incidentOf'[e] = e /\ i \notin Joinable(e)
    BY <1>4 DEF OpenIncident, Inv, TypeOK
  <2> QED BY <1>1, <1>3, <2>1
<1>5. CASE JoinIncident(e)
  <2>1. PICK j \in Joinable(e) :
          /\ \A k \in Joinable(e) : startedAt[k] <= startedAt[j]
          /\ incidentOf' = [incidentOf EXCEPT ![e] = j]
    BY <1>5 DEF JoinIncident
  <2>2. incidentOf'[e] = j
    BY <2>1 DEF Inv, TypeOK
  <2>3. ASSUME i \in Joinable(e), j # i PROVE FALSE
    <3>1. /\ j \in Events /\ Open(j) /\ ZoneOf[j] = ZoneOf[e]
          /\ startedAt[i] <= startedAt[j]
          /\ endedAt[i] >= occurred[e] - Window
      BY <2>1, <2>3 DEF Joinable
    <3>2. /\ startedAt[j] = occurred[j] /\ startedAt[j] <= endedAt[j] /\ incidentOf[j] = j
          /\ startedAt[j] \in Nat /\ endedAt[j] \in Nat
      BY <3>1 DEF Inv, OpenersInv, TypeOK, Time, Open
    <3>3. occurred[j] <= occurred[e]
      BY <3>1, <3>2 DEF InOrder, Stored
    <3>4. endedAt[i] + Window < startedAt[j] \/ endedAt[j] + Window < startedAt[i]
      BY <2>3, <3>1 DEF Inv, OpenIncidentsApart
    <3> QED BY <1>1, <3>1, <3>2, <3>3, <3>4
  <2> QED BY <1>3, <2>1, <2>2, <2>3
<1> QED BY <1>4, <1>5 DEF Correlate

THEOREM InOrderFollowsTheRule == Spec => InOrderRule
<1> DEFINE Rule ==
      \A e, i \in Events :
        ~Stored(e) /\ Stored(e)' /\ InOrder(e) /\ Open(i) /\ ZoneOf[i] = ZoneOf[e] =>
          (incidentOf'[e] = i <=> \E f \in Members(i) : occurred[f] >= occurred[e] - Window)
<1>1. Inv /\ [Next]_vars => [Rule]_vars
  <2> SUFFICES ASSUME Inv, Next, NEW e \in Events, NEW i \in Events, ~Stored(e), Stored(e)',
                      InOrder(e), Open(i), ZoneOf[i] = ZoneOf[e]
               PROVE  incidentOf'[e] = i
                        <=> \E f \in Members(i) : occurred[f] >= occurred[e] - Window
    OBVIOUS
  <2>1. PICK f \in Events : Correlate(f)
    BY DEF Next, Occur, SweepSelect, SweepWrite, SweepLost, SweepRead, Tick, incidentVars, Stored
  <2>2. f = e
    BY <2>1 DEF Correlate, OpenIncident, JoinIncident, Stored, Inv, TypeOK
  <2> QED BY <2>1, <2>2, InOrderStep
<1> QED BY <1>1, SpecInv, PTL DEF Spec, InOrderRule

-----------------------------------------------------------------------------
(* What a summary counts. *)

\* Some events of the incident, the one that opened it among them.
Counts(counted, i) == i \in counted /\ counted \subseteq Members(i)

\* Exactly the closed incidents have a summary.  A job may add a member between
\* the sweep's read and its commit, so a summary may leave members out, but it
\* counts none that the incident does not have and is never empty.
SummaryCountsMembers ==
  \A i \in Events :
    /\ status[i] = "closed" <=> summary[i] # None
    /\ summary[i] # None => Counts(summary[i], i)

\* What a sweep has read is such a set too, of an incident it has in hand.
SeenInv == \A i \in Events : seen[i] # None => i \in stale /\ Counts(seen[i], i)

SummaryInv == SummaryCountsMembers /\ SeenInv

\* Storing an event adds to the members of an open incident and of no other, and
\* takes none.
LEMMA CorrelateAdds ==
  ASSUME Inv, NEW e \in Events, Correlate(e)
  PROVE  /\ \A i \in Events : Members(i) \subseteq Members(i)'
         /\ \A i \in Events : status'[i] = "closed" <=> status[i] = "closed"
         /\ UNCHANGED <<summary, stale, seen>>
<1>1. incidentOf[e] = None /\ status[e] = "absent" /\ UNCHANGED <<summary, stale, seen>>
  BY Fresh DEF Correlate, Stored, sweepVars
<1>2. PICK k : incidentOf' = [incidentOf EXCEPT ![e] = k]
  BY DEF Correlate, OpenIncident, JoinIncident
<1>3. \A i \in Events : Members(i) \subseteq Members(i)'
  BY <1>1, <1>2, IncidentsAssumption DEF Members, Inv, TypeOK
<1>4. \A i \in Events : status'[i] = "closed" <=> status[i] = "closed"
  BY <1>1 DEF Correlate, OpenIncident, JoinIncident, Inv, TypeOK
<1> QED BY <1>1, <1>3, <1>4

LEMMA StepSummary == Inv /\ SummaryInv /\ [Next]_vars => SummaryInv'
<1> SUFFICES ASSUME Inv, SummaryInv, [Next]_vars PROVE SummaryInv'
  OBVIOUS
<1> USE DEF SummaryInv, SummaryCountsMembers, SeenInv
<1>1. ASSUME NEW e \in Events, Correlate(e) PROVE SummaryInv'
  <2>1. ASSUME NEW counted, NEW i \in Events, Counts(counted, i)
        PROVE  i \in counted /\ counted \subseteq Members(i)'
    BY <1>1, <2>1, CorrelateAdds DEF Counts
  <2> QED BY <1>1, <2>1, CorrelateAdds DEF Counts
<1>2. ASSUME UNCHANGED <<incidentOf, status, summary>>
      PROVE  SummaryCountsMembers'
  BY <1>2 DEF Counts, Members
<1>3. CASE SweepSelect
  <2>1. SeenInv'
    BY <1>3 DEF SweepSelect, incidentVars, Counts, Members
  <2> QED BY <1>2, <1>3, <2>1 DEF SweepSelect, incidentVars
<1>4. ASSUME NEW i \in Events, SweepRead(i) PROVE SummaryInv'
  <2>1. Counts(Members(i), i)
    <3>1. status[i] # "absent"
      BY <1>4 DEF SweepRead, Inv, SweepInv, Open
    <3> QED BY <3>1 DEF Inv, OpenersInv, Members, Counts
  <2>2. seen' = [seen EXCEPT ![i] = Members(i)] /\ UNCHANGED <<incidentVars, stale>> /\ i \in stale
    BY <1>4 DEF SweepRead
  <2>3. SeenInv'
    <3>1. \A k \in Events : Members(k)' = Members(k)
      BY <2>2 DEF Members, incidentVars
    <3> QED BY <2>1, <2>2, <3>1 DEF Counts, Inv, TypeOK
  <2> QED BY <1>2, <2>2, <2>3 DEF incidentVars
<1>5. CASE SweepWrite
  <2>1. /\ UNCHANGED incidentOf /\ \A i \in Events : seen'[i] = None
        /\ \A i \in stale : seen[i] # None
        /\ \A i \in Events : i \in stale => status'[i] = "closed" /\ summary'[i] = seen[i]
        /\ \A i \in Events : i \notin stale => status'[i] = status[i] /\ summary'[i] = summary[i]
    BY <1>5 DEF SweepWrite, SweepDone
  <2>2. \A i \in Events : Members(i)' = Members(i)
    BY <2>1 DEF Members
  <2> QED BY <2>1, <2>2 DEF Counts
<1>6. CASE SweepLost
  <2>1. SeenInv'
    BY <1>6 DEF SweepLost, SweepDone
  <2> QED BY <1>2, <1>6, <2>1 DEF SweepLost, incidentVars
<1>7. CASE (\E e \in Events : Occur(e)) \/ Tick \/ UNCHANGED vars
  <2>1. UNCHANGED <<incidentVars, sweepVars>>
    BY <1>7 DEF Occur, Tick, vars
  <2>2. SeenInv'
    BY <2>1 DEF incidentVars, sweepVars, Counts, Members
  <2> QED BY <1>2, <2>1, <2>2 DEF incidentVars
<1> QED BY <1>1, <1>3, <1>4, <1>5, <1>6, <1>7 DEF Next

\* A summary counts no event the incident does not have, and always the one that
\* opened it, whatever the jobs store between the sweep's read and its commit:
\* close_stale_incidents.
THEOREM SummaryStaysTrue == Spec => []SummaryCountsMembers
<1>1. Init => SummaryInv
  BY DEF Init, SummaryInv, SummaryCountsMembers, SeenInv
<1>2. SummaryInv => SummaryCountsMembers
  BY DEF SummaryInv
<1> QED BY <1>1, <1>2, InitInv, StepInv, StepSummary, PTL DEF Spec
=============================================================================
