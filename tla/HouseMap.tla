------------------------------ MODULE HouseMap ------------------------------
(***************************************************************************)
(* The map of the house: two files edited by hand, the rows every startup    *)
(* seeds from them, the place each event is given, and what the queries over *)
(* zones answer.  Names, kinds and attributes of zones are left out; the     *)
(* seeding and its validation succeed or fail as one, before any request.    *)
(***************************************************************************)
EXTENDS Integers, FiniteSets

CONSTANTS
  Zones,      (* zone keys *)
  Configs,    (* what the files may hold, valid or not *)
  Posted,     (* entities an automation may name in what it posts *)
  MaxTime,    (* bound on the clock *)
  MaxEvents,  (* bound on the events stored *)
  MaxTies,    (* bound on the events of one instant *)
  None        (* no zone, no entity, not serving *)

\* home.yaml gives a parent to declared zones only.
ASSUME MapAssumption ==
  /\ None \notin Configs /\ None \notin Zones /\ MaxTime \in Nat /\ MaxTies \in Nat
  /\ None \notin Posted
  /\ \A c \in Configs : c.zones \subseteq Zones /\ DOMAIN c.parent \subseteq c.zones

VARIABLES
  config,     (* the files: zones, parent, relations, cameras *)
  serving,    (* what the running service loaded, None when it is down *)
  zoneRows,   (* zones, as a function to the parent *)
  edgeRows,   (* zone_edges *)
  entityRows, (* entity_zones *)
  events,     (* events: id within the instant, at, entity, zone *)
  now,
  newer       (* history: <<c, d>> if files c were seeded after d, or are d *)

mapVars == <<config, serving, zoneRows, edgeRows, entityRows, events, now, newer>>

Up == serving # None
Seeded == {c \in Configs : <<c, c>> \in newer}

TypeOK ==
  /\ config \in Configs
  /\ serving \in Configs \cup {None}
  /\ DOMAIN zoneRows \subseteq Zones
  /\ \A z \in DOMAIN zoneRows : zoneRows[z] \in DOMAIN zoneRows \cup {None}
  /\ \A r \in edgeRows : {r[1], r[2]} \subseteq DOMAIN zoneRows
  /\ \A r \in entityRows : r[2] \in DOMAIN zoneRows /\ r[3] \in {"located_in", "observes"}
  /\ \A e \in events : e.id \in 0..(MaxTies - 1) /\ e.at \in 0..now
  /\ now \in 0..MaxTime
  /\ newer \subseteq Configs \X Configs

MapInit ==
  /\ config \in Configs /\ serving = None
  /\ zoneRows = [z \in {} |-> None] /\ edgeRows = {} /\ entityRows = {}
  /\ events = {} /\ now = 0 /\ newer = {}

-----------------------------------------------------------------------------
(* The files. *)

CameraKeys(c) == DOMAIN c.cameras

EntitiesOf(cam) == {cam.event_image_entity, cam.camera_entity} \ {None}

\* The image entity comes first.
FirstEntity(cam) ==
  IF cam.event_image_entity # None THEN cam.event_image_entity ELSE cam.camera_entity
Covered(cam) == {cam.location} \cup cam.observes

ValidCamera(cam) ==
  /\ cam.strategy = "image_entity_state" => cam.event_image_entity # None
  /\ cam.strategy = "camera_snapshot" => cam.camera_entity # None

Valid(c) ==
  /\ \A k \in CameraKeys(c) :
       LET cam == c.cameras[k]
       IN ValidCamera(cam) /\ Covered(cam) \subseteq c.zones /\ cam.partial \subseteq Covered(cam)
  /\ \A r \in c.relations : {r.from, r.to} \subseteq c.zones

-----------------------------------------------------------------------------
(* seed_home. *)

WantedEdges(c) ==
  {<<r.from, r.to, r.relation>> : r \in c.relations}
    \cup {<<r.to, r.from, r.relation>> : r \in {q \in c.relations : q.bidirectional}}

WantedEntities(c) ==
  LET rows(cam) == EntitiesOf(cam) \X
                     ({<<cam.location, "located_in">>} \cup (cam.observes \X {"observes"}))
  IN {<<r[1], r[2][1], r[2][2]>> : r \in UNION {rows(c.cameras[k]) : k \in CameraKeys(c)}}

\* A zone that left the files keeps its row; a parent that left keeps its link.
SeedZones(c) ==
  [z \in DOMAIN zoneRows \cup c.zones |->
     IF z \in c.zones /\ z \in DOMAIN c.parent
       THEN IF c.parent[z] \in c.zones THEN c.parent[z] ELSE None
       ELSE IF z \in DOMAIN zoneRows THEN zoneRows[z] ELSE None]

\* Seeded fault: a seeding that accumulates.
SeedRowsAccumulating(rows, wanted) == rows \cup wanted

\* Rows of the files stay or are added, the others are deleted.
SeedRows(rows, wanted) == (rows \cap wanted) \cup (wanted \ rows)

\* Only a startup reads the files: an edit while the service runs is the same
\* as one made before the next startup.
Edit == /\ ~Up /\ \E c \in Configs : config' = c
        /\ UNCHANGED <<serving, zoneRows, edgeRows, entityRows, events, now, newer>>

Boot ==
  /\ ~Up /\ Valid(config)
  /\ serving' = config
  /\ zoneRows' = SeedZones(config)
  /\ edgeRows' = SeedRows(edgeRows, WantedEdges(config))
  /\ entityRows' = SeedRows(entityRows, WantedEntities(config))
  /\ newer' = {p \in newer : config \notin {p[1], p[2]}} \cup ({config} \X (Seeded \cup {config}))
  /\ UNCHANGED <<config, events, now>>

Down == /\ Up /\ serving' = None
        /\ UNCHANGED <<config, zoneRows, edgeRows, entityRows, events, now, newer>>

-----------------------------------------------------------------------------
(* The place of an event.  One entity may be filed under two cameras. *)

ZonesOf(entity) == {r[2] : r \in {q \in entityRows : q[1] = entity /\ q[3] = "located_in"}}

PlaceOf(entity, cam) == IF ZonesOf(entity) # {} THEN ZonesOf(entity) ELSE {cam.location}

\* Whatever entity the body names, the camera's or not; else the camera's first,
\* None if it has none.
TriggerEntities(cam) == Posted \cup {FirstEntity(cam)}

Ingest ==
  /\ Up /\ Cardinality(events) < MaxEvents
  /\ \E k \in CameraKeys(serving), at \in 0..now :
       /\ Cardinality({e \in events : e.at = at}) < MaxTies
       /\ \E entity \in TriggerEntities(serving.cameras[k]) :
            \E z \in PlaceOf(entity, serving.cameras[k]) :
              events' = events \cup {[id |-> Cardinality({e \in events : e.at = at}), at |-> at,
                                      entity |-> entity, zone |-> z]}
  /\ UNCHANGED <<config, serving, zoneRows, edgeRows, entityRows, now, newer>>

Tick == now < MaxTime /\ now' = now + 1
          /\ UNCHANGED <<config, serving, zoneRows, edgeRows, entityRows, events, newer>>

-----------------------------------------------------------------------------
(* The queries over the map. *)

\* Seeded fault: a full view does not win.
PartiallyDeclared(c) == UNION {c.cameras[k].partial : k \in CameraKeys(c)}

Partially(c) ==
  LET cams == {c.cameras[k] : k \in CameraKeys(c)}
  IN (UNION {cam.partial : cam \in cams}) \ (UNION {Covered(cam) \ cam.partial : cam \in cams})

CoveredBy(c) == UNION {Covered(c.cameras[k]) : k \in CameraKeys(c)}

CoverageOf(c, z) ==
  IF z \notin CoveredBy(c) THEN "none" ELSE IF z \in Partially(c) THEN "partial" ELSE "full"

CamerasObserving(c, z) ==
  {k \in CameraKeys(c) : z \in c.cameras[k].observes \/ z = c.cameras[k].location}

Adjacent(z) == {r[2] : r \in {q \in edgeRows : q[1] = z}}

Unobserved == DOMAIN zoneRows \ CoveredBy(serving)

-----------------------------------------------------------------------------
(* Properties. *)

\* The connections are those of the files in force.
EdgesConverge ==
  \A y, z \in Zones :
    z \in Adjacent(y) <=>
      \E r \in serving.relations : \/ r.from = y /\ r.to = z
                                   \/ r.bidirectional /\ r.from = z /\ r.to = y

\* An entity is where the files in force put it and sees what they say it sees.
EntitiesConverge ==
  LET owners(e) == {k \in CameraKeys(serving) : e \in EntitiesOf(serving.cameras[k])}
      rowsOf(e, role) == {r[2] : r \in {q \in entityRows : q[1] = e /\ q[3] = role}}
  IN \A e \in Posted \cup {r[1] : r \in entityRows} :
       /\ rowsOf(e, "located_in") = {serving.cameras[k].location : k \in owners(e)}
       /\ rowsOf(e, "observes") = UNION {serving.cameras[k].observes : k \in owners(e)}

\* An event is placed at a camera that has its entity now, or at the camera it
\* was posted for if none has: never where an earlier house had the entity.
PlacesConverge ==
  LET cams == {serving.cameras[k] : k \in CameraKeys(serving)}
  IN \A cam \in cams : \A e \in TriggerEntities(cam) :
       LET owners == {c \in cams : e \in EntitiesOf(c)}
       IN PlaceOf(e, cam) =
            {owner.location : owner \in IF owners = {} THEN {cam} ELSE owners}

\* Zones do not converge: the map lists every zone of any files seeded so far,
\* and a zone keeps the parent that the latest files to give it one gave it.
ZonesAccumulate ==
  /\ DOMAIN zoneRows = UNION {c.zones : c \in Seeded}
  /\ \A z \in DOMAIN zoneRows :
       LET givers == {c \in Seeded : z \in DOMAIN c.parent}
       IN IF givers = {} THEN zoneRows[z] = None
          ELSE \E c \in givers :
                 /\ \A d \in givers : <<c, d>> \in newer
                 /\ zoneRows[z] = IF c.parent[z] \in c.zones THEN c.parent[z] ELSE None

\* Events stay within reach of a question by zone, however the files change.
HistoryStaysReachable == \A e \in events : e.zone \in DOMAIN zoneRows

\* "It must converge rather than accumulate" (spatial.py:35).  Whatever the
\* house looked like at earlier startups, connections, the places and views of
\* cameras and the place of a new event are those of the files in force.  The
\* list of zones and their parents do accumulate; it is what keeps the events
\* of a former zone within reach.
SeedConverges ==
  /\ HistoryStaysReachable /\ ZonesAccumulate
  /\ Up => EdgesConverge /\ EntitiesConverge /\ PlacesConverge

\* A zone is called partly seen exactly when it is seen and every camera that
\* sees it says it sees part of it; and a zone of the map nothing sees, one of
\* a former house included, is listed as unobserved (spatial.py:203).
FieldOfViewIsExact ==
  Up =>
    \A z \in DOMAIN zoneRows :
      LET seers == CamerasObserving(serving, z)
      IN /\ CoverageOf(serving, z) = "partial" <=>
              seers # {} /\ \A k \in seers : z \in serving.cameras[k].partial
         /\ z \in Unobserved <=> seers = {}
         /\ CoverageOf(serving, z) = "none" <=> seers = {}
=============================================================================
