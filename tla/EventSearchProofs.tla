-------------------------- MODULE EventSearchProofs --------------------------
(***************************************************************************)
(* What the seeding makes of the map, and the event tools over it: proofs for *)
(* every set of files, every number of events and every length of a minute.  *)
(***************************************************************************)
EXTENDS EventSearch, FiniteSetTheorems, TLAPS

-----------------------------------------------------------------------------
(* The map alone. *)

MapNext == Edit \/ Boot \/ Down \/ Ingest \/ Tick
MapSpec == MapInit /\ [][MapNext]_mapVars

\* The rows are those of the files in force, and zones accumulate.
MapInv ==
  /\ serving \in Configs \cup {None}
  /\ config \in Configs
  /\ newer \subseteq Configs \X Configs
  /\ \A e \in events : e.zone \in DOMAIN zoneRows
  /\ ZonesAccumulate
  /\ Up => /\ Valid(serving) /\ serving \in Seeded
           /\ edgeRows = WantedEdges(serving)
           /\ entityRows = WantedEntities(serving)

\* The diff the seeding applies leaves exactly the wanted rows.
LEMMA SeedRowsExact == ASSUME NEW rows, NEW wanted PROVE SeedRows(rows, wanted) = wanted
  BY DEF SeedRows

\* And what such a row takes.
LEMMA WantedOfCamera ==
  ASSUME NEW c, NEW k \in CameraKeys(c), NEW e \in EntitiesOf(c.cameras[k])
  PROVE  /\ <<e, c.cameras[k].location, "located_in">> \in WantedEntities(c)
         /\ \A z \in c.cameras[k].observes : <<e, z, "observes">> \in WantedEntities(c)
<1> DEFINE cam == c.cameras[k]
           rows(m) == EntitiesOf(m) \X
                        ({<<m.location, "located_in">>} \cup (m.observes \X {"observes"}))
<1>1. ASSUME NEW v \in {<<cam.location, "located_in">>} \cup (cam.observes \X {"observes"})
      PROVE  <<e, v[1], v[2]>> \in WantedEntities(c)
  <2>1. <<e, v>> \in rows(cam)
    OBVIOUS
  <2>2. <<e, v>> \in UNION {rows(c.cameras[q]) : q \in CameraKeys(c)}
    BY <2>1
  <2> QED BY <2>2 DEF WantedEntities
<1>2. <<e, cam.location, "located_in">> \in WantedEntities(c)
  <2>1. PICK v : v = <<cam.location, "located_in">> OBVIOUS
  <2> QED BY <1>1, <2>1
<1>3. ASSUME NEW z \in cam.observes PROVE <<e, z, "observes">> \in WantedEntities(c)
  <2>1. PICK v : v = <<z, "observes">> OBVIOUS
  <2>2. v \in cam.observes \X {"observes"} BY <2>1
  <2> QED BY <1>1, <2>1, <2>2
<1> QED BY <1>2, <1>3

\* What a wanted row of entity_zones says: an entity and a place of one camera.
LEMMA EntityRowsOfCamera ==
  ASSUME NEW c, NEW r \in WantedEntities(c)
  PROVE  \E k \in CameraKeys(c) :
           /\ r[1] \in EntitiesOf(c.cameras[k])
           /\ \/ r[2] = c.cameras[k].location /\ r[3] = "located_in"
              \/ r[2] \in c.cameras[k].observes /\ r[3] = "observes"
  BY DEF WantedEntities

OwnersOf(c, e) == {k \in CameraKeys(c) : e \in EntitiesOf(c.cameras[k])}
RowsOf(rows, e, role) == {r[2] : r \in {q \in rows : q[1] = e /\ q[3] = role}}

\* The rows of an entity are those of the cameras that have it.
LEMMA RowsOfEntity ==
  ASSUME NEW c, NEW e
  PROVE  /\ RowsOf(WantedEntities(c), e, "located_in") = {c.cameras[k].location : k \in OwnersOf(c, e)}
         /\ RowsOf(WantedEntities(c), e, "observes") = UNION {c.cameras[k].observes : k \in OwnersOf(c, e)}
<1>1. ASSUME NEW k \in OwnersOf(c, e)
      PROVE  /\ <<e, c.cameras[k].location, "located_in">> \in WantedEntities(c)
             /\ \A z \in c.cameras[k].observes : <<e, z, "observes">> \in WantedEntities(c)
  BY WantedOfCamera DEF OwnersOf
<1>2. ASSUME NEW r \in WantedEntities(c), r[1] = e
      PROVE  \E k \in OwnersOf(c, e) : \/ r[2] = c.cameras[k].location /\ r[3] = "located_in"
                                       \/ r[2] \in c.cameras[k].observes /\ r[3] = "observes"
  BY <1>2, EntityRowsOfCamera DEF OwnersOf
<1>3. ASSUME NEW z
      PROVE  z \in RowsOf(WantedEntities(c), e, "located_in")
               <=> z \in {c.cameras[k].location : k \in OwnersOf(c, e)}
  <2>1. ASSUME NEW k \in OwnersOf(c, e), z = c.cameras[k].location
        PROVE  \E q \in WantedEntities(c) : q[1] = e /\ q[3] = "located_in" /\ z = q[2]
    <3>1. <<e, z, "located_in">> \in WantedEntities(c) BY <1>1, <2>1
    <3> QED BY <3>1
  <2>2. ASSUME NEW q \in WantedEntities(c), q[1] = e, q[3] = "located_in", z = q[2]
        PROVE  \E k \in OwnersOf(c, e) : z = c.cameras[k].location
    BY <1>2, <2>2, "located_in" # "observes"
  <2> QED BY <2>1, <2>2 DEF RowsOf
<1>4. ASSUME NEW z
      PROVE  z \in RowsOf(WantedEntities(c), e, "observes")
               <=> z \in UNION {c.cameras[k].observes : k \in OwnersOf(c, e)}
  <2>1. ASSUME NEW k \in OwnersOf(c, e), z \in c.cameras[k].observes
        PROVE  \E q \in WantedEntities(c) : q[1] = e /\ q[3] = "observes" /\ z = q[2]
    <3>1. <<e, z, "observes">> \in WantedEntities(c) BY <1>1, <2>1
    <3> QED BY <3>1
  <2>2. ASSUME NEW q \in WantedEntities(c), q[1] = e, q[3] = "observes", z = q[2]
        PROVE  \E k \in OwnersOf(c, e) : z \in c.cameras[k].observes
    BY <1>2, <2>2, "located_in" # "observes"
  <2> QED BY <2>1, <2>2 DEF RowsOf
<1> QED BY <1>3, <1>4

\* The owners of an entity tell its place; an entity nobody has is placed at the
\* camera it was posted for.
LEMMA PlaceOfOwner ==
  ASSUME Up, entityRows = WantedEntities(serving), NEW cam, NEW e, NEW cams, NEW owners,
         cams = {serving.cameras[k] : k \in CameraKeys(serving)},
         owners = {c \in cams : e \in EntitiesOf(c)}
  PROVE  PlaceOf(e, cam) = {o.location : o \in IF owners = {} THEN {cam} ELSE owners}
<1>1. PICK keys : keys = {k \in CameraKeys(serving) : e \in EntitiesOf(serving.cameras[k])}
  OBVIOUS
<1>2. ZonesOf(e) = {serving.cameras[k].location : k \in keys}
  <2>1. keys = OwnersOf(serving, e) BY <1>1 DEF OwnersOf
  <2>2. ZonesOf(e) = RowsOf(WantedEntities(serving), e, "located_in") BY DEF ZonesOf, RowsOf
  <2> QED BY <2>1, <2>2, RowsOfEntity
<1>3. owners = {serving.cameras[k] : k \in keys}
  BY <1>1
<1>4. ZonesOf(e) = {o.location : o \in owners}
  BY <1>2, <1>3
<1>5. CASE owners = {}
  BY <1>4, <1>5 DEF PlaceOf
<1>6. CASE owners # {}
  BY <1>4, <1>6 DEF PlaceOf
<1> QED BY <1>5, <1>6

\* That place is a zone of the files.
LEMMA PlaceDeclared ==
  ASSUME Up, entityRows = WantedEntities(serving), Valid(serving),
         NEW k \in CameraKeys(serving), NEW e, NEW z \in PlaceOf(e, serving.cameras[k])
  PROVE  z \in serving.zones
<1>1. PICK cams : cams = {serving.cameras[q] : q \in CameraKeys(serving)}
  OBVIOUS
<1>2. PICK owners : owners = {c \in cams : e \in EntitiesOf(c)}
  OBVIOUS
<1>3. \E c \in cams : z = c.location
  <2>1. PlaceOf(e, serving.cameras[k])
          = {o.location : o \in IF owners = {} THEN {serving.cameras[k]} ELSE owners}
    BY <1>1, <1>2, PlaceOfOwner
  <2>2. PICK o : z = o.location /\ o \in IF owners = {} THEN {serving.cameras[k]} ELSE owners
    BY <2>1
  <2> QED BY <1>1, <1>2, <2>2
<1> QED BY <1>1, <1>3 DEF Valid, Covered

\* The order of the files after a startup.
LEMMA BootOrder ==
  ASSUME Boot, config \in Configs
  PROVE  /\ Seeded' = Seeded \cup {config}
         /\ \A d \in Seeded' : <<config, d>> \in newer'
         /\ \A c, d : c # config /\ d # config => (<<c, d>> \in newer' <=> <<c, d>> \in newer)
<1>1. newer' = {p \in newer : config \notin {p[1], p[2]}} \cup ({config} \X (Seeded \cup {config}))
  BY DEF Boot
<1>2. ASSUME NEW c, NEW d
      PROVE  <<c, d>> \in newer' <=>
               \/ <<c, d>> \in newer /\ c # config /\ d # config
               \/ c = config /\ d \in Seeded \cup {config}
  <2>1. PICK p : p = <<c, d>>
    OBVIOUS
  <2>2. p \in newer' <=>
          \/ p \in newer /\ config \notin {p[1], p[2]}
          \/ p \in {config} \X (Seeded \cup {config})
    BY <1>1
  <2>3. p \in {config} \X (Seeded \cup {config}) <=> c = config /\ d \in Seeded \cup {config}
    BY <2>1
  <2>4. config \notin {p[1], p[2]} <=> c # config /\ d # config
    BY <2>1
  <2> QED BY <2>1, <2>2, <2>3, <2>4
<1>3. Seeded' = Seeded \cup {config}
  BY <1>2 DEF Seeded
<1>4. \A d \in Seeded' : <<config, d>> \in newer'
  BY <1>2, <1>3
<1>5. \A c, d : c # config /\ d # config => (<<c, d>> \in newer' <=> <<c, d>> \in newer)
  BY <1>2
<1> QED BY <1>3, <1>4, <1>5

\* A startup adds the zones of its files and gives the parents they give.
LEMMA BootAccumulates ==
  ASSUME MapInv, Boot
  PROVE  ZonesAccumulate'
<1> USE MapAssumption
<1>1. Seeded' = Seeded \cup {config} BY BootOrder DEF MapInv
<1>2. zoneRows' = SeedZones(config) /\ config \in Configs BY DEF Boot, MapInv
<1>3. DOMAIN zoneRows' = DOMAIN zoneRows \cup config.zones BY <1>2 DEF SeedZones
<1>4. DOMAIN zoneRows' = UNION {c.zones : c \in Seeded'}
  BY <1>1, <1>3 DEF MapInv, ZonesAccumulate
<1> DEFINE Givers(z, S) == {c \in S : z \in DOMAIN c.parent}
           Gives(c, z) == IF c.parent[z] \in c.zones THEN c.parent[z] ELSE None
<1>5. ASSUME NEW z \in DOMAIN zoneRows'
      PROVE  IF Givers(z, Seeded') = {} THEN zoneRows'[z] = None
             ELSE \E c \in Givers(z, Seeded') :
                    (\A d \in Givers(z, Seeded') : <<c, d>> \in newer') /\ zoneRows'[z] = Gives(c, z)
  <2>1. CASE z \in DOMAIN config.parent
    <3>1. z \in config.zones BY <1>2, <2>1
    <3>2. zoneRows'[z] = Gives(config, z) BY <1>2, <2>1, <3>1 DEF SeedZones
    <3>3. config \in Givers(z, Seeded') BY <1>1, <2>1
    <3>4. \A d \in Givers(z, Seeded') : <<config, d>> \in newer' BY <1>2, BootOrder
    <3> QED BY <3>2, <3>3, <3>4
  <2>2. CASE z \notin DOMAIN config.parent
    <3>1. Givers(z, Seeded') = Givers(z, Seeded) /\ config \notin Givers(z, Seeded)
      BY <1>1, <2>2
    <3>2. zoneRows'[z] = IF z \in DOMAIN zoneRows THEN zoneRows[z] ELSE None
      BY <1>2, <1>3, <2>2 DEF SeedZones
    <3>3. CASE Givers(z, Seeded) = {}
      <4>1. z \in DOMAIN zoneRows => zoneRows[z] = None
        BY <3>3 DEF MapInv, ZonesAccumulate
      <4> QED BY <3>1, <3>2, <3>3, <4>1
    <3>4. CASE Givers(z, Seeded) # {}
      <4>1. z \in DOMAIN zoneRows
        <5>1. PICK c \in Seeded : z \in DOMAIN c.parent BY <3>4
        <5>2. c \in Configs BY DEF MapInv, Seeded
        <5>3. z \in c.zones BY <5>1, <5>2
        <5> QED BY <5>3 DEF MapInv, ZonesAccumulate
      <4>2. PICK c \in Givers(z, Seeded) :
              (\A d \in Givers(z, Seeded) : <<c, d>> \in newer) /\ zoneRows[z] = Gives(c, z)
        BY <3>4, <4>1 DEF MapInv, ZonesAccumulate
      <4>3. \A d \in Givers(z, Seeded') : <<c, d>> \in newer'
        BY <1>2, <3>1, <4>2, BootOrder
      <4>4. zoneRows'[z] = Gives(c, z)
        BY <3>2, <4>1, <4>2
      <4> QED BY <3>1, <3>4, <4>3, <4>4
    <3> QED BY <3>3, <3>4
  <2> QED BY <2>1, <2>2
<1> QED BY <1>4, <1>5 DEF ZonesAccumulate

LEMMA MapInitInv == MapInit => MapInv
  BY DEF MapInit, MapInv, Up, ZonesAccumulate, Seeded

\* What only depends on the rows and the order stays while they do.
LEMMA RowsStay ==
  ASSUME MapInv, UNCHANGED <<serving, zoneRows, edgeRows, entityRows, newer>>,
         config' \in Configs, \A e \in events' : e.zone \in DOMAIN zoneRows
  PROVE  MapInv'
<1>1. ZonesAccumulate' BY DEF MapInv, ZonesAccumulate, Seeded
<1>2. Up' => /\ Valid(serving)' /\ (serving \in Seeded)'
             /\ edgeRows' = WantedEdges(serving)' /\ entityRows' = WantedEntities(serving)'
  BY DEF MapInv, Up, Seeded, Valid, CameraKeys, WantedEdges, WantedEntities
<1> QED BY <1>1, <1>2 DEF MapInv

LEMMA MapStepInv == MapInv /\ [MapNext]_mapVars => MapInv'
<1> SUFFICES ASSUME MapInv, [MapNext]_mapVars PROVE MapInv'
  OBVIOUS
<1> USE MapAssumption
<1>1. CASE Edit
  BY <1>1, RowsStay DEF Edit, MapInv
<1>2. CASE Boot
  <2>1. serving' = config /\ config' = config /\ events' = events /\ Valid(config) /\ config \in Configs
    BY <1>2 DEF Boot, MapInv
  <2>2. edgeRows' = WantedEdges(config) /\ entityRows' = WantedEntities(config)
    BY <1>2, SeedRowsExact DEF Boot
  <2>3. DOMAIN zoneRows' = DOMAIN zoneRows \cup config.zones
    BY <1>2 DEF Boot, SeedZones
  <2>4. ZonesAccumulate' /\ serving' \in Seeded'
    BY <1>2, <2>1, BootAccumulates, BootOrder
  <2>5. newer' \subseteq Configs \X Configs
    <3>1. Seeded \subseteq Configs BY DEF MapInv, Seeded
    <3> QED BY <1>2, <2>1, <3>1 DEF Boot, MapInv
  <2>6. \A e \in events' : e.zone \in DOMAIN zoneRows'
    BY <2>1, <2>3 DEF MapInv
  <2> QED BY <2>1, <2>2, <2>4, <2>5, <2>6 DEF MapInv, Valid, CameraKeys, WantedEdges, WantedEntities
<1>3. CASE Down
  <2>1. ZonesAccumulate'
    BY <1>3 DEF Down, MapInv, ZonesAccumulate, Seeded
  <2> QED BY <1>3, <2>1 DEF Down, MapInv, Up
<1>4. CASE Ingest
  <2>1. \A e \in events' \ events : e.zone \in serving.zones
    BY <1>4, PlaceDeclared DEF Ingest, MapInv
  <2>2. serving.zones \subseteq DOMAIN zoneRows
    BY <1>4 DEF Ingest, MapInv, ZonesAccumulate
  <2> QED BY <1>4, <2>1, <2>2, RowsStay DEF Ingest, MapInv
<1>5. CASE Tick
  BY <1>5, RowsStay DEF Tick, MapInv
<1>6. CASE UNCHANGED mapVars
  BY <1>6, RowsStay DEF mapVars, MapInv
<1> QED BY <1>1, <1>2, <1>3, <1>4, <1>5, <1>6 DEF MapNext

\* The edges of the files, read by one end, are the declared connections.
LEMMA AdjacentIsDeclared ==
  ASSUME edgeRows = WantedEdges(serving), NEW y, NEW z
  PROVE  z \in Adjacent(y) <=>
           \E r \in serving.relations : \/ r.from = y /\ r.to = z
                                        \/ r.bidirectional /\ r.from = z /\ r.to = y
<1>1. z \in Adjacent(y) <=> \E q \in edgeRows : q[1] = y /\ q[2] = z
  BY DEF Adjacent
<1>2. ASSUME NEW q \in WantedEdges(serving), q[1] = y, q[2] = z
      PROVE  \E r \in serving.relations : \/ r.from = y /\ r.to = z
                                          \/ r.bidirectional /\ r.from = z /\ r.to = y
  BY <1>2 DEF WantedEdges
<1>3. ASSUME NEW r \in serving.relations, r.from = y, r.to = z
      PROVE  \E q \in WantedEdges(serving) : q[1] = y /\ q[2] = z
  <2>1. <<y, z, r.relation>> \in WantedEdges(serving) BY <1>3 DEF WantedEdges
  <2> QED BY <2>1
<1>4. ASSUME NEW r \in serving.relations, r.bidirectional, r.from = z, r.to = y
      PROVE  \E q \in WantedEdges(serving) : q[1] = y /\ q[2] = z
  <2>1. <<y, z, r.relation>> \in WantedEdges(serving) BY <1>4 DEF WantedEdges
  <2> QED BY <2>1
<1> QED BY <1>1, <1>2, <1>3, <1>4

LEMMA MapInvConverges == MapInv => SeedConverges
<1> SUFFICES ASSUME MapInv PROVE SeedConverges
  OBVIOUS
<1>1. HistoryStaysReachable /\ ZonesAccumulate BY DEF MapInv, HistoryStaysReachable
<1>2. ASSUME Up PROVE EdgesConverge
  BY <1>2, AdjacentIsDeclared DEF MapInv, EdgesConverge
<1>3. ASSUME Up PROVE EntitiesConverge
  <2>1. entityRows = WantedEntities(serving) BY <1>3 DEF MapInv
  <2>2. \A e : /\ RowsOf(entityRows, e, "located_in")
                    = {serving.cameras[k].location : k \in OwnersOf(serving, e)}
               /\ RowsOf(entityRows, e, "observes")
                    = UNION {serving.cameras[k].observes : k \in OwnersOf(serving, e)}
    BY <2>1, RowsOfEntity
  <2> QED BY <2>2 DEF EntitiesConverge, RowsOf, OwnersOf
<1>4. ASSUME Up PROVE PlacesConverge
  <2>1. entityRows = WantedEntities(serving) BY <1>4 DEF MapInv
  <2> QED BY <1>4, <2>1, PlaceOfOwner DEF PlacesConverge
<1> QED BY <1>1, <1>2, <1>3, <1>4 DEF SeedConverges

\* For any files and any history of edits, startups and events, connections,
\* entities and places are those of the files in force, zones are those of every
\* files seeded so far, and no event is in a zone the map does not list.
THEOREM MapStaysConverged == MapSpec => []SeedConverges
<1>1. MapInit => MapInv BY MapInitInv
<1>2. MapInv /\ [MapNext]_mapVars => MapInv' BY MapStepInv
<1>3. MapInv => SeedConverges BY MapInvConverges
<1> QED BY <1>1, <1>2, <1>3, PTL DEF MapSpec

\* For any files the service accepts, what it says of a zone's coverage is what
\* its cameras declare.
THEOREM FieldOfViewStaysExact == MapSpec => []FieldOfViewIsExact
<1>1. FieldOfViewIsExact
  <2> SUFFICES ASSUME Up, NEW z \in DOMAIN zoneRows
               PROVE  LET seers == CamerasObserving(serving, z)
                      IN /\ CoverageOf(serving, z) = "partial" <=>
                              seers # {} /\ \A k \in seers : z \in serving.cameras[k].partial
                         /\ z \in Unobserved <=> seers = {}
                         /\ CoverageOf(serving, z) = "none" <=> seers = {}
    BY DEF FieldOfViewIsExact
  <2> DEFINE seers == CamerasObserving(serving, z)
  <2>1. \A k \in CameraKeys(serving) : k \in seers <=> z \in Covered(serving.cameras[k])
    BY DEF CamerasObserving, Covered
  <2>2. seers \subseteq CameraKeys(serving)
    BY DEF CamerasObserving
  <2>3. z \in CoveredBy(serving) <=> seers # {}
    BY <2>1, <2>2 DEF CoveredBy
  <2>4. z \in Partially(serving) <=>
          /\ \E k \in CameraKeys(serving) : z \in serving.cameras[k].partial
          /\ \A k \in CameraKeys(serving) :
               z \in Covered(serving.cameras[k]) => z \in serving.cameras[k].partial
    BY DEF Partially
  <2>5. CoverageOf(serving, z) = "partial" <=> z \in CoveredBy(serving) /\ z \in Partially(serving)
    BY DEF CoverageOf
  <2>6. CoverageOf(serving, z) = "none" <=> z \notin CoveredBy(serving)
    BY DEF CoverageOf
  <2>7. z \in Unobserved <=> z \notin CoveredBy(serving)
    BY DEF Unobserved
  <2> HIDE DEF seers
  <2>8. CoverageOf(serving, z) = "partial" <=>
          seers # {} /\ \A k \in seers : z \in serving.cameras[k].partial
    BY <2>1, <2>2, <2>3, <2>4, <2>5
  <2> QED BY <2>3, <2>6, <2>7, <2>8 DEF seers
<1> QED BY <1>1, PTL

-----------------------------------------------------------------------------
(* The map while the agent asks. *)

\* The agent's questions leave the map alone.
LEMMA SearchKeepsMap == Spec => MapSpec
<1>1. Init => MapInit BY DEF Init
<1>2. [Next]_vars => [MapNext]_mapVars
  BY DEF Next, MapNext, MapStep, GoDown, HintRefused, AskRecent, FollowHint, AskSearch,
         NextPage, vars
<1> QED BY <1>1, <1>2, PTL DEF Spec, MapSpec

\* With the agent asking meanwhile, the seeding converges as for the map alone: to
\* the files in force but for zones and parents, which accumulate (seed_home).
THEOREM MapConvergesUnderSearch == Spec => []SeedConverges
  BY SearchKeepsMap, MapStaysConverged, PTL

\* With the agent asking meanwhile, coverage is what the cameras declare.
THEOREM FieldOfViewExactUnderSearch == Spec => []FieldOfViewIsExact
  BY SearchKeepsMap, FieldOfViewStaysExact, PTL

-----------------------------------------------------------------------------
(* The hint.  The event it points at is there, and the service has not been   *)
(* restarted since.                                                          *)

PointsAt(h, e) ==
  /\ e \in OfAnyEntity(h.filter)
  /\ e.at = h.latest
  /\ h.latest \in 0..h.at
  /\ h.minutes = (h.at - h.latest) \div PerMinute + Slack

HintInv ==
  /\ now \in Nat
  /\ hint # NoHint => /\ Up /\ Known(hint.filter)
                      /\ hint.at \in 0..now
                      /\ \E e \in events : PointsAt(hint, e)

LEMMA AnyEntityStored == ASSUME NEW f PROVE OfAnyEntity(f) \subseteq events
  BY DEF OfAnyEntity, InZone

LEMMA HintInvInit == Init => HintInv
  BY DEF Init, MapInit, HintInv

\* What home_recent_events says of an empty window points at an event.
LEMMA RecentHint ==
  ASSUME now \in Nat, Up, NEW f, NEW m, Recent(f, m), UNCHANGED mapVars
  PROVE  HintInv'
<1>1. PICK t \in 0..now \cup {None} : IsLatest(f, t) /\ hint' \in {Hint(f, t), NoHint}
  BY DEF Recent
<1>2. CASE hint' = NoHint \/ t = None
  BY <1>1, <1>2 DEF HintInv, Hint, NoHint, mapVars
<1>3. CASE hint' # NoHint /\ t # None
  <2>1. hint' = [filter |-> f, at |-> now, latest |-> t,
                 minutes |-> (now - t) \div PerMinute + Slack]
    BY <1>1, <1>3 DEF Hint
  <2>2. PICK e \in OfAnyEntity(f) : e.at = t
    BY <1>1, <1>3 DEF IsLatest
  <2>3. Known(f) /\ e \in events
    BY <2>2, AnyEntityStored DEF OfAnyEntity
  <2>4. t \in 0..now
    BY <1>1, <1>3
  <2>5. /\ hint'.filter = f /\ hint'.at = now /\ hint'.latest = t
        /\ hint'.minutes = (now - t) \div PerMinute + Slack
    BY <2>1
  <2>6. e \in OfAnyEntity(f)' /\ Known(f)' /\ Up' /\ events' = events /\ now' = now
    BY <2>2, <2>3 DEF mapVars, OfAnyEntity, Known, InZone, Up, CameraKeys, EntitiesOf
  <2>7. PointsAt(hint, e)'
    BY <2>2, <2>4, <2>5, <2>6 DEF PointsAt
  <2> QED BY <2>3, <2>5, <2>6, <2>7 DEF HintInv
<1> QED BY <1>2, <1>3

\* A hint keeps pointing at its event while the service runs, as events are
\* only added.
LEMMA HintStays ==
  ASSUME HintInv, hint' = hint, serving' = serving, events \subseteq events',
         now' \in Nat, now <= now'
  PROVE  HintInv'
<1>1. CASE hint = NoHint BY <1>1 DEF HintInv, NoHint
<1>2. CASE hint # NoHint
  <2>1. PICK e \in events : PointsAt(hint, e) BY <1>2 DEF HintInv
  <2>2. e \in OfAnyEntity(hint.filter)'
    BY <2>1 DEF PointsAt, OfAnyEntity, Known, InZone, CameraKeys, EntitiesOf
  <2>3. PointsAt(hint, e)' BY <2>1, <2>2 DEF PointsAt
  <2>4. Up' /\ Known(hint.filter)' /\ hint'.at \in 0..now'
    BY <1>2 DEF HintInv, Up, Known, CameraKeys
  <2> QED BY <2>3, <2>4 DEF HintInv
<1> QED BY <1>1, <1>2

LEMMA HintInvStep == HintInv /\ [Next]_vars => HintInv'
<1> SUFFICES ASSUME HintInv, [Next]_vars PROVE HintInv'
  OBVIOUS
<1>1. CASE MapStep
  <2>1. CASE Edit \/ Boot
    BY <1>1, <2>1 DEF MapStep, Edit, Boot, HintInv, searchVars, NoHint
  <2>2. CASE Ingest
    BY <1>1, <2>2, HintStays DEF MapStep, Ingest, HintInv, searchVars
  <2>3. CASE Tick
    BY <1>1, <2>3, HintStays DEF MapStep, Tick, HintInv, searchVars
  <2> QED BY <1>1, <2>1, <2>2, <2>3 DEF MapStep
<1>2. CASE GoDown BY <1>2 DEF GoDown, Down, HintInv, NoHint
<1>3. CASE HintRefused BY <1>3 DEF HintRefused, HintInv, NoHint, mapVars
<1>4. CASE AskRecent BY <1>4, RecentHint DEF AskRecent, HintInv
<1>5. CASE FollowHint BY <1>5, RecentHint DEF FollowHint, HintInv
<1>6. CASE AskSearch BY <1>6 DEF AskSearch, HintInv, NoHint, mapVars
<1>7. CASE NextPage BY <1>7, HintStays DEF NextPage, HintInv, mapVars
<1>8. CASE UNCHANGED vars BY <1>8, HintStays DEF vars, mapVars, searchVars, HintInv
<1> QED BY <1>1, <1>2, <1>3, <1>4, <1>5, <1>6, <1>7, <1>8 DEF Next

\* An age rounded down to whole minutes is short of it by less than a minute.
LEMMA WholeMinutes ==
  ASSUME NEW a \in Nat, NEW p \in Nat \ {0}
  PROVE  /\ a \div p \in Nat
         /\ (a \div p) * p <= a
         /\ a - (p - 1) <= (a \div p) * p
  OBVIOUS

LEMMA MinutesAdd ==
  ASSUME NEW i \in Nat, NEW j \in Nat, NEW p \in Nat PROVE (i + j) * p = i * p + j * p
  OBVIOUS

LEMMA FewerMinutes ==
  ASSUME NEW i \in Nat, NEW j \in Nat, NEW p \in Nat \ {0}, i * p <= j * p PROVE i <= j
<1> SUFFICES ASSUME j < i PROVE FALSE
  OBVIOUS
<1>1. PICK d \in Nat : i = j + 1 + d
  <2>1. i - j - 1 \in Nat /\ i = j + 1 + (i - j - 1)
    OBVIOUS
  <2> QED BY <2>1
<1>2. i * p = j * p + p + d * p
  BY <1>1
<1>3. d * p \in Nat /\ j * p \in Nat
  OBVIOUS
<1> QED BY <1>2, <1>3

LEMMA HintInvReaches == HintInv => HintReaches
<1> SUFFICES ASSUME HintInv, hint # NoHint,
                    now - hint.at <= Slack * PerMinute - (PerMinute - 1),
                    hint.at - hint.latest <= (MaxMinutes - Slack) * PerMinute,
                    NEW latest, latest = {e \in OfAnyEntity(hint.filter) : e.at = hint.latest},
                    NEW listed,
                    listed = {e \in latest :
                                hint.filter.camera # None =>
                                  e.entity = FirstEntity(serving.cameras[hint.filter.camera])}
             PROVE  /\ hint.minutes \in 1..MaxMinutes
                    /\ latest # {}
                    /\ listed \subseteq Matching(hint.filter, now - hint.minutes * PerMinute, now)
  BY DEF HintReaches
<1> USE SearchAssumption
<1>1. PICK e \in events : PointsAt(hint, e) BY DEF HintInv
<1> DEFINE a == hint.at - hint.latest
           q == a \div PerMinute
<1>2. a \in Nat /\ hint.at \in 0..now /\ now \in Nat /\ hint.latest \in 0..hint.at
  BY <1>1 DEF HintInv, PointsAt
<1>3. q \in Nat /\ q * PerMinute <= a /\ a - (PerMinute - 1) <= q * PerMinute
  BY <1>2, WholeMinutes
<1>4. hint.minutes = q + Slack BY <1>1 DEF PointsAt
<1>5. hint.minutes * PerMinute = q * PerMinute + Slack * PerMinute
  BY <1>3, <1>4, MinutesAdd
<1>6. now - hint.minutes * PerMinute <= hint.latest /\ hint.latest <= now
  <2>1. hint.minutes * PerMinute \in Int /\ q * PerMinute \in Int /\ Slack * PerMinute \in Int
    BY <1>3, <1>4
  <2> DEFINE x == hint.minutes * PerMinute
             y == q * PerMinute
             z == Slack * PerMinute
  <2>2. x = y + z /\ a - (PerMinute - 1) <= y /\ now - hint.at <= z - (PerMinute - 1)
    BY <1>3, <1>5
  <2>3. x \in Int /\ y \in Int /\ z \in Int BY <2>1
  <2> HIDE DEF x, y, z
  <2>4. now - x <= hint.latest BY <1>2, <2>2, <2>3
  <2> QED BY <1>2, <2>4 DEF x
<1>7. listed \subseteq Matching(hint.filter, now - hint.minutes * PerMinute, now)
  BY <1>6 DEF OfAnyEntity, Matching, HintInv
<1>8. latest # {}
  BY <1>1 DEF PointsAt
<1>9. q <= MaxMinutes - Slack
  <2>1. PICK k \in Nat : k = MaxMinutes - Slack
    OBVIOUS
  <2>2. q * PerMinute <= k * PerMinute
    <3>1. a <= k * PerMinute BY <2>1
    <3>2. k * PerMinute \in Int /\ q * PerMinute \in Int BY <1>3, <2>1
    <3> QED BY <1>2, <1>3, <3>1, <3>2
  <2> QED BY <1>3, <2>1, <2>2, FewerMinutes
<1> QED BY <1>3, <1>4, <1>7, <1>8, <1>9

\* However events, edits and restarts mix with the agent's questions, the hint
\* of an empty window is one the tool accepts and reaches the event it names,
\* as far as the longest window and the first entity of the camera allow.
THEOREM HintStaysReaching == Spec => []HintReaches
<1>1. Init => HintInv BY HintInvInit
<1>2. HintInv /\ [Next]_vars => HintInv' BY HintInvStep
<1> QED BY <1>1, <1>2, HintInvReaches, PTL DEF Spec
-----------------------------------------------------------------------------
(* The pages.  What the agent still owes is older than what it was shown, and *)
(* a page that was cut holds more events than one instant can.               *)

AtInstant(t) == {e \in events : e.at = t}

TiesInv ==
  /\ IsFiniteSet(events)
  /\ \A e \in events : e.at \in Nat
  /\ now \in Nat
  /\ \A t \in Nat : Cardinality(AtInstant(t)) <= MaxTies

ReaderInv ==
  /\ reader # Idle => Up /\ reader.asked \in {"more", "all"}
  /\ reader.asked = "all" => reader.missed = {}
  /\ reader.asked = "more" => reader.missed \subseteq Matching(reader.filter, reader.start, reader.end)

PagesInv == TiesInv /\ ReaderInv

\* The oldest event of a page.
LEMMA OldestIsLeast ==
  ASSUME NEW K, K # {}, \A e \in K : e.at \in Nat
  PROVE  /\ \E e \in K : e.at = Oldest(K)
         /\ \A e \in K : e.at >= Oldest(K)
<1>1. PICK T : T = {e.at : e \in K}
  OBVIOUS
<1>2. T \in SUBSET Nat /\ T # {}
  BY <1>1
<1>3. PICK R : R = OpToRel(<, Nat)
  OBVIOUS
<1>4. \A x, y \in Nat : <<x, y>> \in R <=> x < y
  BY <1>3 DEF OpToRel
<1>5. IsWellFoundedOn(R, Nat)
  BY <1>3, NatLessThanWellFounded
<1>6. PICK x \in T : \A y \in T : ~ (<<y, x>> \in R)
  BY <1>2, <1>5, WFMin
<1>7. \A e \in K : e.at >= x
  <2> SUFFICES ASSUME NEW e \in K PROVE e.at >= x
    OBVIOUS
  <2>1. e.at \in T /\ e.at \in Nat /\ x \in Nat
    BY <1>1, <1>2, <1>6
  <2>2. ~ (<<e.at, x>> \in R)
    BY <1>6, <2>1
  <2>3. ~(e.at < x)
    BY <1>4, <2>1, <2>2
  <2> QED BY <2>1, <2>3
<1>8. Oldest(K) \in T /\ \A e \in K : e.at >= Oldest(K)
  BY <1>1, <1>6, <1>7 DEF Oldest
<1> QED BY <1>1, <1>8

LEMMA MatchingStored ==
  ASSUME NEW f, NEW start, NEW end
  PROVE  Matching(f, start, end) \subseteq events
  BY DEF Matching, InZone

\* What a result holds of the events that match.
LEMMA PageOfResult ==
  ASSUME IsFiniteSet(events), NEW f, NEW start, NEW end, NEW r \in Results(f, start, end),
         NEW S, S = Matching(f, start, end)
  PROVE  /\ r.events \subseteq S
         /\ IsFiniteSet(S) /\ Cardinality(S) \in Nat
         /\ Cardinality(r.events) \in Nat
         /\ \A e \in r.events, d \in S \ r.events : e.at >= d.at
         /\ Cardinality(r.events) >= Least(Room, Least(Cardinality(S), Limit))
         /\ Cardinality(r.events) <= Least(Cardinality(S), Limit)
         /\ r.truncated <=> Cardinality(r.events) < Least(Cardinality(S), Limit)
         /\ Cardinality(r.events) = Cardinality(S) => r.events = S
<1> USE SearchAssumption
<1>1. IsFiniteSet(S) /\ Cardinality(S) \in Nat
  BY MatchingStored, FS_Subset, FS_CardinalityType
<1>2. PICK found : found = Least(Cardinality(S), Limit)
  OBVIOUS
<1>3. found \in Nat /\ Least(Room, found) \in Nat
  BY <1>1, <1>2 DEF Least
<1>4. PICK k \in Least(Room, found)..found :
        \E K \in NewestOf(S, k) : r = [events |-> K, truncated |-> k < found]
  BY <1>2 DEF Results
<1>5. PICK K \in NewestOf(S, k) : r = [events |-> K, truncated |-> k < found]
  BY <1>4
<1>6. /\ K \subseteq S /\ Cardinality(K) = k
      /\ \A e \in K, d \in S \ K : e.at >= d.at
  BY <1>5 DEF NewestOf
<1>7. r.events = K /\ (r.truncated <=> k < found)
  BY <1>5
<1>8. Cardinality(K) = Cardinality(S) => K = S
  BY <1>1, <1>6, FS_Subset
<1>9. k \in Nat /\ k >= Least(Room, found) /\ k <= found
  BY <1>3, <1>4
<1> QED BY <1>1, <1>2, <1>6, <1>7, <1>8, <1>9

\* Following a result keeps track of what was not shown.
LEMMA FollowKeepsTrack ==
  ASSUME TiesInv, NEW f, NEW start, NEW end, NEW r \in Results(f, start, end),
         NEW owed, owed \subseteq Matching(f, start, end),
         NEW next, next = Follow(f, start, r, owed)
  PROVE  \/ next.asked = "all" /\ next.missed = {}
         \/ /\ next.asked = "more"
            /\ next.missed \subseteq Matching(next.filter, next.start, next.end)
<1> USE SearchAssumption
<1>1. PICK S : S = Matching(f, start, end)
  OBVIOUS
<1>2. PICK K : K = r.events
  OBVIOUS
<1>3. /\ K \subseteq S /\ S \subseteq events
      /\ Cardinality(S) \in Nat /\ Cardinality(K) \in Nat
      /\ \A e \in K, d \in S \ K : e.at >= d.at
      /\ Cardinality(K) >= Least(Room, Least(Cardinality(S), Limit))
      /\ Cardinality(K) <= Least(Cardinality(S), Limit)
      /\ r.truncated <=> Cardinality(K) < Least(Cardinality(S), Limit)
      /\ Cardinality(K) = Cardinality(S) => K = S
  BY <1>1, <1>2, PageOfResult, MatchingStored DEF TiesInv
<1>4. CASE K # {} /\ (r.truncated \/ Cardinality(K) = Limit)
  <2>1. next = [asked |-> "more", filter |-> f, start |-> start, end |-> Oldest(K),
                missed |-> owed \ K]
    BY <1>2, <1>4 DEF Follow, CutByText, CutByLimit
  <2>2. PICK o \in K : o.at = Oldest(K)
    BY <1>3, <1>4, OldestIsLeast DEF TiesInv
  <2>3. ASSUME NEW d \in owed \ K PROVE d \in Matching(f, start, o.at)
    <3>1. d \in S /\ d.at <= o.at /\ d \in Matching(f, start, end)
      <4>1. d \in S \ K
        BY <1>1
      <4>2. d.at \in Nat /\ o.at \in Nat /\ o.at >= d.at
        BY <1>3, <2>2, <4>1 DEF TiesInv
      <4> QED BY <1>1, <4>1, <4>2
    <3> QED BY <3>1 DEF Matching
  <2> QED BY <2>1, <2>2, <2>3
<1>5. CASE ~(K # {} /\ (r.truncated \/ Cardinality(K) = Limit))
  <2>1. next = [asked |-> "all", missed |-> owed \ K]
    BY <1>2, <1>5 DEF Follow, CutByText, CutByLimit
  <2>2. Cardinality(K) = Cardinality(S)
    <3>1. CASE K = {}
      <4>1. Cardinality(K) = 0
        BY <3>1, FS_EmptySet
      <4> QED BY <1>3, <4>1 DEF Least
    <3>2. CASE ~r.truncated /\ Cardinality(K) # Limit
      <4> QED BY <1>3, <3>2 DEF Least
    <3> QED BY <1>5, <3>1, <3>2
  <2>3. owed \subseteq K
    BY <1>1, <1>3, <2>2
  <2> QED BY <2>1, <2>3
<1> QED BY <1>4, <1>5

\* A page that is cut is not all of one instant, so the next one is another.
LEMMA FollowMovesOn ==
  ASSUME TiesInv, NEW f, NEW start, NEW end, NEW r \in Results(f, start, end), NEW owed,
         NEW next, next = Follow(f, start, r, owed), next.asked = "more"
  PROVE  next.end # end
<1> SUFFICES ASSUME next.end = end PROVE FALSE
  OBVIOUS
<1> USE SearchAssumption, MapAssumption
<1>1. PICK S : S = Matching(f, start, end)
  OBVIOUS
<1>2. PICK K : K = r.events
  OBVIOUS
<1>3. /\ K \subseteq S /\ S \subseteq events
      /\ Cardinality(S) \in Nat /\ Cardinality(K) \in Nat
      /\ Cardinality(K) >= Least(Room, Least(Cardinality(S), Limit))
      /\ r.truncated <=> Cardinality(K) < Least(Cardinality(S), Limit)
  BY <1>1, <1>2, PageOfResult, MatchingStored DEF TiesInv
<1>4. K # {} /\ (r.truncated \/ Cardinality(K) = Limit)
  BY <1>2 DEF Follow, CutByText, CutByLimit
<1>5. next.end = Oldest(K)
  BY <1>2, <1>4 DEF Follow
<1>6. PICK o \in K : o.at = Oldest(K) /\ \A e \in K : e.at >= Oldest(K)
  BY <1>3, <1>4, OldestIsLeast DEF TiesInv
<1>7. end \in Nat
  BY <1>3, <1>5, <1>6 DEF TiesInv
<1>8. \A e \in K : e.at = end
  <2> SUFFICES ASSUME NEW e \in K PROVE e.at = end
    OBVIOUS
  <2>1. e \in Matching(f, start, end) /\ e.at \in Nat
    BY <1>1, <1>3 DEF TiesInv
  <2>2. e.at <= end
    BY <2>1 DEF Matching
  <2>3. e.at >= end
    BY <1>5, <1>6
  <2> QED BY <1>7, <2>1, <2>2, <2>3
<1>9. Cardinality(K) <= MaxTies
  <2>1. K \subseteq AtInstant(end) /\ AtInstant(end) \subseteq events
    BY <1>3, <1>8 DEF AtInstant
  <2>2. IsFiniteSet(AtInstant(end))
    BY <2>1, FS_Subset DEF TiesInv
  <2>3. Cardinality(K) <= Cardinality(AtInstant(end)) /\ Cardinality(AtInstant(end)) \in Nat
    BY <2>1, <2>2, FS_Subset, FS_CardinalityType
  <2>4. Cardinality(AtInstant(end)) <= MaxTies
    BY <1>7 DEF TiesInv
  <2> QED BY <1>3, <2>3, <2>4
<1>10. Cardinality(K) >= Room \/ Cardinality(K) = Limit
  BY <1>3, <1>4 DEF Least
<1> QED BY <1>3, <1>9, <1>10

LEMMA PagesInvCovers == PagesInv => PagesCoverAll
<1> SUFFICES ASSUME PagesInv PROVE PagesCoverAll
  OBVIOUS
<1>1. ASSUME Up, reader.asked = "more", NEW r \in Results(reader.filter, reader.start, reader.end)
      PROVE  Follow(reader.filter, reader.start, r, reader.missed) # reader
  <2> SUFFICES ASSUME Follow(reader.filter, reader.start, r, reader.missed) = reader
               PROVE  FALSE
    OBVIOUS
  <2> QED BY <1>1, FollowMovesOn DEF PagesInv
<1> QED BY <1>1 DEF PagesInv, ReaderInv, PagesCoverAll

LEMMA PagesInvInit == Init => PagesInv
<1> SUFFICES ASSUME Init PROVE PagesInv
  OBVIOUS
<1>1. events = {} /\ now = 0 /\ reader = Idle
  BY DEF Init, MapInit
<1>2. \A t \in Nat : AtInstant(t) = {}
  BY <1>1 DEF AtInstant
<1>3. TiesInv
  <2>1. \A t \in Nat : Cardinality(AtInstant(t)) = 0
    BY <1>2, FS_EmptySet
  <2> QED BY <1>1, <2>1, FS_EmptySet, MapAssumption DEF TiesInv
<1> QED BY <1>1, <1>3 DEF PagesInv, ReaderInv, Idle

\* An instant that has room for an event gets no more than it has room for.
LEMMA IngestKeepsTies ==
  ASSUME TiesInv, Ingest
  PROVE  TiesInv'
<1> USE MapAssumption
<1>1. PICK at \in 0..now :
        /\ Cardinality(AtInstant(at)) < MaxTies
        /\ \E e : e.at = at /\ events' = events \cup {e} /\ now' = now
  BY DEF Ingest, AtInstant
<1>2. PICK e : e.at = at /\ events' = events \cup {e} /\ now' = now
  BY <1>1
<1>3. at \in Nat /\ now' \in Nat /\ \A d \in events' : d.at \in Nat
  BY <1>2 DEF TiesInv
<1>4. IsFiniteSet(events')
  BY <1>2, FS_AddElement DEF TiesInv
<1>5. ASSUME NEW t \in Nat PROVE Cardinality(AtInstant(t)') <= MaxTies
  <2>1. CASE t # at
    <3>1. AtInstant(t)' = AtInstant(t)
      BY <1>2, <2>1 DEF AtInstant
    <3> QED BY <3>1 DEF TiesInv
  <2>2. CASE t = at
    <3>1. AtInstant(t)' = AtInstant(t) \cup {e}
      BY <1>2, <2>2 DEF AtInstant
    <3>2. IsFiniteSet(AtInstant(t))
      BY FS_Subset DEF TiesInv, AtInstant
    <3>3. Cardinality(AtInstant(t)) \in Nat
      BY <3>2, FS_CardinalityType
    <3>4. Cardinality(AtInstant(t) \cup {e})
            = IF e \in AtInstant(t) THEN Cardinality(AtInstant(t)) ELSE Cardinality(AtInstant(t)) + 1
      BY <3>2, FS_AddElement, Zenon
    <3>5. Cardinality(AtInstant(t)') = Cardinality(AtInstant(t) \cup {e})
      BY <3>1
    <3> QED BY <1>1, <2>2, <3>3, <3>4, <3>5
  <2> QED BY <2>1, <2>2
<1> QED BY <1>3, <1>4, <1>5 DEF TiesInv

\* What an agent still owes keeps matching while events are only added.
LEMMA ReaderWaits ==
  ASSUME ReaderInv, reader' = reader, serving' = serving, events \subseteq events'
  PROVE  ReaderInv'
<1>1. ASSUME NEW f, NEW start, NEW end
      PROVE  Matching(f, start, end) \subseteq Matching(f, start, end)'
  BY DEF Matching, Known, InZone, CameraKeys, FirstEntity
<1> QED BY <1>1 DEF ReaderInv, Up

LEMMA FirstPage ==
  ASSUME PagesInv, Up, UNCHANGED mapVars, NEW f, NEW start, NEW end,
         NEW r \in Results(f, start, end), NEW owed, owed \subseteq Matching(f, start, end),
         reader' = Follow(f, start, r, owed)
  PROVE  PagesInv'
<1>1. TiesInv' /\ Up'
  BY DEF PagesInv, TiesInv, AtInstant, mapVars, Up
<1>2. PICK next : next = Follow(f, start, r, owed)
  OBVIOUS
<1>3. \/ next.asked = "all" /\ next.missed = {}
      \/ /\ next.asked = "more"
         /\ next.missed \subseteq Matching(next.filter, next.start, next.end)
  BY <1>2, FollowKeepsTrack DEF PagesInv
<1>4. ASSUME NEW g, NEW s, NEW t PROVE Matching(g, s, t)' = Matching(g, s, t)
  BY DEF Matching, Known, InZone, CameraKeys, FirstEntity, mapVars
<1> QED BY <1>1, <1>2, <1>3, <1>4 DEF PagesInv, ReaderInv

LEMMA PagesInvStep == PagesInv /\ [Next]_vars => PagesInv'
<1> SUFFICES ASSUME PagesInv, [Next]_vars PROVE PagesInv'
  OBVIOUS
<1>1. CASE MapStep
  <2>1. CASE Edit \/ Boot
    BY <1>1, <2>1 DEF MapStep, Edit, Boot, PagesInv, TiesInv, ReaderInv, AtInstant, searchVars, Idle
  <2>2. CASE Ingest
    BY <1>1, <2>2, IngestKeepsTies, ReaderWaits DEF MapStep, Ingest, PagesInv, searchVars
  <2>3. CASE Tick
    <3>1. TiesInv'
      BY <2>3 DEF Tick, PagesInv, TiesInv, AtInstant
    <3> QED BY <1>1, <2>3, <3>1, ReaderWaits DEF MapStep, Tick, PagesInv, searchVars
  <2> QED BY <1>1, <2>1, <2>2, <2>3 DEF MapStep
<1>2. CASE GoDown
  BY <1>2 DEF GoDown, Down, PagesInv, TiesInv, ReaderInv, AtInstant, Idle
<1>3. CASE HintRefused
  <2>1. TiesInv'
    BY <1>3 DEF HintRefused, PagesInv, TiesInv, AtInstant, mapVars
  <2> QED BY <1>3, <2>1, ReaderWaits DEF HintRefused, PagesInv, mapVars
<1>4. CASE AskRecent \/ FollowHint
  <2>1. PICK f, m : Recent(f, m) /\ Up /\ UNCHANGED mapVars
    BY <1>4 DEF AskRecent, FollowHint
  <2> QED BY <2>1, FirstPage DEF Recent
<1>5. CASE AskSearch
  <2>1. PICK f \in Filters, p \in Periods :
          \E r \in Results(f, p[1], p[2]) :
            reader' = Follow(f, p[1], r, Matching(f, p[1], p[2]))
    BY <1>5 DEF AskSearch
  <2> QED BY <1>5, <2>1, FirstPage DEF AskSearch
<1>6. CASE NextPage
  BY <1>6, FirstPage DEF NextPage, PagesInv, ReaderInv
<1>7. CASE UNCHANGED vars
  <2>1. TiesInv'
    BY <1>7 DEF PagesInv, TiesInv, AtInstant, vars, mapVars
  <2> QED BY <1>7, <2>1, ReaderWaits DEF PagesInv, vars, mapVars, searchVars
<1> QED BY <1>1, <1>2, <1>3, <1>4, <1>5, <1>6, <1>7 DEF Next

\* An agent that follows the end of a cut list until nothing is cut has seen
\* every event that matched when it asked, for any limit and text, any number of
\* events and whatever is stored meanwhile; and no page points at itself.
THEOREM PagesStayComplete == Spec => []PagesCoverAll
<1>1. Init => PagesInv BY PagesInvInit
<1>2. PagesInv /\ [Next]_vars => PagesInv' BY PagesInvStep
<1>3. PagesInv => PagesCoverAll BY PagesInvCovers
<1> QED BY <1>1, <1>2, <1>3, PTL DEF Spec
-----------------------------------------------------------------------------
(* Types. *)

TypeInv == TypeOK /\ MapInv /\ IsFiniteSet(events)

\* The rows a startup seeds name zones that have a row.
LEMMA BootKeepsTypes ==
  ASSUME TypeInv, Boot
  PROVE  TypeOK'
<1> USE MapAssumption
<1>1. /\ serving' = config /\ config' = config /\ events' = events /\ now' = now
      /\ Valid(config) /\ config \in Configs /\ config.zones \subseteq Zones
      /\ DOMAIN config.parent \subseteq config.zones
  BY DEF Boot, TypeInv, TypeOK
<1>2. /\ edgeRows' = WantedEdges(config) /\ entityRows' = WantedEntities(config)
      /\ zoneRows' = SeedZones(config)
  BY SeedRowsExact DEF Boot
<1>3. DOMAIN zoneRows' = DOMAIN zoneRows \cup config.zones
  BY <1>2 DEF SeedZones
<1>4. \A z \in DOMAIN zoneRows' : zoneRows'[z] \in DOMAIN zoneRows' \cup {None}
  <2> SUFFICES ASSUME NEW z \in DOMAIN zoneRows \cup config.zones
               PROVE  zoneRows'[z] \in DOMAIN zoneRows \cup config.zones \cup {None}
    BY <1>3
  <2>1. zoneRows'[z] = IF z \in config.zones /\ z \in DOMAIN config.parent
                         THEN IF config.parent[z] \in config.zones THEN config.parent[z] ELSE None
                         ELSE IF z \in DOMAIN zoneRows THEN zoneRows[z] ELSE None
    BY <1>2 DEF SeedZones
  <2>2. z \in DOMAIN zoneRows => zoneRows[z] \in DOMAIN zoneRows \cup {None}
    BY DEF TypeInv, TypeOK
  <2> QED BY <2>1, <2>2
<1>5. \A r \in edgeRows' : {r[1], r[2]} \subseteq DOMAIN zoneRows'
  BY <1>1, <1>2, <1>3 DEF WantedEdges, Valid
<1>6. \A r \in entityRows' : r[2] \in DOMAIN zoneRows' /\ r[3] \in {"located_in", "observes"}
  <2> SUFFICES ASSUME NEW r \in WantedEntities(config)
               PROVE  r[2] \in config.zones /\ r[3] \in {"located_in", "observes"}
    BY <1>2, <1>3
  <2>1. PICK k \in CameraKeys(config) :
          \/ r[2] = config.cameras[k].location /\ r[3] = "located_in"
          \/ r[2] \in config.cameras[k].observes /\ r[3] = "observes"
    BY EntityRowsOfCamera
  <2> QED BY <1>1, <2>1 DEF Valid, Covered
<1>7. DOMAIN zoneRows' \subseteq Zones
  BY <1>1, <1>3 DEF TypeInv, TypeOK
<1>8. newer' \subseteq Configs \X Configs
  <2>1. MapInv' BY MapStepInv DEF TypeInv, MapNext
  <2> QED BY <1>1, <2>1 DEF MapInv
<1> QED BY <1>1, <1>3, <1>4, <1>5, <1>6, <1>7, <1>8 DEF TypeInv, TypeOK

\* An event is numbered within its instant.
LEMMA IngestKeepsTypes ==
  ASSUME TypeInv, Ingest
  PROVE  TypeOK' /\ IsFiniteSet(events')
<1>1. PICK at \in 0..now :
        /\ Cardinality(AtInstant(at)) < MaxTies
        /\ \E e : e.id = Cardinality(AtInstant(at)) /\ e.at = at /\ events' = events \cup {e}
  BY DEF Ingest, AtInstant
<1>2. PICK e : e.id = Cardinality(AtInstant(at)) /\ e.at = at /\ events' = events \cup {e}
  BY <1>1
<1>3. IsFiniteSet(AtInstant(at)) /\ Cardinality(AtInstant(at)) \in Nat
  BY FS_Subset, FS_CardinalityType DEF TypeInv, AtInstant
<1>4. e.id \in 0..(MaxTies - 1)
  BY <1>1, <1>2, <1>3, MapAssumption
<1>5. IsFiniteSet(events')
  BY <1>2, FS_AddElement DEF TypeInv
<1>6. UNCHANGED <<config, serving, zoneRows, edgeRows, entityRows, now, newer>>
  BY DEF Ingest
<1> QED BY <1>1, <1>2, <1>4, <1>5, <1>6 DEF TypeInv, TypeOK

LEMMA MapTypesStep == TypeInv /\ [MapNext]_mapVars => TypeInv'
<1> SUFFICES ASSUME TypeInv, [MapNext]_mapVars PROVE TypeInv'
  OBVIOUS
<1>1. MapInv'
  BY MapStepInv DEF TypeInv
<1>2. CASE Edit
  BY <1>1, <1>2 DEF Edit, TypeInv, TypeOK
<1>3. CASE Boot
  BY <1>1, <1>3, BootKeepsTypes DEF Boot, TypeInv
<1>4. CASE Down
  BY <1>1, <1>4 DEF Down, TypeInv, TypeOK
<1>5. CASE Ingest
  BY <1>1, <1>5, IngestKeepsTypes DEF TypeInv
<1>6. CASE Tick
  BY <1>1, <1>6, MapAssumption DEF Tick, TypeInv, TypeOK
<1>7. CASE UNCHANGED mapVars
  BY <1>1, <1>7 DEF mapVars, TypeInv, TypeOK
<1> QED BY <1>2, <1>3, <1>4, <1>5, <1>6, <1>7 DEF MapNext

LEMMA MapTypesInit == MapInit => TypeInv
  BY MapInitInv, MapAssumption, FS_EmptySet DEF MapInit, TypeInv, TypeOK

\* For any files and any history, the rows of the map name zones it has, and
\* events of one instant are told apart.
THEOREM MapTypesStayCorrect == MapSpec => []TypeOK
<1>1. MapInit => TypeInv BY MapTypesInit
<1>2. TypeInv /\ [MapNext]_mapVars => TypeInv' BY MapTypesStep
<1>3. TypeInv => TypeOK BY DEF TypeInv
<1> QED BY <1>1, <1>2, <1>3, PTL DEF MapSpec

\* What the agent remembers.
AgentTypes ==
  /\ reader.asked = "more" => reader.filter \in Filters /\ reader.start \in Int /\ reader.end \in 0..now
  /\ hint # NoHint => /\ hint.minutes \in Nat /\ hint.filter \in Filters
                      /\ hint.at \in 0..now /\ hint.latest \in 0..hint.at

AgentInv == TypeInv /\ PagesInv /\ AgentTypes

\* The next page ends at an event that is stored.
LEMMA FollowTyped ==
  ASSUME TypeInv, NEW f \in Filters, NEW start \in Int, NEW end, NEW r \in Results(f, start, end),
         NEW owed, NEW next, next = Follow(f, start, r, owed), next.asked = "more"
  PROVE  next.filter \in Filters /\ next.start \in Int /\ next.end \in 0..now
<1>1. r.events # {} /\ next.filter = f /\ next.start = start /\ next.end = Oldest(r.events)
  BY DEF Follow
<1>2. r.events \subseteq events
  BY PageOfResult, MatchingStored DEF TypeInv
<1>3. \A e \in events : e.at \in 0..now /\ e.at \in Nat
  BY DEF TypeInv, TypeOK
<1>4. PICK e \in r.events : e.at = Oldest(r.events)
  BY <1>1, <1>2, <1>3, OldestIsLeast
<1> QED BY <1>1, <1>2, <1>3, <1>4

LEMMA RecentTyped ==
  ASSUME AgentInv, NEW f \in Filters, NEW m \in Nat, Recent(f, m), UNCHANGED mapVars
  PROVE  AgentTypes'
<1> USE SearchAssumption
<1>1. now \in Nat /\ now' = now
  BY MapAssumption DEF AgentInv, TypeInv, TypeOK, mapVars
<1>2. PICK start : start = now - m * PerMinute
  OBVIOUS
<1>3. start \in Int
  <2>1. m * PerMinute \in Int
    OBVIOUS
  <2> QED BY <1>1, <1>2, <2>1
<1>4. PICK r \in Results(f, start, now) :
        /\ reader' = Follow(f, start, r, Matching(f, start, now))
        /\ \E t \in 0..now \cup {None} : hint' \in {Hint(f, t), NoHint}
  BY <1>2 DEF Recent
<1>5. reader'.asked = "more" => reader'.filter \in Filters /\ reader'.start \in Int /\ reader'.end \in 0..now
  BY <1>3, <1>4, FollowTyped DEF AgentInv
<1>6. PICK t \in 0..now \cup {None} : hint' \in {Hint(f, t), NoHint}
  BY <1>4
<1>7. hint' # NoHint => /\ hint'.minutes \in Nat /\ hint'.filter \in Filters
                        /\ hint'.at \in 0..now /\ hint'.latest \in 0..hint'.at
  <2> SUFFICES ASSUME hint' # NoHint
               PROVE  /\ hint'.minutes \in Nat /\ hint'.filter \in Filters
                      /\ hint'.at \in 0..now /\ hint'.latest \in 0..hint'.at
    OBVIOUS
  <2>1. t # None /\ hint' = [filter |-> f, at |-> now, latest |-> t,
                             minutes |-> (now - t) \div PerMinute + Slack]
    BY <1>6 DEF Hint
  <2>2. now - t \in Nat
    BY <1>1, <2>1
  <2>3. (now - t) \div PerMinute \in Nat
    BY <2>2, WholeMinutes
  <2> QED BY <1>1, <2>1, <2>3
<1> QED BY <1>1, <1>5, <1>7 DEF AgentInv, AgentTypes

LEMMA AgentInvStep == AgentInv /\ [Next]_vars => AgentInv'
<1> SUFFICES ASSUME AgentInv, [Next]_vars PROVE AgentInv'
  OBVIOUS
<1>1. PagesInv'
  BY PagesInvStep DEF AgentInv
<1>2. TypeInv'
  <2>1. [MapNext]_mapVars
    BY DEF Next, MapNext, MapStep, GoDown, HintRefused, AskRecent, FollowHint, AskSearch,
           NextPage, vars
  <2> QED BY <2>1, MapTypesStep DEF AgentInv
<1>3. now \in Nat
  BY MapAssumption DEF AgentInv, TypeInv, TypeOK
<1>4. CASE MapStep \/ UNCHANGED vars
  <2>1. UNCHANGED searchVars /\ now' \in Nat /\ now <= now'
    BY <1>3, <1>4 DEF MapStep, Edit, Boot, Ingest, Tick, vars, mapVars
  <2>2. AgentTypes'
    BY <1>3, <2>1 DEF AgentInv, AgentTypes, searchVars, NoHint
  <2> QED BY <1>1, <1>2, <2>2 DEF AgentInv
<1>5. CASE GoDown
  <2>1. AgentTypes'
    BY <1>5 DEF GoDown, Down, AgentInv, AgentTypes, Idle, NoHint
  <2> QED BY <1>1, <1>2, <2>1 DEF AgentInv
<1>6. CASE HintRefused
  <2>1. AgentTypes'
    BY <1>3, <1>6 DEF HintRefused, AgentInv, AgentTypes, NoHint, mapVars
  <2> QED BY <1>1, <1>2, <2>1 DEF AgentInv
<1>7. CASE AskRecent
  <2>1. PICK f \in Filters, m \in Windows : Recent(f, m)
    BY <1>7 DEF AskRecent
  <2>2. m \in Nat
    BY SearchAssumption
  <2>3. AgentTypes'
    BY <1>7, <2>1, <2>2, RecentTyped DEF AskRecent
  <2> QED BY <1>1, <1>2, <2>3 DEF AgentInv
<1>8. CASE FollowHint
  <2>1. hint.filter \in Filters /\ hint.minutes \in Nat
    BY <1>8 DEF FollowHint, AgentInv, AgentTypes
  <2>2. AgentTypes'
    BY <1>8, <2>1, RecentTyped DEF FollowHint
  <2> QED BY <1>1, <1>2, <2>2 DEF AgentInv
<1>9. CASE AskSearch
  <2>1. PICK f \in Filters, p \in Periods :
          \E r \in Results(f, p[1], p[2]) :
            reader' = Follow(f, p[1], r, Matching(f, p[1], p[2]))
    BY <1>9 DEF AskSearch
  <2>2. p[1] \in Int
    BY SearchAssumption
  <2>3. reader'.asked = "more" => reader'.filter \in Filters /\ reader'.start \in Int /\ reader'.end \in 0..now
    BY <2>1, <2>2, FollowTyped DEF AgentInv
  <2>4. AgentTypes'
    BY <1>9, <2>3 DEF AskSearch, AgentInv, AgentTypes, mapVars
  <2> QED BY <1>1, <1>2, <2>4 DEF AgentInv
<1>10. CASE NextPage
  <2>1. reader.filter \in Filters /\ reader.start \in Int
    BY <1>10 DEF NextPage, AgentInv, AgentTypes
  <2>2. reader'.asked = "more" => reader'.filter \in Filters /\ reader'.start \in Int /\ reader'.end \in 0..now
    BY <1>10, <2>1, FollowTyped DEF NextPage, AgentInv
  <2>3. AgentTypes'
    BY <1>10, <2>2 DEF NextPage, AgentInv, AgentTypes, mapVars, NoHint
  <2> QED BY <1>1, <1>2, <2>3 DEF AgentInv
<1> QED BY <1>4, <1>5, <1>6, <1>7, <1>8, <1>9, <1>10 DEF Next

\* Every variable keeps its type; what the agent is still owed is stored.
THEOREM TypesStayCorrect == Spec => []SearchTypeOK
<1>1. Init => AgentInv
  BY PagesInvInit, MapTypesInit DEF Init, AgentInv, AgentTypes, Idle, NoHint
<1>2. AgentInv /\ [Next]_vars => AgentInv' BY AgentInvStep
<1>3. AgentInv => SearchTypeOK
  BY MatchingStored DEF AgentInv, TypeInv, PagesInv, ReaderInv, AgentTypes, SearchTypeOK
<1> QED BY <1>1, <1>2, <1>3, PTL DEF Spec
=============================================================================
