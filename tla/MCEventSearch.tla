---------------------------- MODULE MCEventSearch ----------------------------
(* EventSearch over a house that is rearranged: a camera that moves and one   *)
(* without entities, a zone that is dropped, and a file with a typo.         *)
EXTENDS EventSearch

Link(from, to, both) == [from |-> from, to |-> to, relation |-> "adjacent", bidirectional |-> both]

Camera(location, observes, partial, image, own, strategy) ==
  [location |-> location, observes |-> observes, partial |-> partial,
   event_image_entity |-> image, camera_entity |-> own, strategy |-> strategy]

Gate == Camera("drive", {"porch"}, {"porch"}, "image.gate", None, "image_entity_state")
Moved == Camera("yard", {"porch"}, {}, "image.gate", "camera.gate", "image_entity_state")
Fence == Camera("porch", {}, {"porch"}, None, None, "none")

House == [zones |-> {"drive", "porch"}, parent |-> [z \in {"porch"} |-> "drive"],
          relations |-> {Link("drive", "porch", TRUE)},
          cameras |-> [k \in {"gate"} |-> Gate]]

Rebuilt == [zones |-> {"porch", "yard"}, parent |-> [z \in {"yard"} |-> "attic"],
            relations |-> {Link("yard", "porch", FALSE)},
            cameras |-> [k \in {"gate", "fence"} |-> IF k = "gate" THEN Moved ELSE Fence]]

Typo == [Rebuilt EXCEPT !.relations = {Link("yard", "attic", FALSE)}]

MCPeriods == {<<-1, MaxTime>>}
MCFilters == {[zone |-> None, camera |-> None], [zone |-> "porch", camera |-> None],
              [zone |-> None, camera |-> "gate"], [zone |-> None, camera |-> "fence"]}

\* camera.gate is nobody's entity in House.
MCPosted == {"image.gate", "camera.gate"}

MCConfigs == {House, Rebuilt, Typo}
=============================================================================
