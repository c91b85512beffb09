--------------------------- MODULE MCCameraHealth ---------------------------
(* CameraHealth on two cameras: "door" is judged by the state of a           *)
(* connectivity sensor, "yard" by the availability of its camera and of its   *)
(* event-image entity.                                                       *)
EXTENDS CameraHealth

CONSTANTS door, yard

MCProfile ==
  [c \in Cameras |-> [entity |-> TRUE, predicate |-> c = door, image |-> c = yard]]

Answer(health, image) == [health |-> health, image |-> image]

MCAnswers ==
  [c \in Cameras |->
     IF c = door THEN {Answer(h, "on") : h \in {"on", "off", "unknown"}}
     ELSE {Answer("unknown", "unknown"), Answer("on", "unavailable")}]
=============================================================================
