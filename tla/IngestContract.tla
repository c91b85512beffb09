--------------------------- MODULE IngestContract ---------------------------
(***************************************************************************)
(* What ingestion promises, without saying how: a webhook that was answered *)
(* 202 is stored, a stored delivery comes to rest at most once, and an     *)
(* occurrence (a delivery key) becomes at most one event, however many     *)
(* deliveries carry it and however often each of them is processed.        *)
(*                                                                         *)
(* DeliveryQueue implements this specification; its queue, leases, workers *)
(* and crashes do not appear here.                                         *)
(***************************************************************************)
CONSTANTS
  Deliveries,   (* webhooks Home Assistant may post                        *)
  Keys,         (* identities of occurrences (core.ids.delivery_key)       *)
  KeyOf         (* the key each delivery carries                           *)

VARIABLES
  stored,       (* deliveries whose row is in event_deliveries             *)
  promised,     (* deliveries Home Assistant was answered 202 for          *)
  recorded,     (* keys that have become an event                          *)
  outcome       (* "open", "kept" (points at an event) or "dropped"        *)

contractVars == <<stored, promised, recorded, outcome>>

Init ==
  /\ stored = {}
  /\ promised = {}
  /\ recorded = {}
  /\ outcome = [d \in Deliveries |-> "open"]

Store(d) ==
  /\ d \notin stored
  /\ stored' = stored \cup {d}
  /\ UNCHANGED <<promised, recorded, outcome>>

Promise(d) ==
  /\ d \in stored \ promised
  /\ promised' = promised \cup {d}
  /\ UNCHANGED <<stored, recorded, outcome>>

\* The occurrence becomes an event, once.  The delivery that brought it comes
\* to rest in the same commit, or stays open to be tried again.
Record(d) ==
  /\ d \in stored
  /\ outcome[d] = "open"
  /\ KeyOf[d] \notin recorded
  /\ recorded' = recorded \cup {KeyOf[d]}
  /\ \E o \in {"open", "kept", "dropped"} : outcome' = [outcome EXCEPT ![d] = o]
  /\ UNCHANGED <<stored, promised>>

\* The delivery is a duplicate of something already recorded.
Keep(d) ==
  /\ d \in stored
  /\ outcome[d] = "open"
  /\ recorded # {}
  /\ outcome' = [outcome EXCEPT ![d] = "kept"]
  /\ UNCHANGED <<stored, promised, recorded>>

Drop(d) ==
  /\ d \in stored
  /\ outcome[d] = "open"
  /\ outcome' = [outcome EXCEPT ![d] = "dropped"]
  /\ UNCHANGED <<stored, promised, recorded>>

Next ==
  \E d \in Deliveries :
    Store(d) \/ Promise(d) \/ Record(d) \/ Keep(d) \/ Drop(d)

Spec == Init /\ [][Next]_contractVars
=============================================================================
