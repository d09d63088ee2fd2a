----------------------------- MODULE QosProfile -----------------------------
(***************************************************************************)
(* Quality of service of an endpoint in the three forms the agent handles: *)
(* the full DataWriterQos or DataReaderQos of an entity it has created,    *)
(* the same rebuilt from what discovery carries, and the rmw profile kept  *)
(* in the graph.  Durations are model values; only policies that the rmw   *)
(* profile has, and the history as one that it has not, are kept.          *)
(***************************************************************************)
CONSTANTS Durations,        \* deadlines, lifespans and leases
          DefaultDuration   \* their default, "infinite"

ASSUME QosAssumption == DefaultDuration \in Durations

DdsQos ==
  [reliability : {"BEST_EFFORT", "RELIABLE"},
   durability : {"VOLATILE", "TRANSIENT_LOCAL", "TRANSIENT", "PERSISTENT"},
   liveliness : {"AUTOMATIC", "MANUAL_BY_PARTICIPANT", "MANUAL_BY_TOPIC"},
   deadline : Durations, lifespan : Durations, lease : Durations,
   history : {"KEEP_LAST", "KEEP_ALL"}]

RmwQos ==
  [reliability : {"BEST_EFFORT", "RELIABLE", "UNKNOWN"},
   durability : {"VOLATILE", "TRANSIENT_LOCAL", "UNKNOWN"},
   liveliness : {"AUTOMATIC", "MANUAL_BY_TOPIC", "UNKNOWN"},
   deadline : Durations, lifespan : Durations, liveliness_lease_duration : Durations]

fastdds_qos_to_rmw_qos_NoDefault(q) ==
  [reliability |-> q.reliability, durability |-> q.durability,
   liveliness |-> q.liveliness, deadline |-> q.deadline, lifespan |-> q.lifespan,
   liveliness_lease_duration |-> q.lease]

\* What rmw has no word for becomes UNKNOWN.
fastdds_qos_to_rmw_qos(q) ==
  [reliability |-> q.reliability,
   durability |-> IF q.durability \in {"VOLATILE", "TRANSIENT_LOCAL"}
                  THEN q.durability ELSE "UNKNOWN",
   liveliness |-> IF q.liveliness = "MANUAL_BY_PARTICIPANT" THEN "UNKNOWN"
                  ELSE q.liveliness,
   deadline |-> q.deadline,
   lifespan |-> q.lifespan,
   liveliness_lease_duration |-> q.lease]

\* Policies that discovery does not carry are left at their default.
writer_qos_conversion(q) == [q EXCEPT !.history = "KEEP_LAST"]

reader_qos_conversion_NoDurability(q) ==
  [q EXCEPT !.history = "KEEP_LAST", !.durability = "VOLATILE"]
reader_qos_conversion(q) == [q EXCEPT !.history = "KEEP_LAST"]
=============================================================================
