----------------------------- MODULE GraphCache -----------------------------
(***************************************************************************)
(* rmw_dds_common::GraphCache as the agent uses it (external): which       *)
(* participants are known, the nodes each of them has announced with the   *)
(* endpoints of each node, and the endpoints known with their profile.     *)
(* Each operation is one critical section of the cache's own mutex.        *)
(***************************************************************************)
EXTENDS Demangle, QosProfile

CONSTANTS Gids,        \* participants; their gids are ordered, like the map's keys
          NodeNames,   \* [namespace, name]
          Endpoints,   \* data writers and data readers
          Readers,     \* those of Endpoints that are readers
          TopicName, TypeName,   \* mangled names of an endpoint
          NotRecorded  \* the profile of an endpoint that is not in the cache

ASSUME CacheAssumption ==
  /\ Gids \subseteq Nat
  /\ Readers \subseteq Endpoints
  /\ NotRecorded \notin RmwQos

\* A ParticipantEntitiesInfo message, and what the cache keeps of one.
Info == [nodes : SUBSET NodeNames, gids : SUBSET (NodeNames \X Endpoints)]
NoNodes == [nodes |-> {}, gids |-> {}]

Cache == [participants : SUBSET Gids, info : [Gids -> Info],
          entities : [Endpoints -> RmwQos \cup {NotRecorded}]]
EmptyCache == [participants |-> {}, info |-> [g \in Gids |-> NoNodes],
               entities |-> [e \in Endpoints |-> NotRecorded]]

WithParticipant(c, g) == [c EXCEPT !.participants = @ \cup {g}]
WithoutParticipant(c, g) ==
  [c EXCEPT !.participants = @ \ {g}, !.info[g] = NoNodes]

\* The message replaces what was known of its sender, known or not.
WithInfo(c, g, info) ==
  [c EXCEPT !.participants = @ \cup {g}, !.info[g] = info]

WithNode(c, g, n) ==
  WithInfo(c, g, [c.info[g] EXCEPT !.nodes = @ \cup {n}])
Associated(c, g, n, e) ==
  WithInfo(c, g, [c.info[g] EXCEPT !.gids = @ \cup {<<n, e>>}])

\* emplace: the first profile recorded for an endpoint stays.
WithEntity(c, e, profile) ==
  IF c.entities[e] = NotRecorded THEN [c EXCEPT !.entities[e] = profile] ELSE c
WithoutEntity(c, e) == [c EXCEPT !.entities[e] = NotRecorded]

-----------------------------------------------------------------------------
(* Queries.                                                                *)

Recorded(c) == {e \in Endpoints : c.entities[e] # NotRecorded}
NodesIn(c) == UNION {c.info[g].nodes : g \in Gids}

\* A node is looked up by its name: the first participant that has it.
Holder(c, n) ==
  CHOOSE g \in Gids : /\ n \in c.info[g].nodes
                      /\ \A h \in Gids : n \in c.info[h].nodes => g <= h
EndpointsOfNode(c, n) ==
  {e \in Recorded(c) : <<n, e>> \in c.info[Holder(c, n)].gids}

EntityTypes == {"PUBLISHER", "SUBSCRIBER", "SERVICE_SERVER", "SERVICE_CLIENT"}
Names == Seq(Word) \ {Blank}
EntityMessage == [entity_type : EntityTypes, name : Names, type : Names]
NodeMessage == [node : NodeNames, entities : SUBSET EntityMessage]

\* Names and types of the endpoints es; what is demangled to nothing is left out.
NamesAndTypes(entity_type, es, DemangleTopic(_), DemangleType(_)) ==
  {x \in {[entity_type |-> entity_type, name |-> DemangleTopic(TopicName[e]),
           type |-> DemangleType(TypeName[e])] : e \in es} :
     x.name # Blank /\ x.type # Blank}

Publishers(c, n) ==
  NamesAndTypes("PUBLISHER", EndpointsOfNode(c, n) \ Readers,
                demangle_ros_topic_from_topic, demangle_if_ros_type)
Subscribers(c, n) ==
  NamesAndTypes("SUBSCRIBER", EndpointsOfNode(c, n) \cap Readers,
                demangle_ros_topic_from_topic, demangle_if_ros_type)

\* Of all endpoints of the domain, whatever node they belong to.
ServiceServers(c) ==
  NamesAndTypes("SERVICE_SERVER", Recorded(c),
                demangle_service_request_from_topic, demangle_service_type_only)
ServiceClients(c) ==
  NamesAndTypes("SERVICE_CLIENT", Recorded(c),
                demangle_service_reply_from_topic, demangle_service_type_only)

\* The graph that micro-ROS is told: one message per node.
AllEntities(c, n) ==
  Publishers(c, n) \cup Subscribers(c, n) \cup ServiceServers(c) \cup ServiceClients(c)
Graph(c) == {[node |-> n, entities |-> AllEntities(c, n)] : n \in NodesIn(c)}
=============================================================================
