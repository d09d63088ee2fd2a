---------------------------- MODULE GraphManager ----------------------------
(***************************************************************************)
(* The graph manager of the micro-ROS agent (graph_manager.cpp): it keeps  *)
(* the graph of nodes and endpoints of one DDS domain, announces micro-ROS *)
(* nodes to ROS 2 on ros_discovery_info and publishes the whole graph to   *)
(* micro-ROS whenever it has changed.                                      *)
(*                                                                         *)
(* The operations below are called on three threads: the agent's, which    *)
(* creates and deletes entities, DDS's listeners, and the publisher thread *)
(* of this class.  Each is cut at the critical sections of the cache and   *)
(* at the writes.  The on-change callback runs inside the section and sets *)
(* graph_changed_ under mtx_, so it is part of the step; a wait with a     *)
(* predicate that changes only under its mutex is the predicate as guard.  *)
(*                                                                         *)
(* A sample of ros_discovery_info is written asynchronously: samples[g] is *)
(* the last one of g's writer that the listener has not taken.  The reader *)
(* matches the manager's own writers too, and has room for one sample.     *)
(***************************************************************************)
EXTENDS GraphCache

CONSTANTS MicroRos,         \* the participants the agent creates
          ParticipantName,  \* their DDS names, split at "/"; <<>> is "/"
          Enclave,          \* participants whose user data names an enclave
          OwnerOf,          \* the participant of an endpoint
          EntityQos,        \* the DDS quality of service of an endpoint
          NoSample, NoNode

ASSUME ManagerAssumption ==
  /\ MicroRos \subseteq Gids /\ Enclave \subseteq Gids
  /\ OwnerOf \in [Endpoints -> Gids]
  /\ EntityQos \in [Endpoints -> DdsQos]
  /\ NoSample \notin Info /\ NoSample \notin [gid : Gids, info : Info]

VARIABLES
  graphCache_, graph_changed_,
  micro_ros_graph_datawriters_,  \* participants that have one
  samples,
  info,        \* the message the agent's thread has got from the cache
  held,        \* the sample the listener has taken and not yet applied
  publisher,   \* control point of publish_microros_graph
  node_names, node_message, graph_message,   \* its variables
  published,   \* the last message on ros_to_microros_graph; {} if none
  crashed      \* an iterator past the end of a map or a vector was used

agent_side == <<micro_ros_graph_datawriters_, samples, info>>
publisher_side == <<publisher, node_names, node_message, graph_message, published>>
manager_vars == <<graphCache_, graph_changed_, agent_side, held, publisher_side,
                  crashed>>

\* "Split node name in domain and node name": the first part is the namespace,
\* all the others the name.
get_name_and_namespace(participant_name) ==
  IF Len(participant_name) > 1
  THEN [namespace |-> <<Head(participant_name)>>, name |-> Tail(participant_name)]
  ELSE [namespace |-> <<>>, name |-> participant_name]

NodeOf(p) == get_name_and_namespace(ParticipantName[p])
IsRoot(p) == ParticipantName[p] = <<>>

ManagerInit ==
  /\ graphCache_ = EmptyCache /\ graph_changed_ = FALSE
  /\ micro_ros_graph_datawriters_ = {}
  /\ samples = [g \in Gids |-> NoSample]
  /\ info = NoNodes /\ held = NoSample
  /\ publisher = "waiting"
  /\ node_names = {} /\ node_message = NoNode /\ graph_message = {}
  /\ published = {}
  /\ crashed = FALSE

\* The cache operations that always call the on-change callback, and those
\* that do when something has been inserted or erased.
Change(c) == graphCache_' = c /\ graph_changed_' = TRUE
ChangeIfAny(c) ==
  /\ graphCache_' = c
  /\ graph_changed_' = (graph_changed_ \/ c # graphCache_)

-----------------------------------------------------------------------------
(* Called by the agent's callbacks.                                        *)

add_participant(p) ==
  /\ Change(WithParticipant(graphCache_, p))
  /\ UNCHANGED <<agent_side, crashed>>

\* The rest of add_participant, for participants that are not the root.
add_node(p) ==
  LET c == WithNode(graphCache_, p, NodeOf(p))
  IN /\ Change(c)
     /\ info' = c.info[p]
     /\ UNCHANGED <<micro_ros_graph_datawriters_, samples, crashed>>

announce(p) ==
  /\ micro_ros_graph_datawriters_' = micro_ros_graph_datawriters_ \cup {p}
  /\ samples' = [samples EXCEPT ![p] = info]
  /\ info' = NoNodes
  /\ UNCHANGED <<graphCache_, graph_changed_, crashed>>

remove_participant(p) ==
  /\ ChangeIfAny(WithoutParticipant(graphCache_, p))
  /\ UNCHANGED <<agent_side, crashed>>

\* The end of remove_participant: an empty message, and the writer is deleted
\* at once, so that the message may or may not get out.
retract_EraseFirst(p) == crashed' = TRUE /\ UNCHANGED <<graphCache_, graph_changed_, agent_side>>
retract(p) ==
  IF p \in micro_ros_graph_datawriters_
  THEN /\ micro_ros_graph_datawriters_' = micro_ros_graph_datawriters_ \ {p}
       /\ \E last \in {NoNodes, NoSample} : samples' = [samples EXCEPT ![p] = last]
       /\ UNCHANGED <<graphCache_, graph_changed_, info, crashed>>
  ELSE crashed' = TRUE /\ UNCHANGED <<graphCache_, graph_changed_, agent_side>>

\* add_datawriter and add_datareader, with the quality of service the entity
\* has, or with the one rebuilt from discovery.
add_entity(e, qos) ==
  /\ ChangeIfAny(WithEntity(graphCache_, e, fastdds_qos_to_rmw_qos(qos)))
  /\ UNCHANGED <<agent_side, crashed>>

remove_entity(e) ==
  /\ ChangeIfAny(WithoutEntity(graphCache_, e))
  /\ UNCHANGED <<agent_side, crashed>>

\* associate_entity up to its write: the cache looks for the node without a
\* test that it is there.
associate_entity(e) ==
  LET p == OwnerOf[e]
      c == Associated(graphCache_, p, NodeOf(p), e)
  IN IF NodeOf(p) \in graphCache_.info[p].nodes
     THEN /\ Change(c)
          /\ info' = c.info[p]
          /\ UNCHANGED <<micro_ros_graph_datawriters_, samples, crashed>>
     ELSE crashed' = TRUE /\ UNCHANGED <<graphCache_, graph_changed_, agent_side>>

write_info(p) ==
  IF p \in micro_ros_graph_datawriters_
  THEN /\ samples' = [samples EXCEPT ![p] = info]
       /\ info' = NoNodes
       /\ UNCHANGED <<graphCache_, graph_changed_, micro_ros_graph_datawriters_,
                      crashed>>
  ELSE crashed' = TRUE /\ UNCHANGED <<graphCache_, graph_changed_, agent_side>>

-----------------------------------------------------------------------------
(* Called by DDS: ParticipantListener and DatareaderListener.              *)

\* on_participant_discovery
discovered_participant(g) ==
  /\ IF g \in Enclave THEN Change(WithParticipant(graphCache_, g))
     ELSE UNCHANGED <<graphCache_, graph_changed_>>
  /\ UNCHANGED <<agent_side, crashed>>

removed_participant(g) == remove_participant(g)

\* process_discovery_info
discovered_endpoint(e) ==
  add_entity(e, IF e \in Readers THEN reader_qos_conversion(EntityQos[e])
                ELSE writer_qos_conversion(EntityQos[e]))

removed_endpoint_Ignored(e) == UNCHANGED <<graphCache_, graph_changed_, agent_side, crashed>>
removed_endpoint(e) == remove_entity(e)

\* on_data_available: the sample is taken first, and the cache updated after.
take_next_sample(g) ==
  /\ ~crashed /\ held = NoSample /\ samples[g] # NoSample
  /\ held' = [gid |-> g, info |-> samples[g]]
  /\ samples' = [samples EXCEPT ![g] = NoSample]
  /\ UNCHANGED <<graphCache_, graph_changed_, micro_ros_graph_datawriters_, info,
                 publisher_side, crashed>>

\* The reader keeps the last one: with history depth 1 the sample of one writer
\* drives out that of another.
sample_replaced(g) ==
  /\ ~crashed /\ samples[g] # NoSample
  /\ \E h \in Gids \ {g} : samples[h] # NoSample
  /\ samples' = [samples EXCEPT ![g] = NoSample]
  /\ UNCHANGED <<graphCache_, graph_changed_, micro_ros_graph_datawriters_, info,
                 held, publisher_side, crashed>>

update_participant_entities ==
  /\ ~crashed /\ held # NoSample
  /\ Change(WithInfo(graphCache_, held.gid, held.info))
  /\ held' = NoSample
  /\ UNCHANGED <<agent_side, publisher_side, crashed>>

-----------------------------------------------------------------------------
(* The publisher thread: publish_microros_graph.  Every query is a critical *)
(* section of its own.                                                      *)

publisher_only ==
  UNCHANGED <<graphCache_, agent_side, held, crashed>>

\* graph_changed_ is cleared before the graph is read, and not touched after.
FlagAfterWrite_Cleared == graph_changed_' = FALSE
FlagAfterWrite == UNCHANGED graph_changed_

wait_graph_changed ==
  /\ ~crashed /\ publisher = "waiting" /\ graph_changed_
  /\ graph_changed_' = FALSE
  /\ publisher' = "names"
  /\ publisher_only
  /\ UNCHANGED <<node_names, node_message, graph_message, published>>

get_node_names ==
  /\ ~crashed /\ publisher = "names"
  /\ node_names' = NodesIn(graphCache_)
  /\ graph_message' = {}
  /\ publisher' = "writers"
  /\ publisher_only /\ UNCHANGED <<graph_changed_, node_message, published>>

\* A node that has gone meanwhile ends the loop over the nodes: "break".
NodeGone_Return == publisher' = "ended" /\ node_message' = NoNode
NodeGone == publisher' = "write" /\ node_message' = NoNode

get_writer_names ==
  /\ ~crashed /\ publisher = "writers"
  /\ \E n \in node_names :
       IF n \in NodesIn(graphCache_)
       THEN /\ node_names' = node_names \ {n}
            /\ node_message' = [node |-> n, entities |-> Publishers(graphCache_, n)]
            /\ publisher' = "readers"
       ELSE NodeGone /\ UNCHANGED node_names
  /\ publisher_only /\ UNCHANGED <<graph_changed_, graph_message, published>>

get_reader_names ==
  /\ ~crashed /\ publisher = "readers"
  /\ LET n == node_message.node
     IN IF n \in NodesIn(graphCache_)
        THEN /\ node_message' = [node_message EXCEPT
                                   !.entities = @ \cup Subscribers(graphCache_, n)]
             /\ publisher' = "servers"
        ELSE NodeGone
  /\ publisher_only
  /\ UNCHANGED <<graph_changed_, node_names, graph_message, published>>

get_service_servers ==
  /\ ~crashed /\ publisher = "servers"
  /\ node_message' = [node_message EXCEPT !.entities = @ \cup ServiceServers(graphCache_)]
  /\ publisher' = "clients"
  /\ publisher_only
  /\ UNCHANGED <<graph_changed_, node_names, graph_message, published>>

get_service_clients ==
  /\ ~crashed /\ publisher = "clients"
  /\ graph_message' = graph_message \cup
       {[node_message EXCEPT !.entities = @ \cup ServiceClients(graphCache_)]}
  /\ node_message' = NoNode
  /\ publisher' = "writers"
  /\ publisher_only
  /\ UNCHANGED <<graph_changed_, node_names, published>>

write_graph ==
  /\ ~crashed
  /\ publisher = "write" \/ (publisher = "writers" /\ node_names = {})
  /\ published' = graph_message
  /\ publisher' = "waiting"
  /\ node_names' = {} /\ graph_message' = {}
  /\ FlagAfterWrite
  /\ publisher_only /\ UNCHANGED node_message

publish_microros_graph ==
  \/ wait_graph_changed \/ get_node_names \/ get_writer_names \/ get_reader_names
  \/ get_service_servers \/ get_service_clients \/ write_graph
=============================================================================
