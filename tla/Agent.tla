-------------------------------- MODULE Agent --------------------------------
(***************************************************************************)
(* The micro-ROS agent (Agent.cpp) around its graph manager: a callback of *)
(* the XRCE agent for each entity it creates or deletes on behalf of a     *)
(* micro-controller, and around both the DDS domain: what exists, what     *)
(* discovery has reported, and other ROS 2 participants.                   *)
(*                                                                         *)
(* A callback is the list of the manager's operations it calls; the XRCE   *)
(* agent runs one at a time.  Gids and endpoints are never used again, so  *)
(* each participant and endpoint of an instance lives once.                *)
(***************************************************************************)
EXTENDS GraphManager, FiniteSets

CONSTANTS Objects,     \* writers, readers, requesters and repliers of the clients
          Parts,       \* their endpoints: one, or a writer and a reader
          RemoteInfo,  \* what an other participant announces
          MaxThings    \* bound: participants and endpoints that ever live

Others == Gids \ MicroRos
Things == Gids \cup Endpoints
EndpointsOf(g) == {e \in Endpoints : OwnerOf[e] = g}

Ours(g) == {g} \cup EndpointsOf(g)

PartsOf(o) == {Parts[o][i] : i \in DOMAIN Parts[o]}

\* The calls of an object's callback: its first part, then its second if any.
ForParts(o, CallsFor(_)) ==
  IF Len(Parts[o]) = 1 THEN CallsFor(Parts[o][1])
  ELSE CallsFor(Parts[o][1]) \o CallsFor(Parts[o][2])

ASSUME AgentAssumption ==
  /\ \A p \in MicroRos : NodeOf(p) \in NodeNames
  /\ TopicName \in [Endpoints -> Seq(Word)] /\ TypeName \in [Endpoints -> Seq(Word)]
  /\ NoNode \notin NodeMessage
  /\ \A o \in Objects :
       /\ Parts[o] \in Seq(Endpoints) /\ Len(Parts[o]) \in {1, 2}
       /\ \A e \in PartsOf(o) : OwnerOf[e] \in MicroRos
       /\ \A e, f \in PartsOf(o) : OwnerOf[e] = OwnerOf[f]
  /\ RemoteInfo \in [Others -> Info]
  /\ Gids \cap Endpoints = {}

VARIABLES calls,   \* what is left to call of the current callback
          life,    \* what exists
          told     \* what discovery has reported

vars == <<manager_vars, calls, life, told>>

Init ==
  /\ ManagerInit
  /\ calls = <<>>
  /\ life = [x \in Things |-> "new"]
  /\ told = [x \in Things |-> "no"]

-----------------------------------------------------------------------------
(* Agent::create: the callbacks.                                           *)

Call(op, x) == [op |-> op, on |-> x]

Begin(xs, from, to, callback) ==
  /\ ~crashed /\ calls = <<>>
  /\ \A x \in xs : life[x] = from
  /\ calls' = callback
  /\ life' = [x \in Things |-> IF x \in xs THEN to ELSE life[x]]
  /\ UNCHANGED <<manager_vars, told>>

RoomFor(xs) == Cardinality({x \in Things : life[x] # "new"} \cup xs) <= MaxThings

\* add_participant returns after its first operation for the root node.
on_create_participant(p) ==
  /\ RoomFor({p})
  /\ Begin({p}, "new", "alive",
           IF IsRoot(p) THEN <<Call("add_participant", p)>>
           ELSE <<Call("add_participant", p), Call("add_node", p), Call("announce", p)>>)

\* The entity is still there during its delete callback.
on_delete_participant(p) ==
  /\ \A e \in EndpointsOf(p) : life[e] # "alive"
  /\ Begin({p}, "alive", "alive",
           <<Call("remove_participant", p), Call("retract", p), Call("destroy", p)>>)

\* CREATE_DATAWRITER, CREATE_DATAREADER, CREATE_REQUESTER, CREATE_REPLIER
Adding(e) == <<Call("add_entity", e), Call("associate", e), Call("write", e)>>
on_create(o) ==
  /\ life[OwnerOf[Parts[o][1]]] = "alive" /\ RoomFor(PartsOf(o))
  /\ Begin(PartsOf(o), "new", "alive", ForParts(o, Adding))

\* DELETE_DATAWRITER, DELETE_DATAREADER, DELETE_REQUESTER, DELETE_REPLIER
Removing(e) == <<Call("remove_entity", e)>>
Destroying(e) == <<Call("destroy", e)>>
RemovingAll(o) == ForParts(o, Removing) \o ForParts(o, Destroying)
on_delete(o) == Begin(PartsOf(o), "alive", "alive", RemovingAll(o))

Perform(op, x) ==
  CASE op = "add_participant" -> add_participant(x)
    [] op = "add_node" -> add_node(x)
    [] op = "announce" -> announce(x)
    [] op = "remove_participant" -> remove_participant(x)
    [] op = "retract" -> retract(x)
    [] op = "add_entity" -> add_entity(x, EntityQos[x])
    [] op = "associate" -> associate_entity(x)
    [] op = "write" -> write_info(OwnerOf[x])
    [] op = "remove_entity" -> remove_entity(x)
    [] op = "destroy" -> UNCHANGED <<graphCache_, graph_changed_, agent_side, crashed>>

CallNext ==
  /\ ~crashed /\ calls # <<>>
  /\ LET call == Head(calls)
     IN /\ Perform(call.op, call.on)
        /\ life' = IF call.op = "destroy" THEN [life EXCEPT ![call.on] = "dead"] ELSE life
  /\ calls' = IF crashed' THEN calls ELSE Tail(calls)
  /\ UNCHANGED <<held, publisher_side, told>>

-----------------------------------------------------------------------------
(* The domain.                                                             *)

\* The first callback creates the manager (find_or_create_graph_manager).
HasManager == \E p \in MicroRos : life[p] # "new"

\* An endpoint is reported after its participant; what is gone meanwhile may
\* still be reported, or not.
Discovered(x) ==
  /\ ~crashed /\ HasManager
  /\ told[x] = "no" /\ life[x] # "new"
  /\ IF x \in Gids THEN discovered_participant(x)
     ELSE told[OwnerOf[x]] = "up" /\ discovered_endpoint(x)
  /\ told' = [told EXCEPT ![x] = "up"]
  /\ UNCHANGED <<held, publisher_side, calls, life>>

Removed(x) ==
  /\ ~crashed
  /\ told[x] = "up" /\ life[x] = "dead"
  /\ IF x \in Gids
     THEN (\A e \in EndpointsOf(x) : told[e] # "up") /\ removed_participant(x)
     ELSE removed_endpoint(x)
  /\ told' = [told EXCEPT ![x] = "down"]
  /\ UNCHANGED <<held, publisher_side, calls, life>>

\* Another participant comes with its endpoints and announces its nodes, and
\* goes; with its writer goes a sample that has not been taken.
Join(g) ==
  /\ ~crashed /\ life[g] = "new" /\ RoomFor(Ours(g))
  /\ life' = [x \in Things |-> IF x \in Ours(g) THEN "alive" ELSE life[x]]
  /\ samples' = [samples EXCEPT ![g] = RemoteInfo[g]]
  /\ UNCHANGED <<graphCache_, graph_changed_, micro_ros_graph_datawriters_, info,
                 held, publisher_side, crashed, calls, told>>

Leave(g) ==
  /\ ~crashed /\ life[g] = "alive"
  /\ life' = [x \in Things |-> IF x \in Ours(g) THEN "dead" ELSE life[x]]
  /\ samples' = [samples EXCEPT ![g] = NoSample]
  /\ UNCHANGED <<graphCache_, graph_changed_, micro_ros_graph_datawriters_, info,
                 held, publisher_side, crashed, calls, told>>

Callback ==
  \/ \E p \in MicroRos : on_create_participant(p) \/ on_delete_participant(p)
  \/ \E o \in Objects : on_create(o) \/ on_delete(o)

Listener ==
  /\ HasManager
  /\ \/ \E g \in Gids : take_next_sample(g) \/ sample_replaced(g)
     \/ update_participant_entities
  /\ UNCHANGED <<calls, life, told>>

Publisher == publish_microros_graph /\ UNCHANGED <<calls, life, told>>

Next ==
  \/ Callback \/ CallNext \/ Listener \/ Publisher
  \/ \E x \in Things : Discovered(x) \/ Removed(x)
  \/ \E g \in Others : Join(g) \/ Leave(g)

Spec == Init /\ [][Next]_vars

\* The publisher thread is scheduled.  Nobody has to create or delete anything.
FairSpec == Spec /\ WF_vars(Publisher)
-----------------------------------------------------------------------------
(* Properties.                                                             *)

PublisherPC == {"waiting", "names", "writers", "readers", "servers", "clients",
                "write"}
ManagerCalls == {"add_participant", "add_node", "announce", "remove_participant",
                 "retract"}
EntityCalls == {"add_entity", "associate", "write", "remove_entity"}
OwnEndpoints == {e \in Endpoints : OwnerOf[e] \in MicroRos}
Calls == [op : ManagerCalls, on : MicroRos] \cup [op : EntityCalls, on : OwnEndpoints]
           \cup [op : {"destroy"}, on : Things]

TypeOK ==
  /\ graphCache_ \in Cache /\ graph_changed_ \in BOOLEAN
  /\ micro_ros_graph_datawriters_ \subseteq MicroRos
  /\ samples \in [Gids -> Info \cup {NoSample}]
  /\ info \in Info
  /\ held \in [gid : Gids, info : Info] \cup {NoSample}
  /\ publisher \in PublisherPC
  /\ node_names \subseteq NodeNames
  /\ node_message \in NodeMessage \cup {NoNode}
  /\ publisher \in {"readers", "servers", "clients"} => node_message \in NodeMessage
  /\ graph_message \subseteq NodeMessage /\ published \subseteq NodeMessage
  /\ crashed \in BOOLEAN
  /\ calls \in Seq(Calls)
  /\ life \in [Things -> {"new", "alive", "dead"}]
  /\ told \in [Things -> {"no", "up", "down"}]

\* The publisher thread sleeps only when micro-ROS has been told the graph as it
\* is: no change is lost between reading the graph and waiting for the next one,
\* although a pass reads it in many critical sections.
SleepsOnlyWhenCurrent ==
  publisher = "waiting" /\ ~graph_changed_ => published = Graph(graphCache_)

\* Once the domain is quiet micro-ROS is told the graph as it is, also when the
\* last pass was cut short by a node that had gone.
EventuallyCurrent == <>[](crashed \/ published = Graph(graphCache_))

\* remove_participant and associate_entity use what find returns untested.  For
\* every participant but the root, for which add_participant keeps no entry, it
\* is there, whatever the listeners have done to the cache since.
CallGid == LET x == Head(calls).on IN IF x \in Gids THEN x ELSE OwnerOf[x]
LookupsFindTheirEntry == crashed => IsRoot(CallGid)

\* An endpoint is registered by the agent's callback and by discovery, in either
\* order.  Once it has been reported gone it stays out of the graph.
NoGhostEndpoints ==
  \A e \in Endpoints : told[e] = "down" => e \notin Recorded(graphCache_)

\* Whichever of the two comes first, the profile recorded is the endpoint's own.
ProfileIsItsOwn ==
  \A e \in Recorded(graphCache_) :
    graphCache_.entities[e] = fastdds_qos_to_rmw_qos(EntityQos[e])

\* "keep track of the Micro-ROS nodes exposing them to the ROS 2 network": with
\* nothing under way, the endpoints of a micro-ROS participant are in its node.
Settled == /\ calls = <<>> /\ held = NoSample
           /\ \A g \in Gids : samples[g] = NoSample
KeepsTrackOfEndpoints ==
  Settled => \A e \in Endpoints :
               LET p == OwnerOf[e]
               IN p \in MicroRos /\ life[e] = "alive"
                    => <<NodeOf(p), e>> \in graphCache_.info[p].gids
=============================================================================
