----------------------------- MODULE AgentProofs -----------------------------
(***************************************************************************)
(* Proofs about Agent, for any participants, endpoints, names and clients, *)
(* and with no bound on how long it runs.                                  *)
(***************************************************************************)
EXTENDS Agent, TLAPS, SequenceTheorems, WellFoundedInduction

-----------------------------------------------------------------------------
(* Demangling.                                                             *)

LEMMA Least == ASSUME NEW S, S \in SUBSET Nat, S # {} PROVE \E i \in S : \A j \in S : i <= j
<1>1. PICK x \in S : \A y \in S : <<y, x>> \notin OpToRel(<, Nat)
  BY WFMin, NatLessThanWellFounded, Zenon
<1>2. \A y \in S : ~(y < x)
  BY <1>1, Zenon DEF OpToRel
<1>3. x \in Nat /\ \A y \in S : y \in Nat
  BY <1>1
<1>4. \A y \in S : x <= y
  BY <1>2, <1>3
<1> QED
  BY <1>4

LEMMA Greatest ==
  ASSUME NEW n \in Nat, NEW S, S \in SUBSET (1 .. n), S # {}
  PROVE  \E i \in S : \A j \in S : j <= i
<1> DEFINE T == {n - i : i \in S}
<1>1. T \in SUBSET Nat /\ T # {}
  <2>1. \A i \in S : i \in 1 .. n
    OBVIOUS
  <2>2. \A i \in S : n - i \in Nat
    BY <2>1
  <2> QED
    BY <2>2
<1>2. PICK t \in T : \A u \in T : t <= u
  <2> HIDE DEF T
  <2> QED
    BY <1>1, Least
<1>3. PICK i \in S : t = n - i
  BY <1>2
<1>4. \A j \in S : n - i <= n - j
  BY <1>2, <1>3
<1>5. \A j \in S : j <= i
  BY <1>4, <1>3
<1> QED
  BY <1>5

\* find and rfind return a position or 0.
LEMMA FindInRange ==
  ASSUME NEW name \in Seq(Word), NEW part
  PROVE  find(name, part) \in 0 .. Len(name) /\ rfind(name, part) \in 0 .. Len(name)
<1> DEFINE found == {i \in DOMAIN name : name[i] = part}
<1>1. Len(name) \in Nat /\ DOMAIN name = 1 .. Len(name)
  OBVIOUS
<1>2. CASE found = {}
  BY <1>1, <1>2 DEF find, rfind
<1>3. CASE found # {}
  <2>1. found \in SUBSET (1 .. Len(name)) /\ found \in SUBSET Nat
    BY <1>1
  <2>2. \E i \in found : \A j \in found : i <= j
    <3> HIDE DEF found
    <3> QED
      BY <1>3, <2>1, Least
  <2>3. \E i \in found : \A j \in found : j <= i
    <3> HIDE DEF found
    <3> QED
      BY <1>1, <1>3, <2>1, Greatest
  <2>4. find(name, part) \in found
    BY <1>3, <2>2 DEF find
  <2>5. rfind(name, part) \in found
    BY <1>3, <2>3 DEF rfind
  <2> QED
    BY <2>1, <2>4, <2>5, <1>1
<1> QED
  BY <1>2, <1>3

LEMMA ResolvePrefix ==
  ASSUME NEW name \in Seq(Word), NEW prefix
  PROVE  _resolve_prefix(name, prefix) \in Seq(Word)
BY DEF _resolve_prefix, Blank

LEMMA SubSeqType ==
  ASSUME NEW name \in Seq(Word), NEW m \in Nat, NEW n \in Int, m > 0, n <= Len(name)
  PROVE  SubSeq(name, m, n) \in Seq(Word)
<1>1. \A i \in m .. n : name[i] \in Word
  BY Len(name) \in Nat
<1> QED
  BY <1>1, SubSeqProperties, m \in Int

LEMMA ServiceFromTopic ==
  ASSUME NEW name \in Seq(Word), NEW prefix, NEW suffix
  PROVE  _demangle_service_from_topic(prefix, name, suffix) \in Seq(Word)
<1> DEFINE service_name == _resolve_prefix(name, prefix)
           n == Len(service_name)
<1>1. service_name \in Seq(Word) /\ n \in Nat
  BY ResolvePrefix
<1>2. n > 0 => SubSeq(service_name, 1, n - 1) \in Seq(Word)
  <2> HIDE DEF service_name
  <2> QED
    BY <1>1, SubSeqType
<1>3. Blank \in Seq(Word)
  BY DEF Blank
<1> QED
  BY <1>1, <1>2, <1>3 DEF _demangle_service_from_topic

\* What demangling returns is a name, or nothing.
LEMMA DemangledTopics ==
  ASSUME NEW name \in Seq(Word)
  PROVE  /\ demangle_ros_topic_from_topic(name) \in Seq(Word)
         /\ demangle_service_request_from_topic(name) \in Seq(Word)
         /\ demangle_service_reply_from_topic(name) \in Seq(Word)
BY ResolvePrefix, ServiceFromTopic
   DEF demangle_ros_topic_from_topic, demangle_service_request_from_topic,
       demangle_service_reply_from_topic

LEMMA DemangledTypes ==
  ASSUME NEW type \in Seq(Word)
  PROVE  /\ demangle_if_ros_type(type) \in Seq(Word)
         /\ demangle_service_type_only(type) \in Seq(Word)
<1> DEFINE dds == find(type, "dds_::")
<1>1. Len(type) \in Nat /\ dds \in 0 .. Len(type)
  BY FindInRange
<1>2. dds # 0 => SubSeq(type, 1, dds - 1) \in Seq(Word)
  <2> HIDE DEF dds
  <2> QED
    BY <1>1, SubSeqType
<1>3. ASSUME NEW last \in Int, last <= Len(type)
      PROVE  SubSeq(type, dds + 1, last) \in Seq(Word)
  <2> HIDE DEF dds
  <2> QED
    BY <1>1, <1>3, SubSeqType
<1>4. demangle_if_ros_type(type) \in Seq(Word)
  <2>1. CASE Len(type) = 0 \/ type[Len(type)] # "_" \/ dds = 0
    BY <2>1 DEF demangle_if_ros_type
  <2>2. CASE ~(Len(type) = 0 \/ type[Len(type)] # "_" \/ dds = 0)
    <3>1. demangle_if_ros_type(type)
            = SubSeq(type, 1, dds - 1) \o SubSeq(type, dds + 1, Len(type) - 1)
      BY <2>2 DEF demangle_if_ros_type
    <3>2. SubSeq(type, dds + 1, Len(type) - 1) \in Seq(Word)
      BY <1>1, <1>3
    <3> QED
      BY <3>1, <3>2, <1>2, <2>2, ConcatProperties
  <2> QED
    BY <2>1, <2>2
<1>5. demangle_service_type_only(type) \in Seq(Word)
  <2>1. PICK suffix \in 0 .. Len(type) :
          demangle_service_type_only(type) =
            IF dds = 0 \/ suffix = 0 THEN Blank
            ELSE SubSeq(type, 1, dds - 1) \o SubSeq(type, dds + 1, suffix - 1)
    <3>1. rfind(type, "_Response") \in 0 .. Len(type) /\ rfind(type, "_Request") \in 0 .. Len(type)
      BY FindInRange
    <3> QED
      BY <3>1 DEF demangle_service_type_only
  <2>2. SubSeq(type, dds + 1, suffix - 1) \in Seq(Word)
    BY <1>1, <1>3
  <2>3. Blank \in Seq(Word)
    BY DEF Blank
  <2> HIDE DEF dds
  <2> QED
    BY <2>1, <2>2, <2>3, <1>2, ConcatProperties
<1> QED
  BY <1>4, <1>5

-----------------------------------------------------------------------------
(* Profiles and the cache.                                                 *)

\* Discovery leaves out nothing that the profile is made of.
LEMMA Profiles ==
  ASSUME NEW q \in DdsQos
  PROVE  /\ fastdds_qos_to_rmw_qos(q) \in RmwQos
         /\ writer_qos_conversion(q) \in DdsQos
         /\ reader_qos_conversion(q) \in DdsQos
         /\ fastdds_qos_to_rmw_qos(writer_qos_conversion(q)) = fastdds_qos_to_rmw_qos(q)
         /\ fastdds_qos_to_rmw_qos(reader_qos_conversion(q)) = fastdds_qos_to_rmw_qos(q)
<1>1. fastdds_qos_to_rmw_qos(q) \in RmwQos
  BY DEF fastdds_qos_to_rmw_qos, RmwQos, DdsQos
<1>2. writer_qos_conversion(q) \in DdsQos /\ reader_qos_conversion(q) \in DdsQos
  BY DEF writer_qos_conversion, reader_qos_conversion, DdsQos
<1>3. fastdds_qos_to_rmw_qos(writer_qos_conversion(q)) = fastdds_qos_to_rmw_qos(q)
  BY DEF fastdds_qos_to_rmw_qos, writer_qos_conversion, DdsQos
<1>4. fastdds_qos_to_rmw_qos(reader_qos_conversion(q)) = fastdds_qos_to_rmw_qos(q)
  BY DEF fastdds_qos_to_rmw_qos, reader_qos_conversion, DdsQos
<1> QED
  BY <1>1, <1>2, <1>3, <1>4

LEMMA CacheOfParticipants ==
  ASSUME NEW c \in Cache, NEW g \in Gids
  PROVE  /\ WithParticipant(c, g) \in Cache /\ WithoutParticipant(c, g) \in Cache
         /\ \A i \in Info : WithInfo(c, g, i) \in Cache
         /\ \A n \in NodeNames : WithNode(c, g, n) \in Cache
         /\ \A n \in NodeNames, e \in Endpoints : Associated(c, g, n, e) \in Cache
<1>1. WithParticipant(c, g) \in Cache
  BY DEF WithParticipant, Cache
<1>2. WithoutParticipant(c, g) \in Cache
  BY DEF WithoutParticipant, Cache, Info, NoNodes
<1>3. \A i \in Info : WithInfo(c, g, i) \in Cache
  BY DEF WithInfo, Cache
<1>4. c.info[g] \in Info
  BY DEF Cache
<1>5. \A n \in NodeNames : WithNode(c, g, n) \in Cache
  BY <1>3, <1>4 DEF WithNode, Info
<1>6. \A n \in NodeNames, e \in Endpoints : Associated(c, g, n, e) \in Cache
  BY <1>3, <1>4 DEF Associated, Info
<1> QED
  BY <1>1, <1>2, <1>3, <1>5, <1>6

LEMMA CacheOfEntities ==
  ASSUME NEW c \in Cache, NEW e \in Endpoints
  PROVE  /\ \A profile \in RmwQos : WithEntity(c, e, profile) \in Cache
         /\ WithoutEntity(c, e) \in Cache
BY DEF WithEntity, WithoutEntity, Cache

LEMMA EmptyIsCache == EmptyCache \in Cache
BY DEF EmptyCache, Cache, Info, NoNodes

\* The queries answer with well-formed messages about known nodes.
LEMMA Queries ==
  ASSUME NEW c \in Cache
  PROVE  /\ NodesIn(c) \subseteq NodeNames
         /\ \A n : Publishers(c, n) \subseteq EntityMessage
         /\ \A n : Subscribers(c, n) \subseteq EntityMessage
         /\ ServiceServers(c) \subseteq EntityMessage
         /\ ServiceClients(c) \subseteq EntityMessage
<1>1. NodesIn(c) \subseteq NodeNames
  BY DEF NodesIn, Cache, Info
<1>2. Recorded(c) \subseteq Endpoints /\ \A n : EndpointsOfNode(c, n) \subseteq Endpoints
  BY DEF Recorded, EndpointsOfNode
<1>3. \A e \in Endpoints : TopicName[e] \in Seq(Word) /\ TypeName[e] \in Seq(Word)
  BY AgentAssumption
<1>4. \A n : Publishers(c, n) \subseteq EntityMessage
  BY <1>2, <1>3, DemangledTopics, DemangledTypes
     DEF Publishers, NamesAndTypes, EntityTypes, EntityMessage, Names
<1>5. \A n : Subscribers(c, n) \subseteq EntityMessage
  BY <1>2, <1>3, DemangledTopics, DemangledTypes
     DEF Subscribers, NamesAndTypes, EntityTypes, EntityMessage, Names
<1>6. ServiceServers(c) \subseteq EntityMessage
  BY <1>2, <1>3, DemangledTopics, DemangledTypes
     DEF ServiceServers, NamesAndTypes, EntityTypes, EntityMessage, Names
<1>7. ServiceClients(c) \subseteq EntityMessage
  BY <1>2, <1>3, DemangledTopics, DemangledTypes
     DEF ServiceClients, NamesAndTypes, EntityTypes, EntityMessage, Names
<1> QED
  BY <1>1, <1>4, <1>5, <1>6, <1>7

-----------------------------------------------------------------------------
(* Types.                                                                  *)

OperationTypes ==
  /\ graphCache_ \in Cache /\ graph_changed_ \in BOOLEAN
  /\ micro_ros_graph_datawriters_ \subseteq MicroRos
  /\ samples \in [Gids -> Info \cup {NoSample}]
  /\ info \in Info
  /\ crashed \in BOOLEAN

LEMMA ParticipantOperations ==
  ASSUME OperationTypes, NEW g \in Gids,
         \/ g \in MicroRos /\ (\/ add_participant(g) \/ add_node(g) \/ announce(g)
                               \/ retract(g) \/ write_info(g))
         \/ remove_participant(g)
         \/ discovered_participant(g)
  PROVE  OperationTypes'
<1> USE DEF OperationTypes
<1>1. CASE g \in MicroRos /\ add_participant(g)
  BY <1>1, CacheOfParticipants DEF add_participant, Change, agent_side
<1>2. CASE g \in MicroRos /\ add_node(g)
  <2>1. WithNode(graphCache_, g, NodeOf(g)) \in Cache
    BY <1>2, CacheOfParticipants, AgentAssumption
  <2>2. WithNode(graphCache_, g, NodeOf(g)).info[g] \in Info
    BY <2>1 DEF Cache
  <2> QED
    BY <1>2, <2>1, <2>2 DEF add_node, Change
<1>3. CASE g \in MicroRos /\ (announce(g) \/ write_info(g))
  <2>1. NoNodes \in Info
    BY DEF NoNodes, Info
  <2> QED
    BY <1>3, <2>1 DEF announce, write_info, agent_side
<1>4. CASE g \in MicroRos /\ retract(g)
  <2>1. NoNodes \in Info
    BY DEF NoNodes, Info
  <2> QED
    BY <1>4, <2>1 DEF retract, agent_side
<1>5. CASE remove_participant(g)
  BY <1>5, CacheOfParticipants DEF remove_participant, ChangeIfAny, agent_side
<1>6. CASE discovered_participant(g)
  BY <1>6, CacheOfParticipants DEF discovered_participant, Change, agent_side
<1> QED
  BY <1>1, <1>2, <1>3, <1>4, <1>5, <1>6

LEMMA EntityOperations ==
  ASSUME OperationTypes, NEW e \in Endpoints,
         \/ add_entity(e, EntityQos[e]) \/ discovered_endpoint(e)
         \/ remove_entity(e)
         \/ OwnerOf[e] \in MicroRos /\ associate_entity(e)
  PROVE  OperationTypes'
<1> USE DEF OperationTypes
<1>1. EntityQos[e] \in DdsQos /\ OwnerOf[e] \in Gids
  BY ManagerAssumption
<1>2. ASSUME NEW q \in DdsQos, add_entity(e, q) PROVE OperationTypes'
  BY <1>2, Profiles, CacheOfEntities DEF add_entity, ChangeIfAny, agent_side
<1>3. CASE discovered_endpoint(e)
  BY <1>1, <1>2, <1>3, Profiles DEF discovered_endpoint
<1>4. CASE remove_entity(e)
  BY <1>4, CacheOfEntities DEF remove_entity, ChangeIfAny, agent_side
<1>5. CASE OwnerOf[e] \in MicroRos /\ associate_entity(e)
  <2> DEFINE p == OwnerOf[e]
             c == Associated(graphCache_, p, NodeOf(p), e)
  <2>1. c \in Cache
    BY <1>1, <1>5, CacheOfParticipants, AgentAssumption
  <2>2. c.info[p] \in Info
    BY <2>1, <1>1 DEF Cache
  <2> QED
    BY <1>5, <2>1, <2>2 DEF associate_entity, Change, agent_side
<1> QED
  BY <1>1, <1>2, <1>3, <1>4, <1>5

\* Every call of a callback is one of the operations above, or frees the entity.
LEMMA PerformTypes ==
  ASSUME OperationTypes, NEW call \in Calls, Perform(call.op, call.on)
  PROVE  OperationTypes'
<1> DEFINE x == call.on
<1>1. CASE call \in [op : ManagerCalls, on : MicroRos]
  <2>1. x \in MicroRos /\ x \in Gids
    BY <1>1, ManagerAssumption
  <2>2. \/ add_participant(x) \/ add_node(x) \/ announce(x) \/ remove_participant(x)
        \/ retract(x)
    BY <1>1 DEF Perform, ManagerCalls
  <2> HIDE DEF x
  <2> QED
    BY <2>1, <2>2, ParticipantOperations
<1>2. CASE call \in [op : EntityCalls, on : OwnEndpoints]
  <2>1. x \in Endpoints /\ OwnerOf[x] \in MicroRos /\ OwnerOf[x] \in Gids
    BY <1>2, ManagerAssumption DEF OwnEndpoints
  <2>2. \/ add_entity(x, EntityQos[x]) \/ associate_entity(x) \/ write_info(OwnerOf[x])
        \/ remove_entity(x)
    BY <1>2 DEF Perform, EntityCalls
  <2> HIDE DEF x
  <2> QED
    BY <2>1, <2>2, EntityOperations, ParticipantOperations
<1>3. CASE call \in [op : {"destroy"}, on : Things]
  <2>1. UNCHANGED <<graphCache_, graph_changed_, agent_side, crashed>>
    BY <1>3 DEF Perform
  <2> QED
    BY <2>1 DEF OperationTypes, agent_side
<1> QED
  BY <1>1, <1>2, <1>3 DEF Calls

\* A callback either adds endpoints that now exist or adds none.
AdditionCalls == {"add_entity", "associate", "write"}
Additions(xs) == [op : AdditionCalls, on : xs \cap OwnEndpoints]
OtherCalls == {call \in Calls : call.op \notin AdditionCalls}
CallbackOf(xs) == Seq(Additions(xs)) \cup Seq(OtherCalls)

LEMMA AdditionsAreCalls == \A xs : Additions(xs) \subseteq Calls
BY DEF Additions, AdditionCalls, Calls, EntityCalls

LEMMA CallbacksAreCalls == \A xs : CallbackOf(xs) \subseteq Seq(Calls)
<1>1. OtherCalls \subseteq Calls
  BY DEF OtherCalls
<1>2. ASSUME NEW xs PROVE Seq(Additions(xs)) \subseteq Seq(Calls)
  BY AdditionsAreCalls, SeqMonotonic
<1>3. Seq(OtherCalls) \subseteq Seq(Calls)
  BY <1>1, SeqMonotonic
<1> QED
  BY <1>2, <1>3 DEF CallbackOf

LEMMA PartsOfObject ==
  ASSUME NEW o \in Objects
  PROVE  /\ PartsOf(o) \subseteq OwnEndpoints
         /\ Parts[o][1] \in PartsOf(o)
         /\ Len(Parts[o]) # 1 => Parts[o][2] \in PartsOf(o)
<1>1. Parts[o] \in Seq(Endpoints) /\ Len(Parts[o]) \in {1, 2}
  BY AgentAssumption
<1>2. DOMAIN Parts[o] = 1 .. Len(Parts[o])
  BY <1>1
<1>3. \A i \in DOMAIN Parts[o] : Parts[o][i] \in Endpoints
  BY <1>1
<1>4. PartsOf(o) \subseteq OwnEndpoints
  <2>1. \A e \in PartsOf(o) : OwnerOf[e] \in MicroRos
    BY AgentAssumption
  <2>2. PartsOf(o) \subseteq Endpoints
    BY <1>3 DEF PartsOf
  <2> QED
    BY <2>1, <2>2 DEF OwnEndpoints
<1>5. 1 \in DOMAIN Parts[o] /\ (Len(Parts[o]) # 1 => 2 \in DOMAIN Parts[o])
  BY <1>1, <1>2
<1>6. \A i \in DOMAIN Parts[o] : Parts[o][i] \in PartsOf(o)
  BY DEF PartsOf
<1> QED
  BY <1>4, <1>5, <1>6

LEMMA AddingParts ==
  ASSUME NEW o \in Objects
  PROVE  ForParts(o, Adding) \in Seq(Additions(PartsOf(o)))
<1> DEFINE A == Additions(PartsOf(o))
<1>1. \A e \in PartsOf(o) : Adding(e) \in Seq(A)
  <2> SUFFICES ASSUME NEW e \in PartsOf(o) PROVE Adding(e) \in Seq(A)
    OBVIOUS
  <2>1. e \in PartsOf(o) \cap OwnEndpoints
    BY PartsOfObject
  <2>2. Call("add_entity", e) \in A /\ Call("associate", e) \in A /\ Call("write", e) \in A
    BY <2>1 DEF Additions, AdditionCalls, Call
  <2> HIDE DEF A
  <2> QED
    BY <2>2 DEF Adding
<1>2. ForParts(o, Adding) = IF Len(Parts[o]) = 1 THEN Adding(Parts[o][1])
                            ELSE Adding(Parts[o][1]) \o Adding(Parts[o][2])
  BY DEF ForParts
<1> HIDE DEF A
<1>3. ForParts(o, Adding) \in Seq(A)
  BY <1>1, <1>2, PartsOfObject, ConcatProperties
<1> QED
  BY <1>3 DEF A

DeletionCalls(xs) == [op : {"remove_entity", "destroy"}, on : xs]

LEMMA RemovingParts ==
  ASSUME NEW o \in Objects
  PROVE  RemovingAll(o) \in Seq(DeletionCalls(PartsOf(o))) \cap Seq(OtherCalls)
<1> DEFINE R == DeletionCalls(PartsOf(o))
<1>1. \A e \in PartsOf(o) : Removing(e) \in Seq(R) /\ Destroying(e) \in Seq(R)
  <2> SUFFICES ASSUME NEW e \in PartsOf(o)
               PROVE  Removing(e) \in Seq(R) /\ Destroying(e) \in Seq(R)
    OBVIOUS
  <2>1. Call("remove_entity", e) \in R /\ Call("destroy", e) \in R
    BY DEF DeletionCalls, Call
  <2> HIDE DEF R
  <2> QED
    BY <2>1 DEF Removing, Destroying
<1>2. /\ ForParts(o, Removing) = IF Len(Parts[o]) = 1 THEN Removing(Parts[o][1])
                                 ELSE Removing(Parts[o][1]) \o Removing(Parts[o][2])
      /\ ForParts(o, Destroying) = IF Len(Parts[o]) = 1 THEN Destroying(Parts[o][1])
                                   ELSE Destroying(Parts[o][1]) \o Destroying(Parts[o][2])
  BY DEF ForParts
<1>3. \A call \in R : call \in OtherCalls
  <2>1. \A e \in PartsOf(o) : e \in OwnEndpoints /\ e \in Things
    BY PartsOfObject DEF OwnEndpoints, Things
  <2> QED
    BY <2>1 DEF DeletionCalls, OtherCalls, AdditionCalls, Calls, EntityCalls
<1> HIDE DEF R
<1>4. ForParts(o, Removing) \in Seq(R) /\ ForParts(o, Destroying) \in Seq(R)
  BY <1>1, <1>2, PartsOfObject, ConcatProperties
<1>5. RemovingAll(o) \in Seq(R)
  BY <1>4, ConcatProperties DEF RemovingAll
<1>6. RemovingAll(o) \in Seq(OtherCalls)
  BY <1>3, <1>5
<1> QED
  BY <1>5, <1>6 DEF R

LEMMA CallbackBegins ==
  ASSUME Callback
  PROVE  \E xs \in SUBSET Things, from \in {"new", "alive"} :
           \E callback \in CallbackOf(xs) : Begin(xs, from, "alive", callback)
<1>1. CASE \E o \in Objects : on_create(o)
  <2>1. PICK o \in Objects : on_create(o)
    BY <1>1
  <2>2. Begin(PartsOf(o), "new", "alive", ForParts(o, Adding))
    BY <2>1 DEF on_create
  <2>3. PartsOf(o) \in SUBSET Things /\ ForParts(o, Adding) \in CallbackOf(PartsOf(o))
    BY PartsOfObject, AddingParts DEF CallbackOf, OwnEndpoints, Things
  <2> QED
    BY <2>2, <2>3
<1>2. CASE \E o \in Objects : on_delete(o)
  <2>1. PICK o \in Objects : on_delete(o)
    BY <1>2
  <2>2. Begin(PartsOf(o), "alive", "alive", RemovingAll(o))
    BY <2>1 DEF on_delete
  <2>3. PartsOf(o) \in SUBSET Things /\ RemovingAll(o) \in CallbackOf(PartsOf(o))
    BY PartsOfObject, RemovingParts DEF CallbackOf, OwnEndpoints, Things
  <2> QED
    BY <2>2, <2>3
<1>3. ASSUME NEW p \in MicroRos,
             on_create_participant(p) \/ on_delete_participant(p)
      PROVE  \E xs \in SUBSET Things, from \in {"new", "alive"} :
               \E callback \in CallbackOf(xs) : Begin(xs, from, "alive", callback)
  <2>1. {p} \in SUBSET Things
    BY <1>3, ManagerAssumption DEF Things
  <2>2. /\ \A op \in ManagerCalls : Call(op, p) \in OtherCalls
        /\ Call("destroy", p) \in OtherCalls
    BY <2>1 DEF OtherCalls, AdditionCalls, Calls, ManagerCalls, Call
  <2> DEFINE brief == <<Call("add_participant", p)>>
             create == <<Call("add_participant", p), Call("add_node", p), Call("announce", p)>>
             delete == <<Call("remove_participant", p), Call("retract", p), Call("destroy", p)>>
  <2>3. brief \in Seq(OtherCalls) /\ create \in Seq(OtherCalls) /\ delete \in Seq(OtherCalls)
    BY <2>2 DEF ManagerCalls
  <2>4. \/ Begin({p}, "new", "alive", brief) \/ Begin({p}, "new", "alive", create)
        \/ Begin({p}, "alive", "alive", delete)
    BY <1>3 DEF on_create_participant, on_delete_participant
  <2> HIDE DEF brief, create, delete
  <2> QED
    BY <2>1, <2>3, <2>4 DEF CallbackOf
<1> QED
  BY <1>1, <1>2, <1>3 DEF Callback

PublisherTypes ==
  /\ publisher \in PublisherPC
  /\ node_names \subseteq NodeNames
  /\ node_message \in NodeMessage \cup {NoNode}
  /\ publisher \in {"readers", "servers", "clients"} => node_message \in NodeMessage
  /\ graph_message \subseteq NodeMessage /\ published \subseteq NodeMessage

HeldTypes == held \in [gid : Gids, info : Info] \cup {NoSample}
CallTypes == calls \in Seq(Calls)
LifeTypes == /\ life \in [Things -> {"new", "alive", "dead"}]
             /\ told \in [Things -> {"no", "up", "down"}]

LEMMA TypeParts ==
  /\ TypeOK <=> OperationTypes /\ PublisherTypes /\ HeldTypes /\ CallTypes /\ LifeTypes
  /\ TypeOK' <=> OperationTypes' /\ PublisherTypes' /\ HeldTypes' /\ CallTypes' /\ LifeTypes'
BY DEF TypeOK, OperationTypes, PublisherTypes, HeldTypes, CallTypes, LifeTypes

LEMMA InitTypes == Init => TypeOK
<1> SUFFICES ASSUME Init PROVE TypeOK
  OBVIOUS
<1>1. NoNodes \in Info
  BY DEF NoNodes, Info
<1>2. OperationTypes
  <2>1. graph_changed_ \in BOOLEAN /\ crashed \in BOOLEAN
    BY DEF Init, ManagerInit
  <2> QED
    BY <2>1, <1>1, EmptyIsCache DEF Init, ManagerInit, OperationTypes
<1>3. PublisherTypes /\ HeldTypes /\ CallTypes /\ LifeTypes
  BY DEF Init, ManagerInit, PublisherTypes, PublisherPC, HeldTypes, CallTypes, LifeTypes
<1> QED
  BY <1>2, <1>3, TypeParts

\* The publisher thread writes its own variables and the flag.
LEMMA PublisherStepTypes ==
  ASSUME TypeOK, publish_microros_graph
  PROVE  OperationTypes' /\ PublisherTypes' /\ HeldTypes'
<1>1. OperationTypes /\ PublisherTypes /\ HeldTypes
  BY TypeParts
<1>2. /\ UNCHANGED <<graphCache_, agent_side, held, crashed>>
      /\ graph_changed_' = graph_changed_ \/ graph_changed_' = FALSE
  BY DEF publish_microros_graph, publisher_only, wait_graph_changed, get_node_names,
         get_writer_names, get_reader_names, get_service_servers, get_service_clients,
         write_graph, FlagAfterWrite
<1>3. OperationTypes' /\ HeldTypes'
  <2>1. graph_changed_' \in BOOLEAN
    BY <1>1, <1>2 DEF OperationTypes
  <2> QED
    BY <1>1, <1>2, <2>1 DEF OperationTypes, HeldTypes, agent_side
<1>4. graphCache_ \in Cache
  BY <1>1 DEF OperationTypes
<1>5. PublisherTypes'
  <2> USE <1>1 DEF PublisherTypes, PublisherPC
  <2>1. CASE wait_graph_changed \/ write_graph
    BY <2>1 DEF wait_graph_changed, write_graph
  <2>2. CASE get_node_names
    BY <2>2, <1>4, Queries DEF get_node_names
  <2>3. CASE get_writer_names
    <3>1. PICK n \in node_names :
            IF n \in NodesIn(graphCache_)
            THEN /\ node_names' = node_names \ {n}
                 /\ node_message' = [node |-> n, entities |-> Publishers(graphCache_, n)]
                 /\ publisher' = "readers"
            ELSE NodeGone /\ UNCHANGED node_names
      BY <2>3 DEF get_writer_names
    <3>2. [node |-> n, entities |-> Publishers(graphCache_, n)] \in NodeMessage
      BY <1>4, Queries DEF NodeMessage
    <3> QED
      BY <2>3, <3>1, <3>2 DEF get_writer_names, NodeGone
  <2>4. CASE get_reader_names
    <3>1. node_message \in NodeMessage
      BY <2>4 DEF get_reader_names
    <3>2. [node_message EXCEPT !.entities = @ \cup Subscribers(graphCache_, node_message.node)]
            \in NodeMessage
      BY <3>1, <1>4, Queries DEF NodeMessage
    <3> QED
      BY <2>4, <3>2 DEF get_reader_names, NodeGone
  <2>5. CASE get_service_servers
    <3>1. node_message \in NodeMessage
      BY <2>5 DEF get_service_servers
    <3>2. [node_message EXCEPT !.entities = @ \cup ServiceServers(graphCache_)] \in NodeMessage
      BY <3>1, <1>4, Queries DEF NodeMessage
    <3> QED
      BY <2>5, <3>2 DEF get_service_servers
  <2>6. CASE get_service_clients
    <3>1. node_message \in NodeMessage
      BY <2>6 DEF get_service_clients
    <3>2. [node_message EXCEPT !.entities = @ \cup ServiceClients(graphCache_)] \in NodeMessage
      BY <3>1, <1>4, Queries DEF NodeMessage
    <3> QED
      BY <2>6, <3>2 DEF get_service_clients
  <2> QED
    BY <2>1, <2>2, <2>3, <2>4, <2>5, <2>6 DEF publish_microros_graph
<1> QED
  BY <1>3, <1>5

LEMMA NextTypes == TypeOK /\ [Next]_vars => TypeOK'
<1> SUFFICES ASSUME TypeOK, [Next]_vars PROVE TypeOK'
  OBVIOUS
<1>0. OperationTypes /\ PublisherTypes /\ HeldTypes /\ CallTypes /\ LifeTypes
  BY TypeParts
<1>1. CASE Callback
  <2>1. PICK xs \in SUBSET Things, from \in {"new", "alive"} :
          \E callback \in CallbackOf(xs) : Begin(xs, from, "alive", callback)
    BY <1>1, CallbackBegins
  <2>2. PICK callback \in CallbackOf(xs) : Begin(xs, from, "alive", callback)
    BY <2>1
  <2>3. CallTypes'
    BY <2>2, CallbacksAreCalls DEF Begin, CallTypes
  <2>4. LifeTypes'
    BY <1>0, <2>2 DEF Begin, LifeTypes
  <2>5. OperationTypes' /\ PublisherTypes' /\ HeldTypes'
    BY <1>0, <2>2 DEF Begin, manager_vars, agent_side, publisher_side,
       OperationTypes, PublisherTypes, HeldTypes
  <2> QED
    BY <2>3, <2>4, <2>5, TypeParts
<1>2. CASE CallNext
  <2> DEFINE call == Head(calls)
  <2>1. call \in Calls /\ Tail(calls) \in Seq(Calls)
    BY <1>0, <1>2 DEF CallTypes, CallNext
  <2>2. Perform(call.op, call.on)
    BY <1>2 DEF CallNext
  <2>3. OperationTypes'
    <3> HIDE DEF call
    <3> QED
      BY <1>0, <2>1, <2>2, PerformTypes
  <2>4. CallTypes'
    BY <1>0, <1>2, <2>1 DEF CallNext, CallTypes
  <2>5. call.op = "destroy" => call.on \in Things
    BY <2>1 DEF Calls, ManagerCalls, EntityCalls
  <2>6. LifeTypes'
    BY <1>0, <1>2, <2>5 DEF CallNext, LifeTypes
  <2>7. PublisherTypes' /\ HeldTypes'
    BY <1>0, <1>2 DEF CallNext, publisher_side, PublisherTypes, HeldTypes
  <2> QED
    BY <2>3, <2>4, <2>6, <2>7, TypeParts
<1>3. CASE Listener
  <2>1. OperationTypes' /\ HeldTypes'
    <3>1. CASE \E g \in Gids : take_next_sample(g)
      BY <1>0, <3>1 DEF take_next_sample, OperationTypes, HeldTypes
    <3>2. CASE \E g \in Gids : sample_replaced(g)
      BY <1>0, <3>2 DEF sample_replaced, OperationTypes, HeldTypes
    <3>3. CASE update_participant_entities
      <4>1. held.gid \in Gids /\ held.info \in Info
        BY <1>0, <3>3 DEF HeldTypes, update_participant_entities
      <4>2. WithInfo(graphCache_, held.gid, held.info) \in Cache
        BY <1>0, <4>1, CacheOfParticipants DEF OperationTypes
      <4> QED
        BY <1>0, <3>3, <4>2 DEF update_participant_entities, Change, agent_side,
           OperationTypes, HeldTypes
    <3> QED
      BY <1>3, <3>1, <3>2, <3>3 DEF Listener
  <2>2. PublisherTypes' /\ CallTypes' /\ LifeTypes'
    BY <1>0, <1>3 DEF Listener, take_next_sample, sample_replaced,
       update_participant_entities, publisher_side, PublisherTypes, CallTypes, LifeTypes
  <2> QED
    BY <2>1, <2>2, TypeParts
<1>4. CASE Publisher
  <2>1. OperationTypes' /\ PublisherTypes' /\ HeldTypes'
    BY <1>4, PublisherStepTypes DEF Publisher
  <2>2. CallTypes' /\ LifeTypes'
    BY <1>0, <1>4 DEF Publisher, CallTypes, LifeTypes
  <2> QED
    BY <2>1, <2>2, TypeParts
<1>5. ASSUME NEW x \in Things, Discovered(x) \/ Removed(x) PROVE TypeOK'
  <2>1. \/ x \in Gids /\ (discovered_participant(x) \/ remove_participant(x))
        \/ x \in Endpoints /\ (discovered_endpoint(x) \/ remove_entity(x))
    BY <1>5 DEF Discovered, Removed, removed_participant, removed_endpoint, Things
  <2>2. OperationTypes'
    BY <1>0, <2>1, ParticipantOperations, EntityOperations
  <2>3. PublisherTypes' /\ HeldTypes' /\ CallTypes' /\ LifeTypes'
    BY <1>0, <1>5 DEF Discovered, Removed, publisher_side, PublisherTypes, HeldTypes,
       CallTypes, LifeTypes
  <2> QED
    BY <2>2, <2>3, TypeParts
<1>6. ASSUME NEW g \in Others, Join(g) \/ Leave(g) PROVE TypeOK'
  <2>1. RemoteInfo[g] \in Info
    BY AgentAssumption
  <2>2. OperationTypes'
    BY <1>0, <1>6, <2>1 DEF Join, Leave, OperationTypes
  <2>3. LifeTypes'
    BY <1>0, <1>6 DEF Join, Leave, LifeTypes
  <2>4. PublisherTypes' /\ HeldTypes' /\ CallTypes'
    BY <1>0, <1>6 DEF Join, Leave, publisher_side, PublisherTypes, HeldTypes, CallTypes
  <2> QED
    BY <2>2, <2>3, <2>4, TypeParts
<1>7. CASE UNCHANGED vars
  BY <1>0, <1>7, TypeParts DEF vars, manager_vars, agent_side, publisher_side,
     OperationTypes, PublisherTypes, HeldTypes, CallTypes, LifeTypes
<1> QED
  BY <1>1, <1>2, <1>3, <1>4, <1>5, <1>6, <1>7 DEF Next

\* The state of the agent, of its graph manager and of the domain is well typed:
\* names that have been demangled are names, a partial message is a message.
THEOREM TypeCorrect == Spec => []TypeOK
BY InitTypes, NextTypes, PTL DEF Spec

-----------------------------------------------------------------------------
(* The publisher sleeps only when micro-ROS is told the graph as it is.    *)
(* While the flag is clear the cache is as it was when it was cleared, so  *)
(* what the pass has put together so far is part of the graph.             *)

Entry(c, n) == [node |-> n, entities |-> AllEntities(c, n)]

\* The graph message has the nodes that are neither to come nor under way.
DoneButFor(current) ==
  /\ node_names \subseteq NodesIn(graphCache_) \ current
  /\ current \subseteq NodesIn(graphCache_)
  /\ graph_message = {Entry(graphCache_, n) :
                        n \in NodesIn(graphCache_) \ (node_names \cup current)}

\* The message of the node under way has the answers to the queries made.
PartOf(entities) ==
  /\ DoneButFor({node_message.node})
  /\ node_message = [node |-> node_message.node, entities |-> entities]

PassIsCurrent ==
  LET c == graphCache_
      n == node_message.node
  IN /\ publisher = "waiting" => published = Graph(c)
     /\ publisher = "writers" => DoneButFor({})
     /\ publisher = "readers" => PartOf(Publishers(c, n))
     /\ publisher = "servers" => PartOf(Publishers(c, n) \cup Subscribers(c, n))
     /\ publisher = "clients" =>
          PartOf(Publishers(c, n) \cup Subscribers(c, n) \cup ServiceServers(c))
     /\ publisher # "write"

PublisherInv == ~graph_changed_ => PassIsCurrent

LEMMA InitPublisher == Init => PublisherInv
<1> SUFFICES ASSUME Init PROVE PassIsCurrent
  BY DEF PublisherInv
<1>1. publisher = "waiting" /\ published = {} /\ graphCache_ = EmptyCache
  BY DEF Init, ManagerInit
<1>2. NodesIn(EmptyCache) = {}
  BY DEF NodesIn, EmptyCache, NoNodes
<1> QED
  BY <1>1, <1>2 DEF PassIsCurrent, Graph

\* All others leave the flag set if they change the cache.
LEMMA OthersRaiseFlag ==
  ASSUME TypeOK, [Next]_vars, ~Publisher
  PROVE  /\ UNCHANGED publisher_side
         /\ ~graph_changed_' => UNCHANGED graphCache_ /\ ~graph_changed_
<1>0. graph_changed_ \in BOOLEAN
  BY DEF TypeOK
<1> DEFINE Safe == ~graph_changed_' => UNCHANGED graphCache_ /\ ~graph_changed_
<1>1. ASSUME NEW c, Change(c) \/ ChangeIfAny(c) PROVE Safe
  BY <1>0, <1>1 DEF Change, ChangeIfAny
<1>2. ASSUME UNCHANGED <<graphCache_, graph_changed_>> PROVE Safe
  BY <1>2
<1>3. ASSUME NEW g, \/ add_participant(g) \/ add_node(g) \/ announce(g)
                    \/ remove_participant(g) \/ retract(g) \/ write_info(g)
                    \/ discovered_participant(g)
      PROVE  Safe
  BY <1>1, <1>2, <1>3 DEF add_participant, add_node, announce, remove_participant,
     retract, write_info, discovered_participant
<1>4. ASSUME NEW e, NEW q, add_entity(e, q) \/ remove_entity(e) \/ associate_entity(e)
      PROVE  Safe
  BY <1>1, <1>2, <1>4 DEF add_entity, remove_entity, associate_entity
<1>5. CASE Callback
  <2>1. PICK xs \in SUBSET Things, from \in {"new", "alive"} :
          \E callback \in CallbackOf(xs) : Begin(xs, from, "alive", callback)
    BY <1>5, CallbackBegins
  <2> QED
    BY <2>1, <1>2 DEF Begin, manager_vars
<1>6. CASE CallNext
  <2> DEFINE call == Head(calls)
  <2>1. call \in Calls
    BY <1>6 DEF CallNext, TypeOK
  <2>2. Perform(call.op, call.on)
    BY <1>6 DEF CallNext
  <2>3. call.op \in ManagerCalls \cup EntityCalls \cup {"destroy"}
    BY <2>1 DEF Calls
  <2>4. Safe
    <3> HIDE DEF call, Safe
    <3>1. CASE call.op \in ManagerCalls
      BY <2>2, <3>1, <1>3 DEF Perform, ManagerCalls
    <3>2. CASE call.op \in EntityCalls
      BY <2>2, <3>2, <1>3, <1>4 DEF Perform, EntityCalls
    <3>3. CASE call.op = "destroy"
      <4>1. UNCHANGED <<graphCache_, graph_changed_>>
        BY <2>2, <3>3 DEF Perform
      <4> QED
        BY <4>1, <1>2
    <3> QED
      BY <2>3, <3>1, <3>2, <3>3
  <2> QED
    BY <2>4, <1>6 DEF CallNext
<1>7. CASE Listener
  <2>1. CASE \E g \in Gids : take_next_sample(g) \/ sample_replaced(g)
    BY <2>1, <1>2 DEF take_next_sample, sample_replaced
  <2>2. CASE update_participant_entities
    BY <2>2, <1>1 DEF update_participant_entities
  <2> QED
    BY <1>7, <2>1, <2>2 DEF Listener
<1>8. ASSUME NEW x \in Things, Discovered(x) \/ Removed(x) PROVE Safe /\ UNCHANGED publisher_side
  <2>1. \/ discovered_participant(x) \/ remove_participant(x)
        \/ (\E q : add_entity(x, q)) \/ remove_entity(x)
    BY <1>8 DEF Discovered, Removed, removed_participant, removed_endpoint, discovered_endpoint
  <2>2. Safe
    <3> HIDE DEF Safe
    <3> QED
      BY <2>1, <1>3, <1>4
  <2> QED
    BY <2>2, <1>8 DEF Discovered, Removed
<1>9. ASSUME NEW g \in Others, Join(g) \/ Leave(g) PROVE Safe /\ UNCHANGED publisher_side
  BY <1>9, <1>2 DEF Join, Leave
<1>10. CASE UNCHANGED vars
  BY <1>10, <1>2 DEF vars, manager_vars
<1> QED
  BY <1>5, <1>6, <1>7, <1>8, <1>9, <1>10 DEF Next

LEMMA NextPublisher == TypeOK /\ PublisherInv /\ [Next]_vars => PublisherInv'
<1> SUFFICES ASSUME TypeOK, PublisherInv, [Next]_vars, ~graph_changed_' PROVE PassIsCurrent'
  BY DEF PublisherInv
<1> DEFINE c == graphCache_
           n == node_message.node
<1>1. CASE ~Publisher
  <2>1. UNCHANGED <<publisher_side, graphCache_>> /\ PassIsCurrent
    BY <1>1, OthersRaiseFlag DEF PublisherInv
  <2> QED
    BY <2>1 DEF PassIsCurrent, PartOf, DoneButFor, publisher_side
<1>2. CASE Publisher
  <2>0. graphCache_' = graphCache_
    BY <1>2 DEF Publisher, publish_microros_graph, publisher_only, wait_graph_changed,
       get_node_names, get_writer_names, get_reader_names, get_service_servers,
       get_service_clients, write_graph
  <2>1. CASE wait_graph_changed
    BY <2>1 DEF wait_graph_changed, PassIsCurrent
  <2>2. CASE get_node_names
    <3>1. DoneButFor({})'
      BY <2>0, <2>2 DEF get_node_names, DoneButFor
    <3> QED
      BY <2>2, <3>1 DEF get_node_names, PassIsCurrent
  <2>3. CASE get_writer_names
    <3>1. DoneButFor({})
      BY <2>3 DEF get_writer_names, PublisherInv, PassIsCurrent
    <3>2. PICK m \in node_names :
            IF m \in NodesIn(c)
            THEN /\ node_names' = node_names \ {m}
                 /\ node_message' = [node |-> m, entities |-> Publishers(c, m)]
                 /\ publisher' = "readers"
            ELSE NodeGone /\ UNCHANGED node_names
      BY <2>3 DEF get_writer_names
    <3>3. /\ node_names' = node_names \ {m} /\ publisher' = "readers"
          /\ node_message' = [node |-> m, entities |-> Publishers(c, m)]
          /\ m \in NodesIn(c)
      BY <3>1, <3>2 DEF DoneButFor
    <3>4. node_message'.node = m
      BY <3>3
    <3>5. UNCHANGED graph_message
      BY <2>3 DEF get_writer_names
    <3>6. NodesIn(c) \ (node_names \cup {}) = NodesIn(c) \ (node_names' \cup {m})
      BY <3>3
    <3>7. PartOf(Publishers(c, node_message.node))'
      BY <2>0, <3>1, <3>3, <3>4, <3>5, <3>6 DEF PartOf, DoneButFor
    <3> QED
      BY <2>0, <3>3, <3>7 DEF PassIsCurrent
  <2>4. CASE get_reader_names
    <3>1. PartOf(Publishers(c, n))
      BY <2>4 DEF get_reader_names, PublisherInv, PassIsCurrent
    <3>2. n \in NodesIn(c)
      BY <3>1 DEF PartOf, DoneButFor
    <3>3. /\ node_message' = [node_message EXCEPT !.entities = @ \cup Subscribers(c, n)]
          /\ publisher' = "servers" /\ UNCHANGED <<node_names, graph_message>>
      BY <2>4, <3>2 DEF get_reader_names
    <3>4. /\ node_message' = [node |-> n, entities |-> Publishers(c, n) \cup Subscribers(c, n)]
          /\ node_message'.node = n
      BY <3>1, <3>3 DEF PartOf
    <3>5. PartOf(Publishers(c, node_message.node) \cup Subscribers(c, node_message.node))'
      BY <2>0, <3>1, <3>3, <3>4 DEF PartOf, DoneButFor
    <3> QED
      BY <2>0, <3>3, <3>5 DEF PassIsCurrent
  <2>5. CASE get_service_servers
    <3>1. PartOf(Publishers(c, n) \cup Subscribers(c, n))
      BY <2>5 DEF get_service_servers, PublisherInv, PassIsCurrent
    <3>2. /\ node_message' = [node_message EXCEPT !.entities = @ \cup ServiceServers(c)]
          /\ publisher' = "clients" /\ UNCHANGED <<node_names, graph_message>>
      BY <2>5 DEF get_service_servers
    <3>3. /\ node_message' = [node |-> n, entities |->
                               Publishers(c, n) \cup Subscribers(c, n) \cup ServiceServers(c)]
          /\ node_message'.node = n
      BY <3>1, <3>2 DEF PartOf
    <3>4. PartOf(Publishers(c, node_message.node) \cup Subscribers(c, node_message.node)
                   \cup ServiceServers(c))'
      BY <2>0, <3>1, <3>2, <3>3 DEF PartOf, DoneButFor
    <3> QED
      BY <2>0, <3>2, <3>4 DEF PassIsCurrent
  <2>6. CASE get_service_clients
    <3>1. PartOf(Publishers(c, n) \cup Subscribers(c, n) \cup ServiceServers(c))
      BY <2>6 DEF get_service_clients, PublisherInv, PassIsCurrent
    <3>2. /\ graph_message' = graph_message \cup
               {[node_message EXCEPT !.entities = @ \cup ServiceClients(c)]}
          /\ publisher' = "writers" /\ UNCHANGED node_names
      BY <2>6 DEF get_service_clients
    <3>3. [node_message EXCEPT !.entities = @ \cup ServiceClients(c)] = Entry(c, n)
      BY <3>1 DEF PartOf, Entry, AllEntities
    <3>4. DoneButFor({n})
      BY <3>1 DEF PartOf
    <3>5. /\ node_names' \subseteq NodesIn(c) \ {}
          /\ graph_message' = {Entry(c, m) : m \in NodesIn(c) \ (node_names' \cup {})}
      <4>1. NodesIn(c) \ node_names' = (NodesIn(c) \ (node_names \cup {n})) \cup {n}
        BY <3>2, <3>4 DEF DoneButFor
      <4>2. graph_message' = {Entry(c, m) : m \in NodesIn(c) \ (node_names \cup {n})}
                               \cup {Entry(c, n)}
        BY <3>2, <3>3, <3>4 DEF DoneButFor
      <4> QED
        BY <3>2, <3>4, <4>1, <4>2 DEF DoneButFor
    <3>6. DoneButFor({})'
      BY <2>0, <3>5 DEF DoneButFor
    <3> QED
      BY <2>0, <3>2, <3>6 DEF PassIsCurrent
  <2>7. CASE write_graph
    <3>1. publisher = "writers" /\ node_names = {} /\ DoneButFor({})
      BY <2>7 DEF write_graph, FlagAfterWrite, PublisherInv, PassIsCurrent
    <3>2. graph_message = Graph(c)
      BY <3>1 DEF DoneButFor, Graph, Entry
    <3> QED
      BY <2>0, <2>7, <3>2 DEF write_graph, PassIsCurrent
  <2> QED
    BY <1>2, <2>1, <2>2, <2>3, <2>4, <2>5, <2>6, <2>7 DEF Publisher, publish_microros_graph
<1> QED
  BY <1>1, <1>2

\* However many critical sections a pass takes and whatever happens between them,
\* the publisher never waits for a change while micro-ROS has an older graph.
THEOREM PublisherNeverSleepsOnAChange == Spec => []SleepsOnlyWhenCurrent
<1>1. PublisherInv => SleepsOnlyWhenCurrent
  BY DEF PublisherInv, PassIsCurrent, SleepsOnlyWhenCurrent
<1> QED
  BY <1>1, InitTypes, NextTypes, InitPublisher, NextPublisher, PTL DEF Spec

-----------------------------------------------------------------------------
(* What the cache records about endpoints.                                 *)

\* An endpoint enters the record by its own callback or by discovery, with its
\* profile, and leaves it by its own callback or by discovery.
LEMMA EntityEffect ==
  ASSUME TypeOK, [Next]_vars, NEW e \in Endpoints
  PROVE  \/ graphCache_'.entities[e] = graphCache_.entities[e]
         \/ graphCache_'.entities[e] = NotRecorded
         \/ /\ graphCache_'.entities[e] = fastdds_qos_to_rmw_qos(EntityQos[e])
            /\ \/ CallNext /\ Head(calls) = Call("add_entity", e)
               \/ Discovered(e)
<1> DEFINE Same == graphCache_'.entities = graphCache_.entities
<1>0. graphCache_ \in Cache
  BY DEF TypeOK
<1>1. CASE UNCHANGED graphCache_
  BY <1>1
<1>2. ASSUME NEW g, \/ add_participant(g) \/ add_node(g) \/ announce(g)
                    \/ remove_participant(g) \/ retract(g) \/ write_info(g)
                    \/ discovered_participant(g)
      PROVE  Same
  BY <1>0, <1>2 DEF add_participant, add_node, announce, remove_participant, retract,
     write_info, discovered_participant, Change, ChangeIfAny, WithParticipant, WithNode,
     WithInfo, WithoutParticipant, Cache
<1>3. ASSUME NEW f, associate_entity(f) PROVE Same
  BY <1>0, <1>3 DEF associate_entity, Change, Associated, WithInfo, Cache
<1>4. ASSUME NEW f \in Endpoints, remove_entity(f)
      PROVE  \/ graphCache_'.entities[e] = graphCache_.entities[e]
             \/ graphCache_'.entities[e] = NotRecorded
  BY <1>0, <1>4 DEF remove_entity, ChangeIfAny, WithoutEntity, Cache
<1>5. ASSUME NEW f \in Endpoints, NEW q, add_entity(f, q)
      PROVE  \/ graphCache_'.entities[e] = graphCache_.entities[e]
             \/ e = f /\ graphCache_'.entities[e] = fastdds_qos_to_rmw_qos(q)
  BY <1>0, <1>5 DEF add_entity, ChangeIfAny, WithEntity, Cache
<1>6. CASE CallNext
  <2> DEFINE call == Head(calls)
  <2>1. call \in Calls
    BY <1>6 DEF CallNext, TypeOK
  <2>2. Perform(call.op, call.on)
    BY <1>6 DEF CallNext
  <2>3. \/ call.op \in ManagerCalls
        \/ call.op \in EntityCalls /\ call.on \in Endpoints
        \/ call.op = "destroy"
    BY <2>1 DEF Calls, OwnEndpoints
  <2>4. call = Call(call.op, call.on)
    BY <2>1 DEF Calls, Call
  <2>5. \/ graphCache_'.entities[e] = graphCache_.entities[e]
        \/ graphCache_'.entities[e] = NotRecorded
        \/ /\ graphCache_'.entities[e] = fastdds_qos_to_rmw_qos(EntityQos[e])
           /\ call.op = "add_entity" /\ call.on = e
    <3> HIDE DEF call
    <3>1. CASE call.op \in ManagerCalls
      BY <2>2, <3>1, <1>2 DEF Perform, ManagerCalls
    <3>2. CASE call.op \in EntityCalls /\ call.on \in Endpoints
      BY <2>2, <3>2, <1>2, <1>3, <1>4, <1>5 DEF Perform, EntityCalls
    <3>3. CASE call.op = "destroy"
      <4>1. UNCHANGED graphCache_
        BY <2>2, <3>3 DEF Perform
      <4> QED
        BY <4>1
    <3> QED
      BY <2>3, <3>1, <3>2, <3>3
  <2> QED
    BY <2>4, <2>5, <1>6
<1>7. ASSUME NEW x \in Things, Discovered(x) \/ Removed(x)
      PROVE  \/ graphCache_'.entities[e] = graphCache_.entities[e]
             \/ graphCache_'.entities[e] = NotRecorded
             \/ /\ graphCache_'.entities[e] = fastdds_qos_to_rmw_qos(EntityQos[e])
                /\ Discovered(e)
  <2>1. CASE \E g : discovered_participant(g) \/ remove_participant(g)
    BY <2>1, <1>2
  <2>2. CASE x \in Endpoints /\ remove_entity(x)
    BY <2>2, <1>4
  <2>3. CASE x \in Endpoints /\ discovered_endpoint(x) /\ Discovered(x)
    <3>1. EntityQos[x] \in DdsQos
      BY <2>3, ManagerAssumption
    <3>2. PICK q : add_entity(x, q) /\ fastdds_qos_to_rmw_qos(q) = fastdds_qos_to_rmw_qos(EntityQos[x])
      BY <2>3, <3>1, Profiles DEF discovered_endpoint
    <3> QED
      BY <2>3, <3>2, <1>5
  <2> QED
    BY <2>1, <2>2, <2>3, <1>7 DEF Discovered, Removed, removed_participant,
       removed_endpoint, Things
<1>8. CASE Callback
  <2>1. PICK xs \in SUBSET Things, from \in {"new", "alive"} :
          \E callback \in CallbackOf(xs) : Begin(xs, from, "alive", callback)
    BY <1>8, CallbackBegins
  <2> QED
    BY <2>1, <1>1 DEF Begin, manager_vars
<1>9. CASE Listener
  <2>1. CASE \E g \in Gids : take_next_sample(g) \/ sample_replaced(g)
    BY <2>1, <1>1 DEF take_next_sample, sample_replaced
  <2>2. CASE update_participant_entities
    BY <1>0, <2>2 DEF update_participant_entities, Change, WithInfo, Cache
  <2> QED
    BY <1>9, <2>1, <2>2 DEF Listener
<1>10. CASE Publisher
  BY <1>10, <1>1 DEF Publisher, publish_microros_graph, publisher_only, wait_graph_changed,
     get_node_names, get_writer_names, get_reader_names, get_service_servers,
     get_service_clients, write_graph
<1>11. CASE (\E g \in Others : Join(g) \/ Leave(g)) \/ UNCHANGED vars
  BY <1>11, <1>1 DEF Join, Leave, vars, manager_vars
<1> QED
  BY <1>6, <1>7, <1>8, <1>9, <1>10, <1>11 DEF Next

\* The agent registers an entity with the quality of service it has, discovery
\* with one rebuilt from the announcement; both become the same profile.
THEOREM ProfilesAreTheirOwn == Spec => []ProfileIsItsOwn
<1>1. Init => ProfileIsItsOwn
  BY DEF Init, ManagerInit, ProfileIsItsOwn, Recorded, EmptyCache
<1>2. TypeOK /\ ProfileIsItsOwn /\ [Next]_vars => ProfileIsItsOwn'
  BY EntityEffect DEF ProfileIsItsOwn, Recorded
<1> QED
  BY <1>1, <1>2, InitTypes, NextTypes, PTL DEF Spec

-----------------------------------------------------------------------------
(* No endpoint comes back once it has been reported gone: it is dead then, *)
(* and the callback that would add it again ended before it died.          *)

AliveOwn == {e \in OwnEndpoints : life[e] = "alive"}

ReportedInOrder ==
  /\ \A x \in Things : told[x] # "no" => life[x] # "new"
  /\ \A x \in Things : told[x] = "down" => life[x] = "dead"
  /\ \A e \in Endpoints : told[e] # "no" => told[OwnerOf[e]] # "no"

GhostInv == ReportedInOrder /\ calls \in CallbackOf(AliveOwn)

LEMMA InitGhost == Init => GhostInv /\ NoGhostEndpoints
<1> SUFFICES ASSUME Init PROVE GhostInv /\ NoGhostEndpoints
  OBVIOUS
<1>1. calls = <<>> /\ \A x \in Things : told[x] = "no"
  BY DEF Init
<1>2. Endpoints \subseteq Things
  BY DEF Things
<1>3. calls \in CallbackOf(AliveOwn)
  BY <1>1 DEF CallbackOf
<1>4. ReportedInOrder
  BY <1>1, <1>2 DEF ReportedInOrder
<1>5. NoGhostEndpoints
  BY <1>1, <1>2 DEF NoGhostEndpoints
<1> QED
  BY <1>3, <1>4, <1>5 DEF GhostInv

LEMMA CallbackOfMonotone ==
  ASSUME NEW xs, NEW ys, xs \cap OwnEndpoints \subseteq ys
  PROVE  CallbackOf(xs) \subseteq CallbackOf(ys)
<1>1. Additions(xs) \subseteq Additions(ys)
  BY DEF Additions, AdditionCalls
<1>2. Seq(Additions(xs)) \subseteq Seq(Additions(ys))
  BY <1>1, SeqMonotonic
<1> QED
  BY <1>2 DEF CallbackOf

\* What is left of a callback is one; if it adds, it adds endpoints that exist
\* and frees none.
LEMMA RestOfCallback ==
  ASSUME NEW xs, NEW seq \in CallbackOf(xs), seq # <<>>
  PROVE  /\ Tail(seq) \in CallbackOf(xs)
         /\ Head(seq).op = "add_entity" => Head(seq).on \in xs
         /\ Head(seq).op = "destroy" => Tail(seq) \in Seq(OtherCalls)
<1>1. CASE seq \in Seq(Additions(xs))
  <2>1. Head(seq) \in Additions(xs) /\ Tail(seq) \in Seq(Additions(xs))
    BY <1>1, HeadTailProperties
  <2> QED
    BY <2>1 DEF Additions, AdditionCalls, CallbackOf
<1>2. CASE seq \in Seq(OtherCalls)
  <2>1. Head(seq) \in OtherCalls /\ Tail(seq) \in Seq(OtherCalls)
    BY <1>2, HeadTailProperties
  <2> QED
    BY <2>1 DEF OtherCalls, AdditionCalls, CallbackOf
<1> QED
  BY <1>1, <1>2 DEF CallbackOf

LEMMA NextGhost == TypeOK /\ GhostInv /\ [Next]_vars => GhostInv'
<1> SUFFICES ASSUME TypeOK, GhostInv, [Next]_vars PROVE GhostInv'
  OBVIOUS
<1>0. /\ life \in [Things -> {"new", "alive", "dead"}] /\ told \in [Things -> {"no", "up", "down"}]
      /\ ReportedInOrder /\ calls \in CallbackOf(AliveOwn)
      /\ Endpoints \subseteq Things
  BY DEF TypeOK, GhostInv, Things
<1>1. CASE Callback
  <2>1. PICK xs \in SUBSET Things, from \in {"new", "alive"} :
          \E callback \in CallbackOf(xs) : Begin(xs, from, "alive", callback)
    BY <1>1, CallbackBegins
  <2>2. PICK callback \in CallbackOf(xs) : Begin(xs, from, "alive", callback)
    BY <2>1
  <2>3. xs \cap OwnEndpoints \subseteq AliveOwn'
    BY <1>0, <2>2 DEF Begin, AliveOwn, OwnEndpoints
  <2>4. calls' \in CallbackOf(AliveOwn')
    BY <2>2, <2>3, CallbackOfMonotone DEF Begin
  <2>5. ReportedInOrder'
    BY <1>0, <2>2 DEF Begin, ReportedInOrder
  <2>6. (CallbackOf(AliveOwn))' = CallbackOf(AliveOwn')
    BY DEF CallbackOf, Additions, AdditionCalls, OtherCalls, Calls
  <2> QED
    BY <2>4, <2>5, <2>6 DEF GhostInv
<1>2. CASE CallNext
  <2> DEFINE call == Head(calls)
  <2>1. /\ calls # <<>> /\ calls' = (IF crashed' THEN calls ELSE Tail(calls)) /\ UNCHANGED told
        /\ life' = IF call.op = "destroy" THEN [life EXCEPT ![call.on] = "dead"] ELSE life
    BY <1>2 DEF CallNext
  <2>2. calls' \in CallbackOf(AliveOwn')
    <3>1. CASE call.op = "destroy"
      <4>1. calls \in Seq(OtherCalls)
        <5>1. calls \in Seq(Additions(AliveOwn)) => call \in Additions(AliveOwn)
          BY <2>1, HeadTailProperties
        <5> QED
          BY <1>0, <3>1, <5>1 DEF CallbackOf, Additions, AdditionCalls
      <4>2. Tail(calls) \in Seq(OtherCalls)
        BY <1>0, <2>1, <3>1, RestOfCallback
      <4> QED
        BY <2>1, <4>1, <4>2 DEF CallbackOf
    <3>2. CASE call.op # "destroy"
      <4>1. AliveOwn' = AliveOwn
        BY <2>1, <3>2 DEF AliveOwn
      <4>2. calls' \in CallbackOf(AliveOwn)
        BY <1>0, <2>1, RestOfCallback
      <4> QED
        BY <4>1, <4>2
    <3> QED
      BY <3>1, <3>2
  <2>3. ReportedInOrder'
    BY <1>0, <2>1 DEF ReportedInOrder
  <2> QED
    BY <2>2, <2>3 DEF GhostInv, CallbackOf, Additions, AdditionCalls, OtherCalls
<1>3. CASE \E g \in Others : Join(g) \/ Leave(g)
  <2>1. PICK g \in Others : Join(g) \/ Leave(g)
    BY <1>3
  <2>2. UNCHANGED <<calls, told>>
    BY <2>1 DEF Join, Leave
  <2>3. AliveOwn' = AliveOwn
    <3>1. \A e \in OwnEndpoints : e \notin Ours(g)
      BY AgentAssumption DEF Ours, EndpointsOf, OwnEndpoints, Others
    <3> QED
      BY <1>0, <2>1, <3>1 DEF Join, Leave, AliveOwn, OwnEndpoints
  <2>4. ReportedInOrder'
    <3>1. CASE Join(g)
      <4>1. told[g] = "no" /\ \A x \in Ours(g) : told[x] = "no"
        BY <1>0, <3>1 DEF Join, ReportedInOrder, Ours, EndpointsOf, Others, Things
      <4> QED
        BY <1>0, <3>1, <4>1 DEF Join, ReportedInOrder
    <3>2. CASE Leave(g)
      BY <1>0, <3>2 DEF Leave, ReportedInOrder
    <3> QED
      BY <2>1, <3>1, <3>2
  <2> QED
    BY <1>0, <2>2, <2>3, <2>4 DEF GhostInv, CallbackOf, Additions, AdditionCalls, OtherCalls
<1>4. CASE \E x \in Things : Discovered(x) \/ Removed(x)
  <2>1. UNCHANGED <<calls, life>>
    BY <1>4 DEF Discovered, Removed
  <2>2. ReportedInOrder'
    <3>1. PICK x \in Things : Discovered(x) \/ Removed(x)
      BY <1>4
    <3>2. \A e \in Endpoints : e \notin Gids /\ OwnerOf[e] \in Things
      BY AgentAssumption, ManagerAssumption DEF Things
    <3>3. CASE Discovered(x)
      <4>1. /\ told' = [told EXCEPT ![x] = "up"] /\ life' = life /\ life[x] # "new"
            /\ x \in Endpoints => told[OwnerOf[x]] = "up"
        BY <3>2, <3>3 DEF Discovered
      <4> QED
        BY <1>0, <3>1, <3>2, <4>1 DEF ReportedInOrder
    <3>4. CASE Removed(x)
      <4>1. told' = [told EXCEPT ![x] = "down"] /\ life' = life /\ life[x] = "dead"
            /\ told[x] # "no"
        BY <3>4 DEF Removed
      <4> QED
        BY <1>0, <3>1, <3>2, <4>1 DEF ReportedInOrder
    <3> QED
      BY <3>1, <3>3, <3>4
  <2> QED
    BY <1>0, <2>1, <2>2 DEF GhostInv, CallbackOf, Additions, AdditionCalls, OtherCalls, AliveOwn
<1>5. CASE UNCHANGED <<calls, life, told>>
  BY <1>0, <1>5 DEF GhostInv, ReportedInOrder, CallbackOf, Additions, AdditionCalls, OtherCalls, AliveOwn
<1> QED
  BY <1>1, <1>2, <1>3, <1>4, <1>5 DEF Next, Listener, Publisher, vars

LEMMA NextNoGhost ==
  TypeOK /\ GhostInv /\ NoGhostEndpoints /\ [Next]_vars => NoGhostEndpoints'
<1> SUFFICES ASSUME TypeOK, GhostInv, NoGhostEndpoints, [Next]_vars,
                    NEW e \in Endpoints, told'[e] = "down"
             PROVE  graphCache_'.entities[e] = NotRecorded
  BY DEF NoGhostEndpoints, Recorded
<1>0. e \in Things /\ told \in [Things -> {"no", "up", "down"}] /\ graphCache_ \in Cache
  BY DEF Things, TypeOK
<1>1. CASE told[e] = "down"
  <2>1. graphCache_.entities[e] = NotRecorded /\ life[e] = "dead"
    BY <1>0, <1>1 DEF NoGhostEndpoints, Recorded, GhostInv, ReportedInOrder
  <2>2. ~(CallNext /\ Head(calls) = Call("add_entity", e))
    <3> SUFFICES ASSUME CallNext, Head(calls) = Call("add_entity", e) PROVE FALSE
      OBVIOUS
    <3>1. calls # <<>> /\ calls \in CallbackOf(AliveOwn)
      BY DEF CallNext, GhostInv
    <3>2. Head(calls).op = "add_entity" /\ Head(calls).on = e
      BY DEF Call
    <3>3. e \in AliveOwn
      BY <3>1, <3>2, RestOfCallback
    <3> QED
      BY <2>1, <3>3 DEF AliveOwn
  <2>3. ~Discovered(e)
    BY <1>1 DEF Discovered
  <2> QED
    BY <2>1, <2>2, <2>3, EntityEffect
<1>2. CASE told[e] # "down"
  <2>1. Removed(e)
    <3>1. ASSUME NEW x \in Things, Discovered(x) PROVE FALSE
      BY <1>0, <1>2, <3>1 DEF Discovered
    <3>2. ASSUME NEW x \in Things, Removed(x), x # e PROVE FALSE
      BY <1>0, <1>2, <3>2 DEF Removed
    <3>3. told' # told
      BY <1>2
    <3>4. ~Callback /\ ~CallNext /\ ~Listener /\ ~Publisher /\ ~(UNCHANGED vars)
          /\ ~(\E g \in Others : Join(g) \/ Leave(g))
      BY <3>3 DEF Callback, on_create, on_delete, on_create_participant,
         on_delete_participant, Begin, CallNext, Listener, Publisher, Join, Leave, vars
    <3> QED
      BY <3>1, <3>2, <3>4 DEF Next
  <2>2. remove_entity(e)
    BY <2>1, AgentAssumption DEF Removed, removed_endpoint
  <2> QED
    BY <1>0, <2>2 DEF remove_entity, ChangeIfAny, WithoutEntity, Cache
<1> QED
  BY <1>1, <1>2

\* Whichever of the agent's callback and discovery comes first, and however late
\* discovery is, an endpoint that has been reported gone stays out of the graph.
THEOREM NoEndpointComesBack == Spec => []NoGhostEndpoints
BY InitTypes, NextTypes, InitGhost, NextGhost, NextNoGhost, PTL DEF Spec

-----------------------------------------------------------------------------
(* The entries that the operations look up.  For a participant that is not *)
(* the root, what the cache, the listener and the network hold of its      *)
(* messages contains its node from the moment it is announced to the       *)
(* moment it is deleted, and it has its writer.                            *)

Named == {p \in MicroRos : ~IsRoot(p)}

\* No message of p is on its way; every one that is contains p's node.
Quiet(p) == samples[p] = NoSample /\ (held # NoSample => held.gid # p)
Echoes(p) ==
  /\ samples[p] # NoSample => NodeOf(p) \in samples[p].nodes
  /\ held # NoSample /\ held.gid = p => NodeOf(p) \in held.info.nodes
HasNode(p) == NodeOf(p) \in graphCache_.info[p].nodes

Creating(p) ==
  /\ Quiet(p)
  /\ \/ calls = <<Call("add_participant", p), Call("add_node", p), Call("announce", p)>>
     \/ calls = <<Call("add_node", p), Call("announce", p)>>
     \/ /\ calls = <<Call("announce", p)>>
        /\ HasNode(p) /\ NodeOf(p) \in info.nodes

Deleting(p) ==
  \/ /\ p \in micro_ros_graph_datawriters_
     /\ \/ calls = <<Call("remove_participant", p), Call("retract", p), Call("destroy", p)>>
        \/ calls = <<Call("retract", p), Call("destroy", p)>>
  \/ calls = <<Call("destroy", p)>>

Ready(p) == p \in micro_ros_graph_datawriters_ /\ HasNode(p) /\ Echoes(p)

NotConcerned(p) == \A i \in 1 .. Len(calls) : calls[i].on # p

ParticipantOk(p) ==
  /\ life[p] = "new" => Quiet(p)
  /\ life[p] # "alive" => NotConcerned(p)
  /\ life[p] = "alive" => Creating(p) \/ Deleting(p) \/ (Ready(p) /\ NotConcerned(p))

ParticipantInv == \A p \in Named : ParticipantOk(p)

\* An addition is for a participant that is there; a message is written right
\* after the association that has made it.
Paired(seq) ==
  \A i \in 2 .. Len(seq) :
    seq[i].op = "write" => seq[i - 1].op = "associate" /\ seq[i - 1].on = seq[i].on
OwnersAlive(seq) ==
  \A i \in 1 .. Len(seq) : seq[i].op \in AdditionCalls => life[OwnerOf[seq[i].on]] = "alive"
WritesNode(seq) ==
  seq # <<>> /\ Head(seq).op = "write" => NodeOf(OwnerOf[Head(seq).on]) \in info.nodes

AdditionInv == Paired(calls) /\ OwnersAlive(calls) /\ WritesNode(calls)

LookupInv == ParticipantInv /\ AdditionInv /\ LookupsFindTheirEntry

LEMMA InitLookup == Init => LookupInv
<1> SUFFICES ASSUME Init PROVE LookupInv
  OBVIOUS
<1>1. /\ calls = <<>> /\ crashed = FALSE /\ held = NoSample
      /\ \A g \in Gids : samples[g] = NoSample /\ life[g] = "new"
  BY DEF Init, ManagerInit, Things
<1>2. Len(calls) = 0
  BY <1>1
<1>3. AdditionInv
  <2> QED
    BY <1>1, <1>2 DEF AdditionInv, Paired, OwnersAlive, WritesNode
<1>4. LookupsFindTheirEntry
  BY <1>1 DEF LookupsFindTheirEntry
<1>5. ParticipantInv
  BY <1>1, <1>2, ManagerAssumption DEF ParticipantInv, ParticipantOk, Named, Quiet, NotConcerned
<1> QED
  BY <1>3, <1>4, <1>5 DEF LookupInv

\* Nothing moves after a crash.
LEMMA CrashIsFinal == ASSUME TypeOK, [Next]_vars, crashed PROVE UNCHANGED vars
BY DEF Next, Callback, on_create, on_delete, on_create_participant, on_delete_participant,
   Begin, CallNext, Listener, take_next_sample, sample_replaced, update_participant_entities,
   Publisher, publish_microros_graph, wait_graph_changed, get_node_names, get_writer_names,
   get_reader_names, get_service_servers, get_service_clients, write_graph, Discovered,
   Removed, Join, Leave

\* The other threads, and discovery, leave p's node where it is.
LEMMA OthersKeepNode ==
  ASSUME TypeOK, [Next]_vars, ~CallNext, NEW p \in Named, life[p] # "dead"
  PROVE  /\ UNCHANGED <<micro_ros_graph_datawriters_, info>>
         /\ Quiet(p) => Quiet(p)'
         /\ Echoes(p) /\ HasNode(p) => Echoes(p)' /\ HasNode(p)'
<1>0. /\ graphCache_ \in Cache /\ samples \in [Gids -> Info \cup {NoSample}]
      /\ held \in [gid : Gids, info : Info] \cup {NoSample}
      /\ p \in Gids
  BY ManagerAssumption DEF TypeOK, Named
<1> DEFINE Kept == /\ UNCHANGED <<micro_ros_graph_datawriters_, info>>
                   /\ Quiet(p) => Quiet(p)'
                   /\ Echoes(p) /\ HasNode(p) => Echoes(p)' /\ HasNode(p)'
<1>1. ASSUME UNCHANGED <<micro_ros_graph_datawriters_, info, samples, held>>,
             graphCache_'.info[p] = graphCache_.info[p]
      PROVE  Kept
  BY <1>1 DEF Quiet, Echoes, HasNode
<1>2. CASE Callback
  <2>1. PICK xs \in SUBSET Things, from \in {"new", "alive"} :
          \E callback \in CallbackOf(xs) : Begin(xs, from, "alive", callback)
    BY <1>2, CallbackBegins
  <2> QED
    BY <2>1, <1>1 DEF Begin, manager_vars, agent_side
<1>3. CASE Listener
  <2>1. CASE \E g \in Gids : take_next_sample(g)
    BY <1>0, <2>1, ManagerAssumption DEF take_next_sample, Quiet, Echoes, HasNode
  <2>2. CASE \E g \in Gids : sample_replaced(g)
    BY <1>0, <2>2 DEF sample_replaced, Quiet, Echoes, HasNode
  <2>3. CASE update_participant_entities
    <3>1. /\ held.gid \in Gids /\ held # NoSample /\ held' = NoSample
          /\ graphCache_' = WithInfo(graphCache_, held.gid, held.info)
          /\ UNCHANGED <<micro_ros_graph_datawriters_, info, samples>>
      BY <1>0, <2>3 DEF update_participant_entities, Change, agent_side
    <3>2. graphCache_'.info = [graphCache_.info EXCEPT ![held.gid] = held.info]
      BY <1>0, <3>1 DEF WithInfo, Cache
    <3>3. graphCache_'.info[p] = IF held.gid = p THEN held.info ELSE graphCache_.info[p]
      BY <1>0, <3>2 DEF Cache
    <3> QED
      BY <3>1, <3>3 DEF Quiet, Echoes, HasNode
  <2> QED
    BY <1>3, <2>1, <2>2, <2>3 DEF Listener
<1>4. CASE Publisher
  BY <1>1, <1>4 DEF Publisher, publish_microros_graph, publisher_only, agent_side,
     wait_graph_changed, get_node_names, get_writer_names, get_reader_names,
     get_service_servers, get_service_clients, write_graph
<1>5. ASSUME NEW x \in Things, Discovered(x) PROVE Kept
  <2>1. (x \in Gids /\ discovered_participant(x)) \/ (\E q : add_entity(x, q))
    BY <1>5 DEF Discovered, discovered_endpoint
  <2>2. UNCHANGED <<micro_ros_graph_datawriters_, info, samples, held>>
    BY <1>5, <2>1 DEF Discovered, discovered_participant, add_entity, agent_side
  <2>3. graphCache_'.info[p] = graphCache_.info[p]
    BY <1>0, <2>1 DEF discovered_participant, add_entity, Change, ChangeIfAny,
       WithParticipant, WithEntity, Cache
  <2> QED
    BY <1>1, <2>2, <2>3
<1>6. ASSUME NEW x \in Things, Removed(x) PROVE Kept
  <2>1. x # p /\ ((x \in Gids /\ remove_participant(x)) \/ remove_entity(x))
    BY <1>6 DEF Removed, removed_participant, removed_endpoint
  <2>2. UNCHANGED <<micro_ros_graph_datawriters_, info, samples, held>>
    BY <1>6, <2>1 DEF Removed, remove_participant, remove_entity, agent_side
  <2>3. graphCache_'.info[p] = graphCache_.info[p]
    BY <1>0, <2>1 DEF remove_participant, remove_entity, ChangeIfAny,
       WithoutParticipant, WithoutEntity, Cache
  <2> QED
    BY <1>1, <2>2, <2>3
<1>7. ASSUME NEW g \in Others, Join(g) \/ Leave(g) PROVE Kept
  <2>1. g # p
    BY DEF Others, Named
  <2> QED
    BY <1>0, <1>7, <2>1 DEF Join, Leave, Quiet, Echoes, HasNode
<1>8. CASE UNCHANGED vars
  BY <1>8, <1>1 DEF vars, manager_vars, agent_side
<1> QED
  BY <1>2, <1>3, <1>4, <1>5, <1>6, <1>7, <1>8 DEF Next

\* A call changes nothing of the participants that it is not about.
LEMMA CallKeepsOthers ==
  ASSUME TypeOK, CallNext, NEW p \in Named, CallGid # p
  PROVE  /\ micro_ros_graph_datawriters_' \ {CallGid} = micro_ros_graph_datawriters_ \ {CallGid}
         /\ life'[p] = life[p]
         /\ Quiet(p) => Quiet(p)'
         /\ Echoes(p) => Echoes(p)'
         /\ HasNode(p) => HasNode(p)'
<1> DEFINE call == Head(calls)
           x == call.on
           g == CallGid
<1>0. /\ graphCache_ \in Cache /\ samples \in [Gids -> Info \cup {NoSample}]
      /\ life \in [Things -> {"new", "alive", "dead"}]
      /\ p \in Gids /\ held' = held
  BY ManagerAssumption DEF TypeOK, Named, CallNext
<1>1. call \in Calls /\ Perform(call.op, x)
  BY DEF CallNext, TypeOK
<1>2. g = IF x \in Gids THEN x ELSE OwnerOf[x]
  BY DEF CallGid
<1>3. life'[p] = life[p]
  BY <1>0, <1>2 DEF CallNext
<1> DEFINE Same == /\ samples'[p] = samples[p]
                   /\ graphCache_'.info[p] = graphCache_.info[p]
                   /\ micro_ros_graph_datawriters_' \ {g} = micro_ros_graph_datawriters_ \ {g}
<1>4. CASE call \in [op : ManagerCalls, on : MicroRos]
  <2>1. x \in Gids /\ g = x /\ g # p
    BY <1>2, <1>4, ManagerAssumption
  <2>2. \/ add_participant(g) \/ add_node(g) \/ announce(g) \/ remove_participant(g)
        \/ retract(g)
    BY <1>1, <1>4, <2>1 DEF Perform, ManagerCalls
  <2>3. Same
    <3> HIDE DEF g, x
    <3>1. /\ samples'[p] = samples[p]
          /\ micro_ros_graph_datawriters_' \ {g} = micro_ros_graph_datawriters_ \ {g}
      BY <1>0, <2>1, <2>2 DEF add_participant, add_node, announce, remove_participant,
         retract, agent_side
    <3>2. ASSUME NEW i PROVE WithInfo(graphCache_, g, i).info[p] = graphCache_.info[p]
      BY <1>0, <2>1 DEF WithInfo, Cache
    <3>3. /\ WithParticipant(graphCache_, g).info[p] = graphCache_.info[p]
          /\ WithoutParticipant(graphCache_, g).info[p] = graphCache_.info[p]
      BY <1>0, <2>1 DEF WithParticipant, WithoutParticipant, Cache
    <3>4. graphCache_'.info[p] = graphCache_.info[p]
      BY <2>2, <3>2, <3>3 DEF add_participant, add_node, announce, remove_participant,
         retract, Change, ChangeIfAny, WithNode
    <3> QED
      BY <3>1, <3>4
  <2> QED
    BY <1>0, <1>3, <2>3 DEF Quiet, Echoes, HasNode
<1>5. CASE call \in [op : EntityCalls, on : OwnEndpoints]
  <2>1. x \in Endpoints /\ g = OwnerOf[x] /\ g # p /\ g \in Gids
    BY <1>2, <1>5, AgentAssumption, ManagerAssumption DEF OwnEndpoints
  <2>2. \/ add_entity(x, EntityQos[x]) \/ associate_entity(x) \/ write_info(g)
        \/ remove_entity(x)
    BY <1>1, <1>5, <2>1 DEF Perform, EntityCalls
  <2>3. Same
    <3> HIDE DEF g, x
    <3> QED
      BY <1>0, <2>1, <2>2 DEF add_entity, associate_entity, write_info, remove_entity,
         Change, ChangeIfAny, WithEntity, WithoutEntity, Associated, WithInfo, Cache,
         agent_side
  <2> QED
    BY <1>0, <1>3, <2>3 DEF Quiet, Echoes, HasNode
<1>6. CASE call \in [op : {"destroy"}, on : Things]
  <2>1. UNCHANGED <<graphCache_, agent_side>>
    BY <1>1, <1>6 DEF Perform
  <2> QED
    BY <1>0, <1>3, <2>1 DEF Quiet, Echoes, HasNode, agent_side
<1> QED
  BY <1>1, <1>4, <1>5, <1>6 DEF Calls

LEMMA TailIsRest ==
  ASSUME NEW S, NEW seq \in Seq(S), seq # <<>>
  PROVE  /\ Head(seq) = seq[1] /\ Len(seq) \in Nat /\ Len(seq) > 0
         /\ Tail(seq) \in Seq(S) /\ Len(Tail(seq)) = Len(seq) - 1
         /\ \A i \in 1 .. Len(Tail(seq)) : Tail(seq)[i] = seq[i + 1]
BY HeadTailProperties

LEMMA EmptyLength == \A seq : seq = <<>> => Len(seq) = 0
<1>1. Len(<<>>) = 0
  OBVIOUS
<1> QED
  BY <1>1, Zenon

LEMMA NotConcernedByRest ==
  ASSUME TypeOK, CallNext, NEW p, NotConcerned(p)
  PROVE  NotConcerned(p)' /\ Head(calls).on # p
<1>1. calls \in Seq(Calls) /\ calls # <<>> /\ calls' = (IF crashed' THEN calls ELSE Tail(calls))
  BY DEF TypeOK, CallNext
<1>2. /\ Head(calls) = calls[1] /\ Len(calls) \in Nat /\ Len(calls) > 0
      /\ Len(Tail(calls)) = Len(calls) - 1
      /\ \A i \in 1 .. Len(Tail(calls)) : Tail(calls)[i] = calls[i + 1]
  BY <1>1, TailIsRest
<1>3. \A i \in 1 .. Len(Tail(calls)) : i + 1 \in 1 .. Len(calls)
  BY <1>2
<1>4. \A i \in 1 .. Len(Tail(calls)) : Tail(calls)[i].on # p
  BY <1>2, <1>3 DEF NotConcerned
<1>5. calls[1].on # p
  BY <1>2 DEF NotConcerned
<1> QED
  BY <1>1, <1>2, <1>4, <1>5 DEF NotConcerned

\* A call about p itself: p is being created or deleted.
LEMMA OwnCall ==
  ASSUME TypeOK, LookupInv, CallNext, NEW p \in Named, Head(calls).on = p
  PROVE  ParticipantOk(p)' /\ ~crashed'
<1>0. /\ graphCache_ \in Cache /\ samples \in [Gids -> Info \cup {NoSample}]
      /\ life \in [Things -> {"new", "alive", "dead"}]
      /\ p \in Gids /\ p \in Things /\ held' = held /\ ~crashed
  BY ManagerAssumption DEF TypeOK, Named, Things, CallNext
<1>1. life[p] = "alive" /\ (Creating(p) \/ Deleting(p))
  <2>1. ~NotConcerned(p)
    BY NotConcernedByRest
  <2> QED
    BY <1>0, <2>1 DEF LookupInv, ParticipantInv, ParticipantOk
<1>2. /\ Perform(Head(calls).op, p)
      /\ calls' = (IF crashed' THEN calls ELSE Tail(calls))
      /\ life' = IF Head(calls).op = "destroy" THEN [life EXCEPT ![p] = "dead"] ELSE life
  BY DEF CallNext
<1>3. CASE calls = <<Call("add_participant", p), Call("add_node", p), Call("announce", p)>>
  <2>1. Head(calls).op = "add_participant" /\ Tail(calls) = <<Call("add_node", p), Call("announce", p)>>
    BY <1>3 DEF Call
  <2>2. add_participant(p)
    BY <1>2, <2>1 DEF Perform
  <2>3. Quiet(p)
    BY <1>1, <1>3 DEF Creating, Deleting, Call
  <2>4. UNCHANGED <<samples, held, crashed>>
    BY <1>0, <2>2 DEF add_participant, agent_side
  <2>5. calls' = <<Call("add_node", p), Call("announce", p)>> /\ life'[p] = "alive"
    BY <1>0, <1>1, <1>2, <2>1, <2>4
  <2>6. Creating(p)'
    BY <2>3, <2>4, <2>5 DEF Creating, Quiet
  <2> QED
    BY <1>0, <2>4, <2>5, <2>6 DEF ParticipantOk
<1>4. CASE calls = <<Call("add_node", p), Call("announce", p)>>
  <2>1. Head(calls).op = "add_node" /\ Tail(calls) = <<Call("announce", p)>>
    BY <1>4 DEF Call
  <2>2. add_node(p)
    BY <1>2, <2>1 DEF Perform
  <2>3. Quiet(p)
    BY <1>1, <1>4 DEF Creating, Deleting, Call
  <2>4. /\ graphCache_' = WithNode(graphCache_, p, NodeOf(p)) /\ info' = graphCache_'.info[p]
        /\ UNCHANGED <<samples, crashed>>
    BY <2>2 DEF add_node, Change
  <2>5. graphCache_'.info[p].nodes = graphCache_.info[p].nodes \cup {NodeOf(p)}
    BY <1>0, <2>4 DEF WithNode, WithInfo, Cache, Info
  <2>6. calls' = <<Call("announce", p)>> /\ life'[p] = "alive"
    BY <1>0, <1>1, <1>2, <2>1, <2>4
  <2>7. Creating(p)'
    BY <1>0, <2>3, <2>4, <2>5, <2>6 DEF Creating, Quiet, HasNode
  <2> QED
    BY <1>0, <2>4, <2>6, <2>7 DEF ParticipantOk
<1>5. CASE calls = <<Call("announce", p)>>
  <2>1. Head(calls).op = "announce" /\ Tail(calls) = <<>>
    BY <1>5 DEF Call
  <2>2. announce(p)
    BY <1>2, <2>1 DEF Perform
  <2>3. Quiet(p) /\ HasNode(p) /\ NodeOf(p) \in info.nodes
    BY <1>1, <1>5 DEF Creating, Deleting, Call
  <2>4. Ready(p)'
    BY <1>0, <2>2, <2>3 DEF announce, Ready, HasNode, Echoes, Quiet
  <2>5. NotConcerned(p)' /\ ~crashed'
    <3>1. Len(Tail(calls)) = 0
      BY <2>1, EmptyLength
    <3> QED
      BY <1>0, <1>2, <2>2, <3>1 DEF announce, NotConcerned
  <2> QED
    BY <1>1, <1>2, <2>1, <2>4, <2>5 DEF ParticipantOk
<1>6. CASE calls = <<Call("remove_participant", p), Call("retract", p), Call("destroy", p)>>
  <2>1. Head(calls).op = "remove_participant" /\ Tail(calls) = <<Call("retract", p), Call("destroy", p)>>
    BY <1>6 DEF Call
  <2>2. remove_participant(p)
    BY <1>2, <2>1 DEF Perform
  <2>3. p \in micro_ros_graph_datawriters_
    BY <1>1, <1>6 DEF Creating, Deleting, Call
  <2>4. UNCHANGED <<micro_ros_graph_datawriters_, crashed>>
    BY <2>2 DEF remove_participant, agent_side
  <2>5. calls' = <<Call("retract", p), Call("destroy", p)>> /\ life'[p] = "alive"
    BY <1>0, <1>1, <1>2, <2>1, <2>4
  <2>6. Deleting(p)'
    BY <2>3, <2>4, <2>5 DEF Deleting
  <2> QED
    BY <1>0, <2>4, <2>5, <2>6 DEF ParticipantOk
<1>7. CASE calls = <<Call("retract", p), Call("destroy", p)>>
  <2>1. Head(calls).op = "retract" /\ Tail(calls) = <<Call("destroy", p)>>
    BY <1>7 DEF Call
  <2>2. retract(p)
    BY <1>2, <2>1 DEF Perform
  <2>3. p \in micro_ros_graph_datawriters_
    BY <1>1, <1>7 DEF Creating, Deleting, Call
  <2>4. ~crashed'
    BY <1>0, <2>2, <2>3 DEF retract
  <2>5. calls' = <<Call("destroy", p)>> /\ life'[p] = "alive"
    BY <1>0, <1>1, <1>2, <2>1, <2>4
  <2>6. Deleting(p)'
    BY <2>5 DEF Deleting
  <2> QED
    BY <2>4, <2>5, <2>6 DEF ParticipantOk
<1>8. CASE calls = <<Call("destroy", p)>>
  <2>1. Head(calls).op = "destroy" /\ Tail(calls) = <<>>
    BY <1>8 DEF Call
  <2>2. ~crashed'
    BY <1>0, <1>2, <2>1 DEF Perform
  <2>3. NotConcerned(p)'
    <3>1. Len(Tail(calls)) = 0
      BY <2>1, EmptyLength
    <3> QED
      BY <1>2, <2>2, <3>1 DEF NotConcerned
  <2>4. life'[p] = "dead"
    BY <1>0, <1>2, <2>1
  <2> QED
    BY <2>2, <2>3, <2>4 DEF ParticipantOk
<1> QED
  BY <1>1, <1>3, <1>4, <1>5, <1>6, <1>7, <1>8 DEF Creating, Deleting

\* A call about an endpoint of p: p is ready, or the endpoint is being removed.
LEMMA EndpointCall ==
  ASSUME TypeOK, LookupInv, CallNext, NEW p \in Named,
         Head(calls).on \in Endpoints, OwnerOf[Head(calls).on] = p
  PROVE  ParticipantOk(p)' /\ ~crashed'
<1> DEFINE call == Head(calls)
           e == call.on
<1>0. /\ graphCache_ \in Cache /\ samples \in [Gids -> Info \cup {NoSample}]
      /\ life \in [Things -> {"new", "alive", "dead"}]
      /\ p \in Gids /\ held' = held /\ ~crashed /\ e # p
  BY ManagerAssumption, AgentAssumption DEF TypeOK, Named, CallNext
<1>1. call \in Calls /\ Perform(call.op, e) /\ life'[p] = life[p]
  BY <1>0 DEF CallNext, TypeOK
<1>2. ParticipantOk(p) /\ ~Creating(p) /\ ~Deleting(p)
  <2>1. ~Creating(p) /\ ~Deleting(p)
    BY <1>0 DEF Creating, Deleting, Call
  <2> QED
    BY <2>1 DEF LookupInv, ParticipantInv, ParticipantOk
<1>3. NotConcerned(p)'
  BY <1>2, NotConcernedByRest DEF ParticipantOk
<1>4. call.op \in EntityCalls \cup {"destroy"}
  BY <1>0, <1>1, AgentAssumption, ManagerAssumption DEF Calls
<1>5. call.op \in AdditionCalls => life[p] = "alive"
  <2>1. call = calls[1] /\ Len(calls) \in Nat /\ Len(calls) > 0
    BY TailIsRest DEF TypeOK, CallNext
  <2>2. call.op \in AdditionCalls => life[OwnerOf[call.on]] = "alive"
    BY <2>1 DEF LookupInv, AdditionInv, OwnersAlive
  <2> QED
    BY <2>2
<1>6. CASE call.op \in {"add_entity", "remove_entity", "destroy"}
  <2>1. UNCHANGED <<agent_side, crashed>> /\ graphCache_'.info = graphCache_.info
    <3> HIDE DEF call
    <3>1. add_entity(e, EntityQos[e]) \/ remove_entity(e)
          \/ UNCHANGED <<graphCache_, agent_side, crashed>>
      BY <1>1, <1>6 DEF Perform
    <3> QED
      BY <1>0, <3>1 DEF add_entity, remove_entity, ChangeIfAny, WithEntity, WithoutEntity, Cache
  <2>2. (Quiet(p) => Quiet(p)') /\ (Ready(p) => Ready(p)')
    BY <1>0, <2>1 DEF agent_side, Quiet, Ready, HasNode, Echoes
  <2> QED
    BY <1>0, <1>1, <1>2, <1>3, <2>1, <2>2 DEF ParticipantOk
<1>7. CASE call.op = "associate"
  <2>1. associate_entity(e) /\ life[p] = "alive" /\ Ready(p)
    BY <1>1, <1>2, <1>5, <1>7 DEF Perform, ParticipantOk, AdditionCalls
  <2>2. /\ graphCache_' = Associated(graphCache_, p, NodeOf(p), e)
        /\ UNCHANGED <<micro_ros_graph_datawriters_, samples, crashed>>
    BY <2>1 DEF associate_entity, Change, Ready, HasNode
  <2>3. graphCache_'.info[p].nodes = graphCache_.info[p].nodes
    <3> HIDE DEF e
    <3> QED
      BY <1>0, <2>2 DEF Associated, WithInfo, Cache, Info
  <2> QED
    BY <1>0, <1>1, <1>3, <2>1, <2>2, <2>3 DEF ParticipantOk, Ready, HasNode, Echoes
<1>8. CASE call.op = "write"
  <2>1. write_info(p) /\ life[p] = "alive" /\ Ready(p)
    BY <1>1, <1>2, <1>5, <1>8 DEF Perform, ParticipantOk, AdditionCalls
  <2>2. NodeOf(p) \in info.nodes
    BY <1>8 DEF LookupInv, AdditionInv, WritesNode, CallNext
  <2>3. /\ samples' = [samples EXCEPT ![p] = info]
        /\ UNCHANGED <<graphCache_, micro_ros_graph_datawriters_, crashed>>
    BY <2>1 DEF write_info, Ready
  <2> QED
    BY <1>0, <1>1, <1>3, <2>1, <2>2, <2>3 DEF ParticipantOk, Ready, HasNode, Echoes
<1> QED
  BY <1>4, <1>6, <1>7, <1>8 DEF EntityCalls

LEMMA CallParticipants ==
  ASSUME TypeOK, LookupInv, CallNext, NEW p \in Named
  PROVE  ParticipantOk(p)' /\ (CallGid = p => ~crashed')
<1> DEFINE x == Head(calls).on
<1>1. p \in Gids /\ ParticipantOk(p)
  BY ManagerAssumption DEF Named, LookupInv, ParticipantInv
<1>2. x \in Gids \cup Endpoints
  <2>1. Head(calls) \in Calls
    BY DEF TypeOK, CallNext
  <2> QED
    BY <2>1, ManagerAssumption DEF Calls, OwnEndpoints, Things
<1>3. CASE CallGid = p
  <2>1. x = p \/ (x \in Endpoints /\ OwnerOf[x] = p)
    BY <1>2, <1>3 DEF CallGid
  <2> QED
    BY <2>1, OwnCall, EndpointCall
<1>4. CASE CallGid # p
  <2>1. x # p
    BY <1>1, <1>4 DEF CallGid
  <2>2. ~Creating(p) /\ ~Deleting(p)
    BY <2>1 DEF Creating, Deleting, Call
  <2>3. NotConcerned(p)'
    BY <1>1, <2>2, NotConcernedByRest DEF ParticipantOk
  <2>4. /\ life'[p] = life[p] /\ (Quiet(p) => Quiet(p)') /\ (Ready(p) => Ready(p)')
    BY <1>4, CallKeepsOthers DEF Ready
  <2> QED
    BY <1>1, <1>4, <2>2, <2>3, <2>4 DEF ParticipantOk
<1> QED
  BY <1>3, <1>4

LEMMA CallAdditions ==
  ASSUME TypeOK, GhostInv, AdditionInv, CallNext
  PROVE  AdditionInv'
<1> DEFINE call == Head(calls)
           rest == Tail(calls)
<1>0. /\ calls \in Seq(Calls) /\ calls # <<>>
      /\ life \in [Things -> {"new", "alive", "dead"}]
      /\ calls' = (IF crashed' THEN calls ELSE rest)
      /\ life' = IF call.op = "destroy" THEN [life EXCEPT ![call.on] = "dead"] ELSE life
      /\ call \in Calls /\ Perform(call.op, call.on)
  BY DEF TypeOK, CallNext
<1>1. /\ call = calls[1] /\ Len(calls) \in Nat /\ Len(calls) > 0
      /\ rest \in Seq(Calls) /\ Len(rest) = Len(calls) - 1
      /\ \A i \in 1 .. Len(rest) : rest[i] = calls[i + 1]
  BY <1>0, TailIsRest
<1>2. CASE crashed'
  <2>1. ~crashed /\ call.op # "destroy" /\ UNCHANGED info
    <3>1. ~crashed
      BY DEF CallNext
    <3>2. call.op # "destroy"
      BY <1>0, <1>2, <3>1 DEF Perform
    <3>3. call.op \in ManagerCalls \cup EntityCalls
      BY <1>0, <3>2 DEF Calls
    <3>4. UNCHANGED info
      <4> HIDE DEF call
      <4> QED
        BY <1>0, <1>2, <3>1, <3>3 DEF Perform, ManagerCalls, EntityCalls, add_participant,
           add_node, announce, remove_participant, retract, add_entity, associate_entity,
           write_info, remove_entity, agent_side
    <3> QED
      BY <3>1, <3>2, <3>4
  <2> QED
    BY <1>0, <1>2, <2>1 DEF AdditionInv, Paired, OwnersAlive, WritesNode
<1>3. CASE ~crashed'
  <2>1. calls' = rest
    BY <1>0, <1>3
  <2>2. \A i \in 1 .. Len(rest) : i + 1 \in 1 .. Len(calls) /\ i + 1 \in 2 .. Len(calls)
    BY <1>1
  <2>3. Paired(rest)
    <3> SUFFICES ASSUME NEW i \in 2 .. Len(rest), rest[i].op = "write"
                 PROVE  rest[i - 1].op = "associate" /\ rest[i - 1].on = rest[i].on
      BY DEF Paired
    <3>1. i \in 1 .. Len(rest) /\ i - 1 \in 1 .. Len(rest) /\ i + 1 \in 2 .. Len(calls)
          /\ (i - 1) + 1 = i /\ (i + 1) - 1 = i
      BY <1>1
    <3>2. rest[i] = calls[i + 1] /\ rest[i - 1] = calls[i]
      BY <1>1, <3>1
    <3> QED
      BY <3>1, <3>2 DEF AdditionInv, Paired
  <2>4. ASSUME NEW i \in 1 .. Len(rest), rest[i].op \in AdditionCalls
        PROVE  life'[OwnerOf[rest[i].on]] = "alive"
    <3>1. rest[i] = calls[i + 1] /\ i + 1 \in 1 .. Len(calls)
      BY <1>1, <2>2
    <3>2. life[OwnerOf[rest[i].on]] = "alive"
      BY <2>4, <3>1 DEF AdditionInv, OwnersAlive
    <3>3. call.op # "destroy"
      <4> SUFFICES ASSUME call.op = "destroy" PROVE FALSE
        OBVIOUS
      <4>1. rest \in Seq(OtherCalls)
        BY <1>0, RestOfCallback DEF GhostInv
      <4>2. rest[i] \in OtherCalls
        <5> HIDE DEF rest
        <5> QED
          BY <4>1
      <4> QED
        BY <2>4, <4>2 DEF OtherCalls
    <3> QED
      BY <1>0, <3>2, <3>3
  <2>5. ASSUME rest # <<>>, Head(rest).op = "write"
        PROVE  NodeOf(OwnerOf[Head(rest).on]) \in info'.nodes
    <3>1. Head(rest) = rest[1] /\ 1 \in 1 .. Len(rest)
      <4> HIDE DEF rest
      <4> QED
        BY <1>1, <2>5, TailIsRest
    <3>2. rest[1] = calls[2] /\ 2 \in 2 .. Len(calls)
      BY <1>1, <2>2, <3>1
    <3>3. calls[2 - 1].op = "associate" /\ calls[2 - 1].on = calls[2].on
      BY <2>5, <3>1, <3>2 DEF AdditionInv, Paired
    <3>4. call.op = "associate" /\ call.on = Head(rest).on
      BY <1>1, <3>1, <3>2, <3>3
    <3>5. associate_entity(call.on)
      BY <1>0, <3>4 DEF Perform
    <3>6. call.on \in Endpoints /\ OwnerOf[call.on] \in Gids
      BY <1>0, <3>4, ManagerAssumption DEF Calls, ManagerCalls, OwnEndpoints
    <3> DEFINE p == OwnerOf[call.on]
    <3>7. /\ NodeOf(p) \in graphCache_.info[p].nodes
          /\ info' = Associated(graphCache_, p, NodeOf(p), call.on).info[p]
      BY <1>3, <3>5 DEF associate_entity
    <3>8. info'.nodes = graphCache_.info[p].nodes
      <4>1. graphCache_ \in Cache
        BY DEF TypeOK
      <4> QED
        BY <3>6, <3>7, <4>1 DEF Associated, WithInfo, Cache, Info
    <3> QED
      BY <3>4, <3>7, <3>8
  <2> QED
    BY <2>1, <2>3, <2>4, <2>5 DEF AdditionInv, Paired, OwnersAlive, WritesNode
<1> QED
  BY <1>2, <1>3

LEMMA NoAdditions ==
  ASSUME NEW seq \in Seq(OtherCalls)
  PROVE  /\ \A i \in 1 .. Len(seq) : seq[i].op \notin AdditionCalls
         /\ seq # <<>> => Head(seq).op \notin AdditionCalls
<1>1. \A i \in 1 .. Len(seq) : seq[i] \in OtherCalls
  OBVIOUS
<1>2. seq # <<>> => Head(seq) \in OtherCalls
  BY HeadTailProperties
<1> QED
  BY <1>1, <1>2 DEF OtherCalls

\* The calls that add the parts of an object: registered, associated, written.
LEMMA AddingIsPaired ==
  ASSUME NEW o \in Objects
  PROVE  /\ Paired(ForParts(o, Adding))
         /\ ForParts(o, Adding) # <<>> /\ Head(ForParts(o, Adding)).op = "add_entity"
<1> DEFINE a == Parts[o][1]
           b == Parts[o][2]
           A == Additions(PartsOf(o))
           first == Adding(a)
           second == Adding(b)
           both == first \o second
<1>1. ForParts(o, Adding) = IF Len(Parts[o]) = 1 THEN first ELSE both
  BY DEF ForParts
<1>2. \A e : /\ Len(Adding(e)) = 3 /\ Adding(e) # <<>> /\ Head(Adding(e)) = Adding(e)[1]
             /\ Adding(e)[1].op = "add_entity" /\ Adding(e)[2].op = "associate"
             /\ Adding(e)[2].on = e /\ Adding(e)[3].on = e
  BY DEF Adding, Call
<1>3. CASE Len(Parts[o]) = 1
  <2>1. 2 .. 3 = {2, 3}
    OBVIOUS
  <2> QED
    BY <1>1, <1>2, <1>3, <2>1 DEF Paired
<1>4. CASE Len(Parts[o]) # 1
  <2>1. first \in Seq(Calls) /\ second \in Seq(Calls)
    <3>1. \A e \in OwnEndpoints : Call("add_entity", e) \in Calls
                                  /\ Call("associate", e) \in Calls /\ Call("write", e) \in Calls
      BY DEF Calls, EntityCalls, Call
    <3>2. a \in OwnEndpoints /\ b \in OwnEndpoints
      BY <1>4, PartsOfObject
    <3> QED
      BY <3>1, <3>2 DEF Adding
  <2>2. /\ both \in Seq(Calls) /\ Len(both) = 6
        /\ \A i \in 1 .. 6 : both[i] = IF i <= 3 THEN first[i] ELSE second[i - 3]
    <3>1. Len(first) = 3 /\ Len(second) = 3
      BY <1>2
    <3> HIDE DEF first, second
    <3>2. /\ first \o second \in Seq(Calls) /\ Len(first \o second) = Len(first) + Len(second)
          /\ \A i \in 1 .. Len(first) + Len(second) : (first \o second)[i] =
               IF i <= Len(first) THEN first[i] ELSE second[i - Len(first)]
      BY <2>1, ConcatProperties
    <3>3. Len(first) + Len(second) = 6
      BY <3>1
    <3> QED
      BY <3>1, <3>2, <3>3
  <2>3. both[1] = first[1] /\ both[2] = first[2] /\ both[3] = first[3]
    BY <2>2
  <2>4. both[4] = second[1] /\ both[5] = second[2] /\ both[6] = second[3]
    BY <2>2
  <2>5. both # <<>> /\ Head(both) = both[1]
    <3> HIDE DEF both
    <3>1. both # <<>>
      <4>1. Len(both) # 0
        BY <2>2
      <4>2. both = <<>> => Len(both) = 0
        BY EmptyLength, Zenon
      <4> QED
        BY <4>1, <4>2
    <3> QED
      BY <2>2, <3>1, TailIsRest
  <2>6. 2 .. 6 = {2, 3, 4, 5, 6}
    OBVIOUS
  <2>7. Paired(both) /\ Head(both).op = "add_entity"
    <3> HIDE DEF both, first, second
    <3>1. /\ first[1].op = "add_entity" /\ first[2].op = "associate" /\ first[2].on = a
          /\ first[3].on = a
          /\ second[1].op = "add_entity" /\ second[2].op = "associate" /\ second[2].on = b
          /\ second[3].on = b
      BY <1>2 DEF first, second
    <3> QED
      BY <2>2, <2>3, <2>4, <2>5, <2>6, <3>1 DEF Paired
  <2> HIDE DEF both
  <2> QED
    BY <1>1, <1>4, <2>5, <2>7
<1> QED
  BY <1>3, <1>4

LEMMA BeginLookup ==
  ASSUME TypeOK, LookupInv, Callback
  PROVE  ParticipantInv' /\ AdditionInv'
<1>0. /\ life \in [Things -> {"new", "alive", "dead"}]
      /\ calls = <<>> /\ Len(calls) = 0
      /\ \A p \in Named : p \in Gids /\ p \in Things
  <2>1. calls = <<>>
    BY DEF Callback, on_create, on_delete, on_create_participant, on_delete_participant, Begin
  <2> QED
    BY <2>1, EmptyLength, ManagerAssumption DEF TypeOK, Named, Things
<1>1. \A p \in Named : life[p] = "alive" => Ready(p)
  BY <1>0 DEF LookupInv, ParticipantInv, ParticipantOk, Creating, Deleting, Call
<1>2. \A p \in Named : life[p] = "new" => Quiet(p)
  BY DEF LookupInv, ParticipantInv, ParticipantOk
<1>3. UNCHANGED manager_vars
  BY DEF Callback, on_create, on_delete, on_create_participant, on_delete_participant, Begin
<1>4. \A p \in Named : (Ready(p) => Ready(p)') /\ (Quiet(p) => Quiet(p)')
  BY <1>3 DEF manager_vars, agent_side, Ready, Quiet, Echoes, HasNode
<1>5. ASSUME NEW q \in MicroRos, on_create_participant(q) \/ on_delete_participant(q)
      PROVE  ParticipantInv' /\ AdditionInv'
  <2>0. q \in Gids /\ q \in Things
    BY ManagerAssumption DEF Things
  <2> DEFINE brief == <<Call("add_participant", q)>>
             create == <<Call("add_participant", q), Call("add_node", q), Call("announce", q)>>
             delete == <<Call("remove_participant", q), Call("retract", q), Call("destroy", q)>>
  <2>1. \/ Begin({q}, "new", "alive", brief) /\ IsRoot(q)
        \/ Begin({q}, "new", "alive", create) /\ ~IsRoot(q)
        \/ Begin({q}, "alive", "alive", delete)
    BY <1>5 DEF on_create_participant, on_delete_participant
  <2>2. calls' \in {brief, create, delete} /\ life' = [life EXCEPT ![q] = "alive"]
    BY <1>0, <2>0, <2>1 DEF Begin
  <2>3. AdditionInv'
    <3>1. /\ \A op \in ManagerCalls : Call(op, q) \in OtherCalls
          /\ Call("destroy", q) \in OtherCalls
      BY <2>0 DEF OtherCalls, AdditionCalls, Calls, ManagerCalls, Call
    <3>2. brief \in Seq(OtherCalls) /\ create \in Seq(OtherCalls) /\ delete \in Seq(OtherCalls)
      BY <3>1 DEF ManagerCalls
    <3>3. calls' \in Seq(OtherCalls)
      BY <2>2, <3>2
    <3>4. (\A i \in 1 .. Len(calls') : calls'[i].op \notin AdditionCalls)
          /\ (calls' # <<>> => Head(calls').op \notin AdditionCalls)
      BY <3>3, NoAdditions
    <3>5. \A i \in 2 .. Len(calls') : i \in 1 .. Len(calls')
      BY <3>3
    <3> QED
      BY <3>4, <3>5 DEF AdditionInv, Paired, OwnersAlive, WritesNode, AdditionCalls
  <2>4. ASSUME NEW p \in Named PROVE ParticipantOk(p)'
    <3>1. CASE p # q
      <4>1. NotConcerned(p)'
        BY <2>2, <3>1 DEF NotConcerned, Call
      <4>2. life'[p] = life[p]
        BY <2>2, <3>1
      <4> QED
        BY <1>1, <1>2, <1>4, <4>1, <4>2 DEF ParticipantOk
    <3>2. CASE p = q
      <4>1. life'[p] = "alive"
        BY <1>0, <2>2, <3>2
      <4>2. Creating(p)' \/ Deleting(p)'
        <5>1. ASSUME Begin({q}, "new", "alive", create) PROVE Creating(p)'
          <6>1. calls' = create /\ life[p] = "new"
            BY <3>2, <5>1 DEF Begin
          <6>2. Quiet(p)'
            BY <1>2, <1>4, <6>1
          <6> QED
            BY <3>2, <6>1, <6>2 DEF Creating
        <5>2. ASSUME Begin({q}, "alive", "alive", delete) PROVE Deleting(p)'
          <6>1. calls' = delete /\ life[p] = "alive"
            BY <3>2, <5>2 DEF Begin
          <6>2. p \in micro_ros_graph_datawriters_'
            BY <1>1, <1>4, <6>1 DEF Ready
          <6> QED
            BY <3>2, <6>1, <6>2 DEF Deleting
        <5> QED
          BY <2>1, <3>2, <5>1, <5>2 DEF Named
      <4> QED
        BY <4>1, <4>2 DEF ParticipantOk
    <3> QED
      BY <3>1, <3>2
  <2> QED
    BY <2>3, <2>4 DEF ParticipantInv
<1>6. ASSUME NEW o \in Objects, on_create(o) \/ on_delete(o)
      PROVE  ParticipantInv' /\ AdditionInv'
  <2>1. /\ life' = [x \in Things |-> IF x \in PartsOf(o) THEN "alive" ELSE life[x]]
        /\ \/ /\ calls' = ForParts(o, Adding)
              /\ life[OwnerOf[Parts[o][1]]] = "alive"
           \/ calls' = RemovingAll(o)
    BY <1>6 DEF on_create, on_delete, Begin
  <2>2. calls' \in Seq(Additions(PartsOf(o))) \cup Seq(OtherCalls)
    BY <2>1, AddingParts, RemovingParts
  <2>3. PartsOf(o) \subseteq OwnEndpoints /\ PartsOf(o) \cap Gids = {}
    BY PartsOfObject, AgentAssumption DEF OwnEndpoints
  <2>4. \A g \in Gids : life'[g] = life[g]
    BY <2>1, <2>3 DEF Things
  <2>5. ASSUME NEW p \in Named PROVE ParticipantOk(p)'
    <3>1. \A i \in 1 .. Len(calls') : calls'[i].on # p
      <4>1. CASE calls' \in Seq(Additions(PartsOf(o)))
        <5>1. \A i \in 1 .. Len(calls') : calls'[i] \in Additions(PartsOf(o))
          BY <4>1
        <5> QED
          BY <1>0, <2>3, <5>1 DEF Additions
      <4>2. CASE calls' = RemovingAll(o)
        <5>1. \A i \in 1 .. Len(calls') : calls'[i] \in DeletionCalls(PartsOf(o))
          BY <4>2, RemovingParts
        <5> QED
          BY <1>0, <2>3, <5>1 DEF DeletionCalls
      <4> QED
        BY <2>1, <4>1, <4>2, AddingParts
    <3>2. NotConcerned(p)'
      BY <3>1 DEF NotConcerned
    <3>3. life'[p] = life[p]
      BY <1>0, <2>4
    <3> QED
      BY <1>1, <1>2, <1>4, <3>2, <3>3 DEF ParticipantOk
  <2>6. AdditionInv'
    <3>1. CASE calls' = ForParts(o, Adding) /\ life[OwnerOf[Parts[o][1]]] = "alive"
      <4>1. Paired(calls') /\ calls' # <<>> /\ Head(calls').op = "add_entity"
        BY <3>1, AddingIsPaired
      <4>2. \A i \in 1 .. Len(calls') : calls'[i].on \in PartsOf(o)
        <5>1. \A i \in 1 .. Len(calls') : calls'[i] \in Additions(PartsOf(o))
          BY <3>1, AddingParts
        <5> QED
          BY <5>1 DEF Additions
      <4>3. \A e \in PartsOf(o) : OwnerOf[e] = OwnerOf[Parts[o][1]] /\ OwnerOf[e] \in Gids
        BY PartsOfObject, AgentAssumption, ManagerAssumption DEF OwnEndpoints
      <4>4. \A e \in PartsOf(o) : life'[OwnerOf[e]] = "alive"
        BY <2>4, <3>1, <4>3
      <4> QED
        BY <4>1, <4>2, <4>4 DEF AdditionInv, Paired, OwnersAlive, WritesNode
    <3>2. CASE calls' = RemovingAll(o)
      <4>1. calls' \in Seq(OtherCalls)
        BY <3>2, RemovingParts
      <4>2. (\A i \in 1 .. Len(calls') : calls'[i].op \notin AdditionCalls)
            /\ (calls' # <<>> => Head(calls').op \notin AdditionCalls)
        BY <4>1, NoAdditions
      <4>3. \A i \in 2 .. Len(calls') : i \in 1 .. Len(calls')
        BY <4>1
      <4> QED
        BY <4>2, <4>3 DEF AdditionInv, Paired, OwnersAlive, WritesNode, AdditionCalls
    <3> QED
      BY <2>1, <3>1, <3>2
  <2> QED
    BY <2>5, <2>6 DEF ParticipantInv
<1> QED
  BY <1>5, <1>6 DEF Callback

LEMMA NextLookup == TypeOK /\ GhostInv /\ LookupInv /\ [Next]_vars => LookupInv'
<1> SUFFICES ASSUME TypeOK, GhostInv, LookupInv, [Next]_vars PROVE LookupInv'
  OBVIOUS
<1>1. CASE crashed
  <2>1. UNCHANGED vars
    BY <1>1, CrashIsFinal
  <2> QED
    BY <2>1 DEF vars, manager_vars, agent_side, LookupInv, ParticipantInv, ParticipantOk,
       AdditionInv, LookupsFindTheirEntry, CallGid, Quiet, NotConcerned, Creating, Deleting,
       Ready, HasNode, Echoes, Paired, OwnersAlive, WritesNode
<1>2. CASE ~crashed /\ CallNext
  <2>1. ParticipantInv' /\ AdditionInv'
    BY <1>2, CallParticipants, CallAdditions DEF ParticipantInv, LookupInv
  <2>2. ASSUME crashed' PROVE IsRoot(CallGid) /\ calls' = calls
    <3> DEFINE call == Head(calls)
    <3>1. call \in Calls /\ Perform(call.op, call.on) /\ calls' = calls
      BY <1>2, <2>2 DEF CallNext, TypeOK
    <3>2. call.op # "destroy"
      <4> SUFFICES ASSUME call.op = "destroy" PROVE FALSE
        OBVIOUS
      <4>1. UNCHANGED crashed
        BY <3>1 DEF Perform
      <4> QED
        BY <4>1, <1>2, <2>2
    <3>3. CallGid \in MicroRos
      BY <3>1, <3>2, ManagerAssumption, AgentAssumption DEF Calls, OwnEndpoints, CallGid
    <3>4. CallGid \notin Named
      BY <1>2, <2>2, CallParticipants
    <3> QED
      BY <3>1, <3>3, <3>4 DEF Named
  <2>3. LookupsFindTheirEntry'
    BY <2>2 DEF LookupsFindTheirEntry, CallGid
  <2> QED
    BY <2>1, <2>3 DEF LookupInv
<1>3. CASE ~crashed /\ ~CallNext
  <2>1. ~crashed'
    BY <1>3 DEF Next, Callback, on_create, on_delete, on_create_participant,
       on_delete_participant, Begin, manager_vars, Listener, take_next_sample,
       sample_replaced, update_participant_entities, Publisher, publish_microros_graph,
       publisher_only, wait_graph_changed, get_node_names, get_writer_names,
       get_reader_names, get_service_servers, get_service_clients, write_graph, Discovered,
       Removed, discovered_participant, removed_participant, remove_participant,
       discovered_endpoint, add_entity, removed_endpoint, remove_entity, Join, Leave, vars
  <2>2. LookupsFindTheirEntry'
    BY <2>1 DEF LookupsFindTheirEntry
  <2>3. CASE Callback
    BY <2>2, <2>3, BeginLookup DEF LookupInv
  <2>4. CASE ~Callback
    <3>1. calls' = calls /\ \A g \in MicroRos : life'[g] = life[g]
      <4>1. CASE \E g \in Others : Join(g) \/ Leave(g)
        <5>1. PICK g \in Others : Join(g) \/ Leave(g)
          BY <4>1
        <5>2. \A q \in MicroRos : q \in Things /\ q \notin Ours(g)
          BY ManagerAssumption, AgentAssumption DEF Things, Ours, EndpointsOf, Others
        <5> QED
          BY <5>1, <5>2 DEF Join, Leave
      <4>2. CASE ~(\E g \in Others : Join(g) \/ Leave(g))
        BY <1>3, <2>4, <4>2 DEF Next, Listener, Publisher, Discovered, Removed, vars
      <4> QED
        BY <4>1, <4>2
    <3>2. ASSUME NEW p \in Named PROVE ParticipantOk(p)'
      <4>1. ParticipantOk(p) /\ life'[p] = life[p] /\ p \in Things
        BY <3>1, ManagerAssumption DEF LookupInv, ParticipantInv, Named, Things
      <4>2. NotConcerned(p) => NotConcerned(p)'
        BY <3>1 DEF NotConcerned
      <4>3. CASE life[p] = "dead"
        BY <4>1, <4>2, <4>3 DEF ParticipantOk
      <4>4. CASE life[p] # "dead"
        <5>1. /\ UNCHANGED <<micro_ros_graph_datawriters_, info>>
              /\ Quiet(p) => Quiet(p)'
              /\ Echoes(p) /\ HasNode(p) => Echoes(p)' /\ HasNode(p)'
          BY <1>3, <4>4, OthersKeepNode
        <5>2. Quiet(p) => Echoes(p)
          BY DEF Quiet, Echoes
        <5>3. Creating(p) => Creating(p)'
          BY <3>1, <5>1, <5>2 DEF Creating
        <5>4. Deleting(p) => Deleting(p)'
          BY <3>1, <5>1 DEF Deleting
        <5>5. Ready(p) => Ready(p)'
          BY <5>1 DEF Ready
        <5> QED
          BY <4>1, <4>2, <5>1, <5>3, <5>4, <5>5 DEF ParticipantOk
      <4> QED
        BY <4>3, <4>4
    <3>3. AdditionInv'
      <4>1. \A i \in 1 .. Len(calls) :
              calls[i].op \in AdditionCalls => OwnerOf[calls[i].on] \in MicroRos
        <5>1. \A i \in 1 .. Len(calls) : calls[i] \in Calls
          BY DEF TypeOK
        <5> QED
          BY <5>1 DEF Calls, AdditionCalls, ManagerCalls, OwnEndpoints
      <4>2. UNCHANGED info
        BY <1>3, <2>4 DEF Next, Listener, take_next_sample, sample_replaced,
           update_participant_entities, Publisher, publish_microros_graph, publisher_only,
           wait_graph_changed, get_node_names, get_writer_names, get_reader_names,
           get_service_servers, get_service_clients, write_graph, agent_side, Discovered,
           Removed, discovered_participant, removed_participant, remove_participant,
           discovered_endpoint, add_entity, removed_endpoint, remove_entity, Join, Leave,
           vars, manager_vars
      <4> QED
        BY <3>1, <4>1, <4>2 DEF LookupInv, AdditionInv, Paired, OwnersAlive, WritesNode
    <3> QED
      BY <2>2, <3>2, <3>3 DEF LookupInv, ParticipantInv
  <2> QED
    BY <2>3, <2>4
<1> QED
  BY <1>1, <1>2, <1>3

\* Only the root participant's calls can use an entry that is not there: for all
\* others remove_participant and associate_entity find what they look up.
THEOREM OnlyTheRootIsMissing == Spec => []LookupsFindTheirEntry
<1>1. LookupInv => LookupsFindTheirEntry
  BY DEF LookupInv
<1> QED
  BY <1>1, InitTypes, NextTypes, InitGhost, NextGhost, InitLookup, NextLookup, PTL DEF Spec
=============================================================================
