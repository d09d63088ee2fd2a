------------------------------- MODULE MCAgent -------------------------------
(* Agent with a micro-controller's participant 1, the root participant 2 and  *)
(* another ROS 2 participant 3; 1 has a publisher and a replier, 3 has a      *)
(* publisher.                                                                 *)
EXTENDS Agent, TLC

CONSTANTS status, reply, request, task   \* endpoints

MCParticipantName == (1 :> <<"nano", "motors">>) @@ (2 :> <<>>)
MCRemoteNode == [namespace |-> <<>>, name |-> <<"planner">>]
MCNodeNames == {MCRemoteNode} \cup {get_name_and_namespace(MCParticipantName[p]) : p \in {1, 2}}

MCEndpoints == {status, reply, request, task}
MCTopicName ==
  status :> <<"rt", "status">> @@ task :> <<"rt", "task">> @@
  reply :> <<"rr", "arm", "Reply">> @@ request :> <<"rq", "arm", "Request">>
MCTypeName ==
  status :> <<"std_msgs", "dds_::", "Int8", "_">> @@
  task :> <<"snappy_cpp", "dds_::", "Task", "_">> @@
  reply :> <<"std_srvs", "dds_::", "SetBool", "_Response", "_">> @@
  request :> <<"std_srvs", "dds_::", "SetBool", "_Request", "_">>
MCOwnerOf == [e \in MCEndpoints |-> IF e = task THEN 3 ELSE IF e = status THEN 2 ELSE 1]
MCEntityQos ==
  [e \in MCEndpoints |->
    [reliability |-> "RELIABLE",
     durability |-> IF e = request THEN "TRANSIENT_LOCAL" ELSE "VOLATILE",
     liveliness |-> "MANUAL_BY_PARTICIPANT", deadline |-> "infinite",
     lifespan |-> "infinite", lease |-> "infinite", history |-> "KEEP_ALL"]]
MCParts == "publisher" :> <<status>> @@ "replier" :> <<reply, request>>
MCRemoteInfo == 3 :> [nodes |-> {MCRemoteNode}, gids |-> {<<MCRemoteNode, task>>}]
=============================================================================
