------------------------------ MODULE Demangle ------------------------------
(***************************************************************************)
(* The name demangling of the micro-ROS agent (demangle.cpp).  A DDS topic *)
(* or type name is the sequence of the parts that matter here: a topic is  *)
(* <<"rt", "depth_data">> or <<"rq", "arm", "Request">>, a type is         *)
(* <<"snappy_cpp", "dds_::", "Pose", "_">>, or ends in                     *)
(* "_Request", "_".  The empty sequence is the empty string.               *)
(***************************************************************************)
EXTENDS Naturals, Sequences

Word == STRING
Blank == <<>>

\* The prefix has to be followed by the rest of a topic.
_resolve_prefix(name, prefix) ==
  IF name # Blank /\ Head(name) = prefix THEN Tail(name) ELSE Blank

demangle_ros_topic_from_topic(topic_name) == _resolve_prefix(topic_name, "rt")

\* A suffix that is missing or not at the end: not a service.
_demangle_service_from_topic(prefix, topic_name, suffix) ==
  LET service_name == _resolve_prefix(topic_name, prefix)
      n == Len(service_name)
  IN IF n > 0 /\ service_name[n] = suffix THEN SubSeq(service_name, 1, n - 1)
     ELSE Blank

demangle_service_request_from_topic(topic_name) ==
  _demangle_service_from_topic("rq", topic_name, "Request")

demangle_service_reply_from_topic(topic_name) ==
  _demangle_service_from_topic("rr", topic_name, "Reply")

\* string::find and rfind: a position, or 0 for npos.
find(name, part) ==
  LET found == {i \in DOMAIN name : name[i] = part}
  IN IF found = {} THEN 0 ELSE CHOOSE i \in found : \A j \in found : i <= j

rfind(name, part) ==
  LET found == {i \in DOMAIN name : name[i] = part}
  IN IF found = {} THEN 0 ELSE CHOOSE i \in found : \A j \in found : j <= i

\* "dds_::" goes, and so does the final "_"; other types are left as they are.
demangle_if_ros_type(type) ==
  LET n == Len(type)
      dds == find(type, "dds_::")
  IN IF n = 0 \/ type[n] # "_" \/ dds = 0 THEN type
     ELSE SubSeq(type, 1, dds - 1) \o SubSeq(type, dds + 1, n - 1)

\* The loop over the suffixes stops at one that ends the type.  One that is
\* elsewhere only logs, and the position of the last suffix tried is kept.
demangle_service_type_only(type) ==
  LET dds == find(type, "dds_::")
      AtEnd(i) == i > 0 /\ i + 1 = Len(type) /\ type[i + 1] = "_"
      response == rfind(type, "_Response")
      suffix == IF AtEnd(response) THEN response ELSE rfind(type, "_Request")
  IN IF dds = 0 \/ suffix = 0 THEN Blank
     ELSE SubSeq(type, 1, dds - 1) \o SubSeq(type, dds + 1, suffix - 1)
=============================================================================
