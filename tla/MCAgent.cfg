SPECIFICATION FairSpec
CONSTANTS
  Gids = {1, 2, 3}
  MicroRos = {1, 2}
  Enclave = {1, 2, 3}
  ParticipantName <- MCParticipantName
  NodeNames <- MCNodeNames
  Endpoints <- MCEndpoints
  Readers = {request}
  status = status
  reply = reply
  request = request
  task = task
  TopicName <- MCTopicName
  TypeName <- MCTypeName
  OwnerOf <- MCOwnerOf
  EntityQos <- MCEntityQos
  Objects = {"publisher", "replier"}
  Parts <- MCParts
  RemoteInfo <- MCRemoteInfo
  Durations = {"infinite"}
  DefaultDuration = "infinite"
  NotRecorded = NotRecorded
  NoSample = NoSample
  NoNode = NoNode
  MaxThings = 3
INVARIANTS
  TypeOK
  SleepsOnlyWhenCurrent
  LookupsFindTheirEntry
  NoGhostEndpoints
  ProfileIsItsOwn
PROPERTY
  EventuallyCurrent
\* The participants and endpoints of the instance live once.
CHECK_DEADLOCK FALSE
