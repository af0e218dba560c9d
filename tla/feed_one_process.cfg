SPECIFICATION FairSpec
CONSTANTS
  s1 = s1
  s2 = s2
  b1 = b1
  b2 = b2
  m1 = m1
  api = api
  worker = worker
  Processes = {api}
  Sockets <- TwoSockets
  Publishers <- TwoPublishers
  Migrations = {m1}
  HostOf <- OneProcess
  ChannelOf <- OneChannel
  NumEvents <- TwoAndOne
INVARIANTS TypeOK EndedIsForgotten InOrder Delivered
PROPERTY GoneIsForgotten
CHECK_DEADLOCK FALSE
