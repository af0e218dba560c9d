SPECIFICATION Spec
CONSTANTS
  s1 = s1
  s2 = s2
  b1 = b1
  b2 = b2
  m1 = m1
  api = api
  worker = worker
  Processes = {api, worker}
  Sockets <- TwoSockets
  Publishers <- TwoPublishers
  Migrations = {m1}
  HostOf <- AsDeployed
  ChannelOf <- OneChannel
  NumEvents <- TwoAndOne
INVARIANT Delivered
CHECK_DEADLOCK FALSE
