SPECIFICATION Spec
CONSTANTS
  Event <- MCEvent
  NoEvent = 0
  Sizes = {2, 3}
  Word = 64
  Reloads = {c1, c2}
  c1 = c1
  c2 = c2
  Streams = {s1, s2}
  s1 = s1
  s2 = s2
  Nobody = Nobody
  ChannelSize = 2
  BufSize = 2
  HostOf <- MCHostOf
  Instances <- MCInstances
INVARIANTS StreamsExact PushedOnce TailQueryExact
PROPERTIES ImplementsLog NobodyWaits
CHECK_DEADLOCK FALSE
