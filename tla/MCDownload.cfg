CONSTANTS
  b1 = b1
  b2 = b2
  b3 = b3
  p1 = p1
  p2 = p2
  NoBlock = NoBlock
  NoPeer = NoPeer
  Block = {b1, b2, b3}
  Peer = {p1, p2}
  Loopback = {p2}
  Height <- MCHeight
  HashOf <- MCHashOf
  Chain <- MCChain
  InitialSlots = 2
  QueueCap = 2
  MaxTotalIbd = 2
  MaxTotal = 1
  MaxPerPeer = 1
  MinPerPeer = 1
  MaxPerLoopback = 2
  Batches = {2}
  SizeModulus = 65536
  GapWindow = 2
  PriorityN = 1
  HighWater = 1
  MaxFaults = 1
SPECIFICATION MCSpec
INVARIANTS TableIsMap QueueSound
PROPERTIES AssignWithinLimits NothingLost 
