SPECIFICATION FairSpec
CONSTANTS
  a = a
  b = b
  Agents = {a, b}
  Unix = {}
  Eager = {}
  Passive = {b}
  Rude = {}
  Impatient = {}
  Listeners = {a, b}
  Broadcast = Broadcast
  ChanCap = 1
  SockCap = 1
  MaxSend = 3
PROPERTY NobodyStuck
PROPERTY Delivered
PROPERTY DisconnectedRemoved
CHECK_DEADLOCK FALSE
