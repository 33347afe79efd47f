SPECIFICATION Spec
CONSTANTS
  a = a
  b = b
  c = c
  Agents = {a, b, c}
  Unix = {b}
  Eager = {b}
  Passive = {b, c}
  Rude = {a}
  Impatient = {c}
  Listeners = {}
  Broadcast = Broadcast
  ChanCap = 1
  SockCap = 1
  MaxSend = 2
INVARIANT TypeOK
INVARIANT HandshakeClean
INVARIANT InOrder
INVARIANT OnlyRecipients
INVARIANT RegistryExact
PROPERTY RoutedToAll
CHECK_DEADLOCK FALSE
