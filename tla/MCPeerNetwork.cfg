SPECIFICATION Spec
CONSTANTS
  Peers = {p1, p2}
  p1 = p1
  p2 = p2
  Bootnodes <- MCBootnodes
  MaxEstablished = 3
  MaxConnections = 2
INVARIANTS
  RolesDisjoint
  CountedPeersConnected
PROPERTY Rejoins
