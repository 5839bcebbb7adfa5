-------------------------- MODULE PeerNetworkProofs --------------------------
(***************************************************************************)
(* The roles that Network keeps are consistent, for any number of peers    *)
(* and connections and any order of swarm events.                          *)
(***************************************************************************)
EXTENDS PeerNetwork, TLAPS

Inv == TypeOK /\ RolesDisjoint /\ CountedPeersConnected

\* The network starts without peers.
LEMMA InitInv ==
  ASSUME Init
  PROVE  Inv
BY PeerConstants DEF Init, Inv, BootnodePeerIds, TypeOK, RolesDisjoint, CountedPeersConnected

\* A new connection, a dial or its failure, and a protocol that opens leave the
\* roles alone and disconnect nobody.
LEMMA SwarmInv ==
  ASSUME Inv, NEW p \in Peers,
         \/ ConnectionEstablished(p) \/ DialFails(p) \/ RoutablePeer(p)
         \/ RoutingUpdated(p)
         \/ \E role \in Roles : OpenProtocol(p, role)
  PROVE  Inv'
<1>1. UNCHANGED <<authorities, fullnodes, stale>>
  BY DEF ConnectionEstablished, DialFails, RoutablePeer, RoutingUpdated,
         OpenProtocol
<1>2. dialing' \subseteq Peers /\ known' \subseteq Peers
  BY DEF ConnectionEstablished, DialFails, RoutablePeer, RoutingUpdated,
         OpenProtocol, Inv, TypeOK
<1>3. opened' \subseteq [peer : Peers, role : Roles]
  BY DEF ConnectionEstablished, DialFails, RoutablePeer, RoutingUpdated,
         OpenProtocol, Inv, TypeOK
<1>4. \/ established' = established
      \/ established' = [established EXCEPT ![p] = established[p] + 1]
  BY DEF ConnectionEstablished, DialFails, RoutablePeer, RoutingUpdated,
         OpenProtocol
<1>5. established' \in [Peers -> Nat] /\ Connected \subseteq Connected'
  BY <1>4 DEF Inv, TypeOK, Connected
<1> QED
  BY <1>1, <1>2, <1>3, <1>5 DEF Inv, TypeOK, RolesDisjoint, CountedPeersConnected

\* The periodic query only dials.
LEMMA DiscoveryInv ==
  ASSUME Inv, DiscoveryTick
  PROVE  Inv'
BY DEF DiscoveryTick, Inv, TypeOK, RolesDisjoint, CountedPeersConnected, Connected

\* add_peer_role moves the peer from one role to the other.
LEMMA ProtocolOpenInv ==
  ASSUME Inv, NEW e \in opened, ProtocolOpen(e)
  PROVE  Inv'
<1>1. e.peer \in Peers /\ e.role \in Roles
  BY DEF Inv, TypeOK
<1>2. /\ opened' = opened \ {e}
      /\ stale' = IF e.peer \in Connected THEN stale ELSE stale \cup {e.peer}
      /\ UNCHANGED <<established, dialing, known>>
  BY DEF ProtocolOpen
<1>3. \/ authorities' = authorities \ {e.peer} /\ fullnodes' = fullnodes \cup {e.peer}
      \/ UNCHANGED <<authorities, fullnodes>>
      \/ fullnodes' = fullnodes \ {e.peer} /\ authorities' = authorities \cup {e.peer}
  BY <1>1 DEF ProtocolOpen, AddPeerRole, Roles
<1>4. TypeOK'
  BY <1>1, <1>2, <1>3 DEF Inv, TypeOK
<1>5. RolesDisjoint'
  BY <1>3 DEF Inv, RolesDisjoint
<1>6. CountedPeersConnected'
  BY <1>2, <1>3 DEF Inv, CountedPeersConnected, Connected
<1> QED
  BY <1>4, <1>5, <1>6 DEF Inv

\* The last connection of a peer takes its role with it; before, it stays connected.
LEMMA ConnectionClosedInv ==
  ASSUME Inv, NEW p \in Peers, ConnectionClosed(p)
  PROVE  Inv'
<1>1. /\ established[p] \in Nat /\ established[p] > 0
      /\ established' = [established EXCEPT ![p] = established[p] - 1]
      /\ UNCHANGED <<dialing, known, opened>>
  BY DEF ConnectionClosed, Connected, Inv, TypeOK
<1>2. established' \in [Peers -> Nat]
  BY <1>1 DEF Inv, TypeOK
<1>3. CASE established[p] = 1
  <2>1. /\ authorities' = authorities \ {p} /\ fullnodes' = fullnodes \ {p}
        /\ stale' = stale \ {p}
    BY <1>3 DEF ConnectionClosed, Forget
  <2>2. Connected \subseteq Connected' \cup {p}
    BY <1>1 DEF Connected, Inv, TypeOK
  <2> QED
    BY <1>1, <1>2, <2>1, <2>2
       DEF Inv, TypeOK, RolesDisjoint, CountedPeersConnected
<1>4. CASE established[p] # 1
  <2>1. UNCHANGED <<authorities, fullnodes, stale>>
    BY <1>4 DEF ConnectionClosed
  <2>2. Connected \subseteq Connected'
    BY <1>1, <1>4 DEF Connected, Inv, TypeOK
  <2> QED
    BY <1>1, <1>2, <2>1, <2>2
       DEF Inv, TypeOK, RolesDisjoint, CountedPeersConnected
<1> QED
  BY <1>3, <1>4

\* The three invariants hold throughout.
LEMMA Invariance == Spec => []Inv
<1>1. Init => Inv
  BY InitInv
<1>2. Inv /\ [Next]_vars => Inv'
  <2> SUFFICES ASSUME Inv, [Next]_vars PROVE Inv'
    OBVIOUS
  <2>1. ASSUME NEW p \in Peers,
               \/ ConnectionEstablished(p) \/ DialFails(p) \/ RoutablePeer(p)
               \/ RoutingUpdated(p)
               \/ \E role \in Roles : OpenProtocol(p, role)
        PROVE  Inv'
    BY <2>1, SwarmInv
  <2>2. ASSUME NEW p \in Peers, ConnectionClosed(p) PROVE Inv'
    BY <2>2, ConnectionClosedInv
  <2>3. ASSUME NEW e \in opened, ProtocolOpen(e) PROVE Inv'
    BY <2>3, ProtocolOpenInv
  <2>4. CASE UNCHANGED vars
    BY <2>4 DEF vars, Inv, TypeOK, RolesDisjoint, CountedPeersConnected, Connected
  <2>5. CASE DiscoveryTick
    BY <2>5, DiscoveryInv
  <2> QED
    BY <2>1, <2>2, <2>3, <2>4, <2>5 DEF Next
<1> QED
  BY <1>1, <1>2, PTL DEF Spec

\* handle_event never counts a peer both as an authority and as a full node.
THEOREM OneRolePerPeer == Spec => []RolesDisjoint
<1>1. Inv => RolesDisjoint
  BY DEF Inv
<1> QED
  BY <1>1, Invariance, PTL

\* handle_event counts only connected peers, and those whose ProtocolOpen event
\* came after their last connection had closed.
THEOREM CountsAreCurrent == Spec => []CountedPeersConnected
<1>1. Inv => CountedPeersConnected
  BY DEF Inv
<1> QED
  BY <1>1, Invariance, PTL

=============================================================================
