----------------------------- MODULE PeerNetwork -----------------------------
(***************************************************************************)
(* Network: the roles of the connected peers, kept from swarm events, and  *)
(* the discovery that finds peers again once they are gone.                *)
(*                                                                         *)
(* The swarm (external) hands out the events of its behaviours and of its  *)
(* connection pool one at a time, in no fixed order: the opening of a      *)
(* protocol may be reported after the connection it used was closed.       *)
(***************************************************************************)
EXTENDS Naturals, FiniteSetsExt

CONSTANTS
  Peers,
  Bootnodes,         \* the bootnode addresses: the peer that listens there, and
                     \* whether the address names it
  MaxEstablished,    \* with_max_established
  MaxConnections     \* bound: connections to one peer

ASSUME PeerConstants ==
  /\ IsFiniteSet(Peers) /\ Bootnodes \subseteq [peer : Peers, p2p : BOOLEAN]
  /\ MaxEstablished \in Nat \ {0} /\ MaxConnections \in Nat \ {0}

Roles == {"FullNode", "LightNode", "Authority"}

VARIABLES
  established,   \* swarm: connections to each peer
  dialing,       \* swarm: peers being dialed
  known,         \* swarm: peers of the routing table
  opened,        \* swarm: ProtocolOpen events not yet handed out
  authorities,
  fullnodes,
  stale          \* history: peers whose ProtocolOpen came after their last
                 \* connection closed

vars == <<established, dialing, known, opened, authorities, fullnodes, stale>>

Connected == {p \in Peers : established[p] > 0}

TotalEstablished == MapThenSumSet(LAMBDA p : established[p], Peers)

-----------------------------------------------------------------------------
(* The swarm.                                                              *)

\* A dial succeeds or a peer connects to us, within the connection limit.
ConnectionEstablished(p) ==
  /\ TotalEstablished < MaxEstablished
  /\ established[p] < MaxConnections
  /\ established' = [established EXCEPT ![p] = established[p] + 1]
  /\ dialing' = dialing \ {p}
  /\ UNCHANGED <<known, opened, authorities, fullnodes, stale>>

DialFails(p) ==
  /\ p \in dialing
  /\ dialing' = dialing \ {p}
  /\ UNCHANGED <<established, known, opened, authorities, fullnodes, stale>>

\* A connected peer enters the routing table.
RoutingUpdated(p) ==
  /\ p \in Connected
  /\ known' = known \cup {p}
  /\ UNCHANGED <<established, dialing, opened, authorities, fullnodes, stale>>

\* The proof-of-time or the block-announce protocol opens with a connected peer,
\* in the role of its handshake; both are handled alike.
OpenProtocol(p, role) ==
  /\ p \in Connected
  /\ opened' = opened \cup {[peer |-> p, role |-> role]}
  /\ UNCHANGED <<established, dialing, known, authorities, fullnodes, stale>>

-----------------------------------------------------------------------------
(* handle_event.  A ProtocolClosed event changes nothing: the role stays   *)
(* until the last connection closes.                                       *)

\* Mutant: the other role is not taken back.
AddPeerRoleTwice(p, role) ==
  /\ authorities' = IF role = "Authority" THEN authorities \cup {p} ELSE authorities
  /\ fullnodes' = IF role = "FullNode" THEN fullnodes \cup {p} ELSE fullnodes

AddPeerRole(p, role) ==
  CASE role = "FullNode"  -> /\ authorities' = authorities \ {p}
                             /\ fullnodes' = fullnodes \cup {p}
    [] role = "LightNode" -> UNCHANGED <<authorities, fullnodes>>
    [] role = "Authority" -> /\ fullnodes' = fullnodes \ {p}
                             /\ authorities' = authorities \cup {p}

ProtocolOpen(e) ==
  /\ e \in opened
  /\ opened' = opened \ {e}
  /\ AddPeerRole(e.peer, e.role)
  /\ stale' = IF e.peer \in Connected THEN stale ELSE stale \cup {e.peer}
  /\ UNCHANGED <<established, dialing, known>>

\* Mutant: only the authority role is forgotten.
ForgetAuthority(p) == authorities' = authorities \ {p} /\ UNCHANGED fullnodes

Forget(p) == authorities' = authorities \ {p} /\ fullnodes' = fullnodes \ {p}

\* A peer's role is kept until its last connection closes.
ConnectionClosed(p) ==
  /\ p \in Connected
  /\ established' = [established EXCEPT ![p] = established[p] - 1]
  /\ IF established[p] = 1
       THEN Forget(p) /\ stale' = stale \ {p}
       ELSE UNCHANGED <<authorities, fullnodes, stale>>
  /\ UNCHANGED <<dialing, known, opened>>

\* A discovered peer is dialed, whether or not it is connected.
RoutablePeer(p) ==
  /\ dialing' = dialing \cup {p}
  /\ UNCHANGED <<established, known, opened, authorities, fullnodes, stale>>

-----------------------------------------------------------------------------
(* run                                                                     *)

\* extract_peer_id of the bootnode addresses.
BootnodePeerIds == {a.peer : a \in {b \in Bootnodes : b.p2p}}

\* Mutant: the tick only logs the counts.
DiscoveryTickLogs == UNCHANGED vars

\* The periodic query: the discovery (external) dials the peers of its routing
\* table it has no connection to.
DiscoveryTick ==
  /\ dialing' = dialing \cup (known \ Connected)
  /\ UNCHANGED <<established, known, opened, authorities, fullnodes, stale>>

\* run starts by dialing every bootnode address; those that name their peer enter
\* the routing table.
Init ==
  /\ established = [p \in Peers |-> 0]
  /\ dialing = {a.peer : a \in Bootnodes}
  /\ known = BootnodePeerIds
  /\ opened = {}
  /\ authorities = {}
  /\ fullnodes = {}
  /\ stale = {}

Next ==
  \/ \E p \in Peers :
       \/ ConnectionEstablished(p)
       \/ DialFails(p)
       \/ ConnectionClosed(p)
       \/ RoutablePeer(p)
       \/ RoutingUpdated(p)
       \/ \E role \in Roles : OpenProtocol(p, role)
  \/ \E e \in opened : ProtocolOpen(e)
  \/ DiscoveryTick

\* The interval ticks, and dials do not fail for ever.
Fairness ==
  WF_vars(DiscoveryTick) /\ SF_vars(\E p \in dialing : ConnectionEstablished(p))

Spec == Init /\ [][Next]_vars /\ Fairness

-----------------------------------------------------------------------------
(* Properties.                                                             *)

\* Every variable holds what the network and the swarm may hold.
TypeOK ==
  /\ established \in [Peers -> Nat]
  /\ dialing \subseteq Peers /\ known \subseteq Peers
  /\ opened \subseteq [peer : Peers, role : Roles]
  /\ authorities \subseteq Peers /\ fullnodes \subseteq Peers
  /\ stale \subseteq Peers

\* No peer is counted both as an authority and as a full node, although its two
\* protocols may report different roles, and again after a reconnection.
RolesDisjoint == authorities \cap fullnodes = {}

\* A peer that is counted is connected, or its protocol was reported open only
\* after its last connection had closed; no other peer is left behind.
CountedPeersConnected == authorities \cup fullnodes \subseteq Connected \cup stale

\* A network that lost all its connections gets one again, however often that
\* happens, if one bootnode address names its peer: the periodic query dials it
\* again.  (Without such an address the bootnodes are dialed once.)
Rejoins == BootnodePeerIds # {} => []<>(Connected # {})

=============================================================================
