---------------------------- MODULE BlockListener ----------------------------
(***************************************************************************)
(* Subspace::listen_for_all_blocks: follow the node's imported blocks and  *)
(* broadcast, for every new best block, the blocks it enacts and the       *)
(* re-org it causes.                                                       *)
(*                                                                         *)
(* The node (external) imports blocks and moves its best block while the   *)
(* listener awaits RPC answers, so every await is a step of its own.       *)
(* The value read by an await is read in that step.                        *)
(***************************************************************************)
EXTENDS HeaderCache, BlocksMessage, FiniteSets

CONSTANTS
  CacheHeaderDepth,  \* CACHE_HEADER_DEPTH
  FetchWindow,       \* the cache load keeps this many header requests in flight
  StartNumber,       \* the node's best number when the alerter starts
  MaxNumber,         \* bound: height of the tree
  MaxImports,        \* bound: blocks the node imports after the start
  MaxFaults          \* bound: requests and subscriptions that fail

ASSUME ListenerConstants ==
  /\ CacheHeaderDepth \in Nat /\ FetchWindow \in Nat \ {0}
  /\ StartNumber \in Nat /\ MaxNumber \in Nat
  /\ MaxImports \in Nat /\ MaxFaults \in Nat

VARIABLES
  imported,            \* node: blocks imported, always with their parents
  best,                \* node: its best block
  imports,             \* node: blocks imported since the start
  faults,              \* failures so far
  sub,                 \* the all-blocks subscription: blocks not yet received
  phase,               \* where the listener is
  block,               \* the block in hand (latest_hash while loading)
  loaded,              \* the cache load: number |-> header received
  header_metadata,     \* HeadersMetadataCache
  current_best_block,
  sent,                \* the last BlocksExt broadcast
  session,             \* history: cache loads completed, one per reconnection
  notified,            \* history: blocks put in this subscription
  announced,           \* history: blocks broadcast, and those before the start
  error                \* why listen_for_all_blocks returned

nodeVars == <<imported, best, imports>>
listenerVars ==
  <<sub, phase, block, loaded, header_metadata, current_best_block, sent, session,
    notified, announced, error, faults>>
vars == <<nodeVars, listenerVars>>

Loading   == {"load", "load_canonical", "load_headers"}
Listening == {"recv", "canonical", "route"}
Opening   == {"head_first", "stream_first"}
Phases    == {"subscribe", "returned"} \cup Opening \cup Loading \cup Listening

\* Mutant: u32 subtraction that does not saturate.
MonusUnsaturated(a, b) == a - b

\* saturating_sub
Monus(a, b) == IF a > b THEN a - b ELSE 0

-----------------------------------------------------------------------------
(* The node (external).                                                    *)

Children(p) == {b \in imported : b # Genesis /\ Parent(b) = p}

Subscribed == phase \notin {"subscribe", "head_first", "returned"}

\* A block that extends the best block becomes best; on any other fork the
\* fork-choice rule decides.  The subscription is notified in any order, or not at
\* all (README: "Blocks can be received in any order, and block notifications can
\* be skipped").
Import(p) ==
  LET b == Append(p, Cardinality(Children(p)) + 1)
  IN  /\ p \in imported
      /\ imports < MaxImports
      /\ Number(p) < MaxNumber
      /\ imported' = imported \cup {b}
      /\ best' \in (IF p = best THEN {b} ELSE {best, b})
      /\ imports' = imports + 1
      /\ \/ /\ Subscribed
            /\ \E i \in 1..(Len(sub) + 1) : sub' = InsertAt(sub, i, b)
            /\ notified' = notified \cup {b}
         \/ UNCHANGED <<sub, notified>>
      /\ UNCHANGED <<phase, block, loaded, header_metadata, current_best_block,
                     sent, session, announced, error, faults>>

\* A subscription starts with the current head.  The node may read the head
\* before it registers for imports, and then the stream skips the imports
\* between the two, or after, and then it repeats them.
Open ==
  /\ phase \in Opening
  /\ IF phase = "stream_first"
       THEN sub' = <<best>> \o sub /\ notified' = notified \cup {best}
       ELSE UNCHANGED <<sub, notified>>
  /\ phase' = "load"
  /\ UNCHANGED <<nodeVars, block, loaded, header_metadata, current_best_block,
                 sent, session, announced, error, faults>>

\* chain_get_block_hash(n): there is none above the best block.
HasCanonical(n) == n <= Number(best)
CanonicalHash(n) == AncestorAt(best, n)

\* Mutant: only a higher block can be the new best one.
IsHigherBlock(b) ==
  /\ HasCanonical(Number(b))
  /\ CanonicalHash(Number(b)) = b
  /\ Number(b) > Number(current_best_block)

IsCanonicalBlock(b) == HasCanonical(Number(b)) /\ CanonicalHash(Number(b)) = b

-----------------------------------------------------------------------------
(* Returning from listen_for_all_blocks.                                   *)

Return(err) ==
  /\ phase' = "returned"
  /\ error' = err
  /\ sub' = << >>
  /\ UNCHANGED <<nodeVars, block, loaded, header_metadata, current_best_block,
                 sent, session, notified, announced>>

Fault == faults < MaxFaults /\ faults' = faults + 1

-----------------------------------------------------------------------------
(* listen_for_all_blocks: subscribe, and load the header cache.            *)

SubscribeAll ==
  /\ phase = "subscribe"
  /\ \/ phase' = "head_first" /\ sub' = <<best>>
     \/ phase' = "stream_first" /\ sub' = << >>
  /\ notified' = ToSet(sub')
  /\ UNCHANGED <<nodeVars, block, loaded, header_metadata, current_best_block,
                 sent, session, announced, error, faults>>

SubscribeFails ==
  /\ phase \in {"subscribe"} \cup Opening
  /\ Fault
  /\ Return("Subxt")

LoadRecv ==
  /\ phase = "load"
  /\ sub # << >>
  /\ block' = Head(sub)
  /\ sub' = Tail(sub)
  /\ phase' = "load_canonical"
  /\ UNCHANGED <<nodeVars, loaded, header_metadata, current_best_block, sent,
                 session, notified, announced, error, faults>>

\* The first canonical block received is the latest one; its header gives the
\* numbers to load.
LoadCanonical ==
  /\ phase = "load_canonical"
  /\ HasCanonical(Number(block))
  /\ phase' = IF IsCanonicalBlock(block) THEN "load_headers" ELSE "load"
  /\ loaded' = << >>
  /\ UNCHANGED <<nodeVars, sub, block, header_metadata, current_best_block,
                 sent, session, notified, announced, error, faults>>

LoadNumbers == Monus(Number(block), CacheHeaderDepth)..Number(block)

\* Requests run concurrently, from the lowest unanswered number up.
InFlight ==
  LET unanswered == LoadNumbers \ DOMAIN loaded
  IN  {n \in unanswered : n < Min(unanswered) + FetchWindow}

LoadHeader(n) ==
  /\ phase = "load_headers"
  /\ n \in InFlight
  /\ HasCanonical(n)
  /\ loaded' = [m \in DOMAIN loaded \cup {n} |->
                  IF m = n THEN CanonicalHash(n) ELSE loaded[m]]
  /\ UNCHANGED <<nodeVars, sub, phase, block, header_metadata,
                 current_best_block, sent, session, notified, announced,
                 error, faults>>

\* All headers received: they enter the cache together.
LoadDone ==
  /\ phase = "load_headers"
  /\ LoadNumbers \subseteq DOMAIN loaded
  /\ header_metadata' = AddHeaders(header_metadata, Range(loaded))
  /\ current_best_block' = block
  /\ announced' = IF session = 0 THEN Ancestry(block) ELSE announced
  /\ session' = session + 1
  /\ phase' = "recv"
  /\ loaded' = << >>
  /\ UNCHANGED <<nodeVars, sub, block, sent, notified, error, faults>>

-----------------------------------------------------------------------------
(* listen_for_blocks                                                       *)

Recv ==
  /\ phase = "recv"
  /\ sub # << >>
  /\ block' = Head(sub)
  /\ sub' = Tail(sub)
  /\ header_metadata' = AddHeader(header_metadata, Head(sub))
  /\ phase' = "canonical"
  /\ UNCHANGED <<nodeVars, loaded, current_best_block, sent, session, notified,
                 announced, error, faults>>

\* A block that is not canonical now is a fork block: back to the stream.
CheckCanonical ==
  /\ phase = "canonical"
  /\ HasCanonical(Number(block))
  /\ phase' = IF IsCanonicalBlock(block) THEN "route" ELSE "recv"
  /\ UNCHANGED <<nodeVars, sub, block, loaded, header_metadata,
                 current_best_block, sent, session, notified, announced,
                 error, faults>>

MissingHeaders ==
  RouteHeaders(current_best_block, block) \ header_metadata.block_header_data

\* recursive_tree_route: fetch the header the walk stopped at, and retry.
FetchMissing ==
  /\ phase = "route"
  /\ MissingHeaders # {}
  /\ header_metadata' =
       AddHeader(header_metadata,
                 FirstOnRoute(MissingHeaders, current_best_block, block))
  /\ UNCHANGED <<nodeVars, sub, phase, block, loaded, current_best_block, sent,
                 session, notified, announced, error, faults>>

Publish ==
  LET route == TreeRoute(current_best_block, block)
  IN  /\ phase = "route"
      /\ MissingHeaders = {}
      /\ route.enacted # << >>
      /\ current_best_block' = Last(route.enacted)
      /\ sent' = BlocksExt(route)
      /\ announced' = announced \cup ToSet(sent'.blocks)
      /\ header_metadata' =
           RemoveHeaderUntil(header_metadata, Monus(Number(block), CacheHeaderDepth))
      /\ phase' = "recv"
      /\ UNCHANGED <<nodeVars, sub, block, loaded, session, notified, error, faults>>

\* The best block again, or an ancestor of it: nothing to broadcast.
NothingEnacted ==
  /\ phase = "route"
  /\ MissingHeaders = {}
  /\ TreeRoute(current_best_block, block).enacted = << >>
  /\ phase' = "recv"
  /\ UNCHANGED <<nodeVars, sub, block, loaded, header_metadata,
                 current_best_block, sent, session, notified, announced,
                 error, faults>>

-----------------------------------------------------------------------------
(* Failures.                                                               *)

\* An RPC error while listening drops the subscription and starts over; the
\* cache is kept.
RpcFailsListening ==
  /\ \/ phase = "canonical"
     \/ phase = "route" /\ MissingHeaders # {}
  /\ Fault
  /\ phase' = "subscribe"
  /\ sub' = << >>
  /\ UNCHANGED <<nodeVars, block, loaded, header_metadata, current_best_block,
                 sent, session, notified, announced, error>>

\* The same error while the cache loads is returned.
RpcFailsLoading ==
  /\ \/ phase = "load_canonical"
     \/ phase = "load_headers" /\ InFlight # {}
  /\ Fault
  /\ Return("Rpc")

\* The stream ends (MissingBlock) or yields an error (a subxt::Error).
StreamFails ==
  /\ phase \in {"load", "recv"}
  /\ Fault
  /\ \/ Return("Subxt")
     \/ Return("MissingBlock")

\* The node has no hash at a number, or no header for a hash.
NoHash ==
  /\ \/ phase \in {"load_canonical", "canonical"} /\ ~ HasCanonical(Number(block))
     \/ phase = "load_headers" /\ \E n \in InFlight : ~ HasCanonical(n)
  /\ UNCHANGED faults
  /\ Return("MissingBlock")

NoHeader ==
  /\ \/ phase = "load_headers" /\ InFlight # {}
     \/ phase = "route" /\ MissingHeaders # {}
  /\ Fault
  /\ Return("MissingBlock")

-----------------------------------------------------------------------------

Init ==
  /\ best = [i \in 1..StartNumber |-> 1]
  /\ imported = Ancestry(best)
  /\ imports = 0
  /\ faults = 0
  /\ sub = << >>
  /\ phase = "subscribe"
  /\ block = Genesis
  /\ loaded = << >>
  /\ header_metadata = EmptyCache
  /\ current_best_block = Genesis
  /\ sent = NoBlocksExt
  /\ session = 0
  /\ notified = {}
  /\ announced = {}
  /\ error = "none"

Node == Open \/ \E p \in imported : Import(p)

Listen ==
  \/ SubscribeAll
  \/ LoadRecv
  \/ LoadCanonical
  \/ \E n \in LoadNumbers : LoadHeader(n)
  \/ LoadDone
  \/ Recv
  \/ CheckCanonical
  \/ FetchMissing
  \/ Publish
  \/ NothingEnacted
  \/ NoHash

Fail ==
  \/ SubscribeFails
  \/ RpcFailsListening
  \/ RpcFailsLoading
  \/ StreamFails
  \/ NoHeader

Next == Node \/ Listen \/ Fail

\* The listener task is polled whenever it can go on, and the node answers;
\* nothing obliges the node to import or a request to fail.
Fairness == WF_vars(Listen) /\ WF_vars(Open)

Spec == Init /\ [][Next]_vars /\ Fairness

-----------------------------------------------------------------------------
(* Properties.                                                             *)

\* Every variable holds what the listener, the cache and the node may hold.
TypeOK ==
  /\ imported \subseteq Block /\ best \in imported
  /\ imports \in 0..MaxImports /\ faults \in 0..MaxFaults
  /\ sub \in Seq(Block)
  /\ phase \in Phases
  /\ block \in Block /\ current_best_block \in Block
  /\ DOMAIN loaded \subseteq Nat /\ Range(loaded) \subseteq Block
  /\ header_metadata.block_header_data \subseteq Block
  /\ DOMAIN header_metadata.block_number_hashes \subseteq Nat
  /\ sent.blocks \in Seq(Block)
  /\ sent.maybe_reorg_data \in ReorgData \cup {NoReorg}
  /\ session \in Nat
  /\ notified \subseteq Block /\ announced \subseteq Block
  /\ error \in {"none", "Subxt", "Rpc", "MissingBlock"}

\* The two maps of the header cache stay in step through every load, receipt,
\* fetch and eviction, so that eviction by number frees every header it drops.
CacheIndexed == Indexed(header_metadata)

\* While the first subscription lasts, every ancestor of the best block has been
\* broadcast or preceded the start: no block of the best fork escapes the event
\* checks, whatever the node re-orgs to and whatever the subscription skipped.
FirstSessionComplete ==
  session = 1 => Ancestry(current_best_block) \subseteq announced

\* The eviction that ends a broadcast leaves no ancestor of the new best block
\* cached below the depth it keeps, however many blocks were enacted at once.
\* (Fork headers, and headers from before a reconnection, may be left behind.)
NoAncestorLeft ==
  [][session = 1 /\ sent' # sent =>
       \A b \in header_metadata'.block_header_data \cap Ancestry(current_best_block') :
         Number(b) + CacheHeaderDepth > Number(current_best_block')]_vars

\* Once the node stops importing, the listener's best block becomes the node's,
\* unless the listener returned or the node never notified its best block.
CatchesUp ==
  <>[](\/ phase = "returned"
       \/ best \notin notified
       \/ current_best_block = best)

\* README: "All blocks on a best fork are checked for alerts, including blocks
\* missed by subscriptions."  Not after an RPC error: the new subscription's
\* first canonical block becomes the best block and nothing is broadcast for
\* the blocks up to it.
AllBlocksChecked ==
  phase = "recv" => Ancestry(current_best_block) \subseteq announced

\* README: "It is possible (but unlikely) for the chain to reorg from a higher to
\* a lower height".  A block of the abandoned fork, above the new best block and
\* still in the stream, makes is_canonical_block return MissingBlock, which no
\* caller handles: without any failure of the node the listener returns.
SurvivesReorgs == phase = "returned" => faults > 0

\* Comment in listen_for_all_blocks: "if disconnected, reinitiate for
\* reconnection".  A stream that ends or fails yields MissingBlock or Subxt, not
\* Rpc, and the listener returns; so it does when the node is still unreachable
\* while the new session subscribes or loads its cache.
Reconnects ==
  [][session > 0 /\ phase # "route" /\ faults' > faults => phase' # "returned"]_vars

\* What the subscribers of the broadcast rely on: see ChainFollower.
Follower == INSTANCE ChainFollower
  WITH tip <- current_best_block, message <- sent

\* Every broadcast takes the subscribers from the previous best block to the
\* new one; the best block moves silently only when the cache is reloaded.
FollowsChain == Follower!Spec

=============================================================================
