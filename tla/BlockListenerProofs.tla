-------------------------- MODULE BlockListenerProofs --------------------------
(***************************************************************************)
(* The block listener keeps its types, its cache index and its promise to  *)
(* the subscribers of the broadcast, for every tree the node may build.    *)
(***************************************************************************)
EXTENDS BlockListener, BlockTreeProofs, FiniteSetTheorems

-----------------------------------------------------------------------------
(* The header cache.                                                       *)

\* A cache of blocks, to which blocks are added, is a cache of blocks.
LEMMA AddHeadersType ==
  ASSUME NEW c, NEW B \in SUBSET Block,
         c.block_header_data \subseteq Block, DOMAIN c.block_number_hashes \subseteq Nat
  PROVE  /\ AddHeaders(c, B).block_header_data \subseteq Block
         /\ DOMAIN AddHeaders(c, B).block_number_hashes \subseteq Nat
<1>1. \A b \in Block : Number(b) \in Nat
  BY DEF Block, Number
<1>2. /\ AddHeaders(c, B).block_header_data = c.block_header_data \cup B
      /\ DOMAIN AddHeaders(c, B).block_number_hashes
           = DOMAIN c.block_number_hashes \cup {Number(b) : b \in B}
  BY DEF AddHeaders
<1> QED
  BY <1>1, <1>2

\* Adding headers keeps the two maps of the cache in step.
LEMMA AddHeadersIndexed ==
  ASSUME NEW c, NEW B \in SUBSET Block, Indexed(c)
  PROVE  Indexed(AddHeaders(c, B))
<1> DEFINE d == AddHeaders(c, B)
<1>1. /\ d.block_header_data = c.block_header_data \cup B
      /\ DOMAIN d.block_number_hashes
           = DOMAIN c.block_number_hashes \cup {Number(b) : b \in B}
      /\ \A n \in DOMAIN d.block_number_hashes :
           d.block_number_hashes[n] = HashesAt(c, n) \cup {b \in B : Number(b) = n}
  BY DEF AddHeaders
<1> HIDE DEF d
<1>2. ASSUME NEW b \in d.block_header_data
      PROVE  /\ Number(b) \in DOMAIN d.block_number_hashes
             /\ b \in d.block_number_hashes[Number(b)]
  BY <1>1 DEF Indexed, HashesAt
<1>3. ASSUME NEW n \in DOMAIN d.block_number_hashes
      PROVE  d.block_number_hashes[n] # {}
  BY <1>1 DEF Indexed, HashesAt
<1>4. ASSUME NEW n \in DOMAIN d.block_number_hashes,
             NEW b \in d.block_number_hashes[n]
      PROVE  b \in d.block_header_data /\ Number(b) = n
  BY <1>1 DEF Indexed, HashesAt
<1> QED
  BY <1>2, <1>3, <1>4 DEF Indexed, d

\* Evicting headers keeps the two maps of the cache in step.
LEMMA RemoveHeaderUntilIndexed ==
  ASSUME NEW c, NEW k, Indexed(c)
  PROVE  Indexed(RemoveHeaderUntil(c, k))
<1> DEFINE d == RemoveHeaderUntil(c, k)
           gone == RemovedNumbers(c, k)
<1>1. /\ d.block_header_data
           = c.block_header_data \ UNION {c.block_number_hashes[m] : m \in gone}
      /\ DOMAIN d.block_number_hashes = DOMAIN c.block_number_hashes \ gone
      /\ \A n \in DOMAIN d.block_number_hashes :
           d.block_number_hashes[n] = c.block_number_hashes[n]
  BY DEF RemoveHeaderUntil
<1>2. gone \subseteq DOMAIN c.block_number_hashes
  BY DEF RemovedNumbers
<1> HIDE DEF d, gone
<1>3. ASSUME NEW b \in d.block_header_data
      PROVE  /\ Number(b) \in DOMAIN d.block_number_hashes
             /\ b \in d.block_number_hashes[Number(b)]
  BY <1>1 DEF Indexed
<1>4. ASSUME NEW n \in DOMAIN d.block_number_hashes
      PROVE  d.block_number_hashes[n] # {}
  BY <1>1 DEF Indexed
<1>5. ASSUME NEW n \in DOMAIN d.block_number_hashes,
             NEW b \in d.block_number_hashes[n]
      PROVE  b \in d.block_header_data /\ Number(b) = n
  BY <1>1, <1>2 DEF Indexed
<1> QED
  BY <1>3, <1>4, <1>5 DEF Indexed, d

-----------------------------------------------------------------------------
(* The route from the best block to a new one.                             *)

\* A bounded set of numbers that is not empty has a greatest element.
LEMMA GreatestNumber ==
  ASSUME NEW N \in Nat, NEW T \in SUBSET (0..N), T # {}
  PROVE  \E x \in T : \A y \in T : y <= x
<1> DEFINE U == {u \in Nat : N - u \in T}
<1>1. ASSUME NEW t \in T PROVE N - t \in Nat /\ N - (N - t) = t
  OBVIOUS
<1>2. U \in SUBSET Nat /\ U # {}
  BY <1>1
<1>3. PICK u \in U : \A v \in U : u <= v
  BY <1>2, LeastNumber
<1>4. ASSUME NEW y \in T PROVE y <= N - u
  <2>1. N - y \in U
    BY <1>1
  <2> QED
    BY <1>3, <2>1
<1> QED
  BY <1>4

\* The headers a tree route reads are blocks, no higher than its two ends.
LEMMA RouteHeadersType ==
  ASSUME NEW a \in Block, NEW b \in Block
  PROVE  \A h \in RouteHeaders(a, b) :
           h \in Block /\ Number(h) \in 0..(Number(a) + Number(b))
<1> DEFINE n == CommonNumber(a, b)
<1>1. n \in 0..Number(a) /\ n \in 0..Number(b)
  BY CommonNumberDef
<1>2. Number(a) \in Nat /\ Number(b) \in Nat
  BY DEF Block, Number
<1> HIDE DEF n
<1>3. ASSUME NEW m \in n..Number(a)
      PROVE  AncestorAt(a, m) \in Block /\ Number(AncestorAt(a, m)) \in 0..(Number(a) + Number(b))
  <2>1. m \in 0..Number(a)
    BY <1>1, <1>2
  <2> QED
    BY <1>2, <2>1, AncestorType
<1>4. ASSUME NEW m \in n..Number(b)
      PROVE  AncestorAt(b, m) \in Block /\ Number(AncestorAt(b, m)) \in 0..(Number(a) + Number(b))
  <2>1. m \in 0..Number(b)
    BY <1>1, <1>2
  <2> QED
    BY <1>2, <2>1, AncestorType
<1> QED
  BY <1>3, <1>4 DEF RouteHeaders, n

\* The header recursive_tree_route fetches is one the walk is missing.
LEMMA FirstOnRouteMember ==
  ASSUME NEW a \in Block, NEW b \in Block, NEW H \in SUBSET RouteHeaders(a, b),
         H # {}
  PROVE  FirstOnRoute(H, a, b) \in H
<1> DEFINE top == {h \in H : \A g \in H : Number(g) <= Number(h)}
           T == {Number(h) : h \in H}
<1>1. Number(a) + Number(b) \in Nat
  BY DEF Block, Number
<1>2. T \in SUBSET (0..(Number(a) + Number(b))) /\ T # {}
  BY RouteHeadersType
<1>3. \E x \in T : \A y \in T : y <= x
  <2> HIDE DEF T
  <2> QED
    BY <1>1, <1>2, GreatestNumber
<1>4. top # {}
  BY <1>3
<1> QED
  BY <1>4 DEF FirstOnRoute

\* What Publish broadcasts is well formed and ends at the new best block.
LEMMA BlocksExtType ==
  ASSUME NEW a \in Block, NEW b \in Block,
         TreeRoute(a, b).enacted # << >>
  PROVE  LET m == BlocksExt(TreeRoute(a, b))
         IN  /\ m.blocks \in Seq(Block)
             /\ m.maybe_reorg_data \in ReorgData \cup {NoReorg}
             /\ Last(TreeRoute(a, b).enacted) = b
<1> DEFINE n == CommonNumber(a, b)
           r == TreeRoute(a, b)
<1>1. n \in 0..Number(a) /\ n \in 0..Number(b)
  BY CommonNumberDef
<1>2. /\ r.enacted = Branch(b, n)
      /\ r.retracted = Reverse(Branch(a, n))
      /\ r.common = AncestorAt(a, n)
  BY DEF TreeRoute
<1> HIDE DEF n, r
<1>3. r.enacted \in Seq(Block) /\ Last(r.enacted) = b
  BY <1>1, <1>2, BranchType, BranchLast DEF r
<1>4. r.retracted \in Seq(Block) /\ r.common \in Block
  BY <1>1, <1>2, BranchType, ReverseTwice, AncestorType
<1>5. BlocksExt(r).blocks = r.enacted
  BY DEF BlocksExt
<1>6. BlocksExt(r).maybe_reorg_data \in ReorgData \cup {NoReorg}
  <2>1. CASE r.retracted = << >>
    BY <2>1 DEF BlocksExt
  <2>2. CASE r.retracted # << >>
    <3>1. Front(r.enacted) \in Seq(Block)
      BY <1>3 DEF Front, r
    <3>2. Reverse(r.retracted) \in Seq(Block) \ {<< >>}
      BY <1>4, <2>2, ReverseTwice
    <3> QED
      BY <1>4, <2>2, <3>1, <3>2 DEF BlocksExt, ReorgData
  <2> QED
    BY <2>1, <2>2
<1> QED
  BY <1>3, <1>5, <1>6 DEF r

-----------------------------------------------------------------------------
(* The invariant.                                                          *)

\* listen_for_blocks runs only after a cache load.
LoadedBeforeListening == phase \in Listening => session > 0

\* The inductive invariant: an import numbers its block among the children of
\* its parent, which is a number because the tree is finite.
Inv ==
  /\ TypeOK
  /\ CacheIndexed
  /\ FirstSessionComplete
  /\ IsFiniteSet(imported)
  /\ LoadedBeforeListening

\* The ancestry of a block is finite and made of blocks.
LEMMA AncestryFinite ==
  ASSUME NEW b \in Block
  PROVE  Ancestry(b) \subseteq Block /\ b \in Ancestry(b) /\ IsFiniteSet(Ancestry(b))
<1> DEFINE f == [n \in 0..Number(b) |-> AncestorAt(b, n)]
<1>1. Number(b) \in Nat
  BY DEF Block, Number
<1>2. f \in Surjection(0..Number(b), Ancestry(b))
  BY DEF Surjection, Ancestry
<1>3. IsFiniteSet(0..Number(b))
  BY <1>1, FS_Interval
<1>4. IsFiniteSet(Ancestry(b))
  <2> HIDE DEF f
  <2> QED
    BY <1>2, <1>3, FS_Surjection
<1>5. Ancestry(b) \subseteq Block
  BY AncestorType DEF Ancestry
<1>6. b \in Ancestry(b)
  BY <1>1, AncestorSelf DEF Ancestry
<1> QED
  BY <1>4, <1>5, <1>6

\* The invariant holds when the alerter starts.
LEMMA InitInv ==
  ASSUME Init
  PROVE  Inv
<1>1. best \in Block
  BY ListenerConstants DEF Init, Block
<1>2. imported \subseteq Block /\ best \in imported /\ IsFiniteSet(imported)
  BY <1>1, AncestryFinite DEF Init
<1>3. /\ DOMAIN loaded = {} /\ Range(loaded) = {}
      /\ sub \in Seq(Block) /\ block \in Block /\ current_best_block \in Block
  BY DEF Init, Range, Block, Genesis
<1>4. /\ header_metadata.block_header_data = {}
      /\ DOMAIN header_metadata.block_number_hashes = {}
  BY DEF Init, EmptyCache
<1>5. sent.blocks \in Seq(Block) /\ sent.maybe_reorg_data \in ReorgData \cup {NoReorg}
  BY DEF Init, NoBlocksExt
<1>6. TypeOK
  BY <1>2, <1>3, <1>4, <1>5, ListenerConstants DEF Init, TypeOK, Phases
<1>7. CacheIndexed
  BY <1>4 DEF CacheIndexed, Indexed
<1>8. FirstSessionComplete /\ LoadedBeforeListening
  BY DEF Init, FirstSessionComplete, LoadedBeforeListening, Listening
<1> QED
  BY <1>2, <1>6, <1>7, <1>8 DEF Inv

\* The node's imports preserve the invariant.
LEMMA ImportInv ==
  ASSUME Inv, NEW p \in imported, Import(p)
  PROVE  Inv'
<1> DEFINE b == Append(p, Cardinality(Children(p)) + 1)
<1>1. Children(p) \subseteq imported
  BY DEF Children
<1>2. Cardinality(Children(p)) \in Nat
  BY <1>1, FS_Subset, FS_CardinalityType DEF Inv
<1>3. b \in Block
  BY <1>2 DEF Inv, TypeOK, Block
<1>4. /\ imported' = imported \cup {b}
      /\ best' \in {best, b}
      /\ imports' = imports + 1 /\ imports < MaxImports
      /\ \/ /\ \E i \in 1..(Len(sub) + 1) : sub' = InsertAt(sub, i, b)
            /\ notified' = notified \cup {b}
         \/ UNCHANGED <<sub, notified>>
      /\ UNCHANGED <<phase, block, loaded, header_metadata, current_best_block,
                     sent, session, announced, error, faults>>
  BY DEF Import
<1> HIDE DEF b
<1>5. IsFiniteSet(imported')
  BY <1>4, FS_AddElement DEF Inv
<1>6. sub' \in Seq(Block) /\ notified' \subseteq Block
  <2>1. sub \in Seq(Block) /\ notified \subseteq Block
    BY DEF Inv, TypeOK
  <2>2. ASSUME NEW i \in 1..(Len(sub) + 1)
        PROVE  InsertAt(sub, i, b) \in Seq(Block)
    <3>1. SubSeq(sub, 1, i - 1) \in Seq(Block) /\ SubSeq(sub, i, Len(sub)) \in Seq(Block)
      BY <2>1
    <3>2. <<b>> \in Seq(Block)
      BY <1>3
    <3> QED
      BY <3>1, <3>2 DEF InsertAt
  <2> QED
    BY <1>3, <1>4, <2>1, <2>2
<1>7. imported' \subseteq Block /\ best' \in imported' /\ imports' \in 0..MaxImports
  BY <1>3, <1>4, ListenerConstants DEF Inv, TypeOK
<1>8. TypeOK'
  BY <1>4, <1>6, <1>7 DEF Inv, TypeOK
<1> QED
  BY <1>4, <1>5, <1>8
     DEF Inv, CacheIndexed, FirstSessionComplete, LoadedBeforeListening

\* Subscribing and the first item of the stream preserve the invariant.
LEMMA SubscribeInv ==
  ASSUME Inv, SubscribeAll \/ Open
  PROVE  Inv'
<1>1. best \in Block /\ sub \in Seq(Block) /\ notified \subseteq Block
  BY DEF Inv, TypeOK
<1>2. <<best>> \in Seq(Block) /\ << >> \in Seq(Block) /\ <<best>> \o sub \in Seq(Block)
  BY <1>1
<1>3. /\ sub' \in Seq(Block) /\ notified' \subseteq Block
      /\ phase' \in Phases \ Listening
  <2>1. CASE SubscribeAll
    <3>1. sub' = <<best>> \/ sub' = << >>
      BY <2>1 DEF SubscribeAll
    <3>2. ToSet(<<best>>) \subseteq Block /\ ToSet(<< >>) \subseteq Block
      <4>1. ToSet(<<best>>) = {best} /\ ToSet(<< >>) = {}
        BY DEF ToSet
      <4> QED
        BY <1>1, <4>1
    <3>3. phase' \in {"head_first", "stream_first"} /\ notified' = ToSet(sub')
      BY <2>1 DEF SubscribeAll
    <3>4. phase' \in Phases \ Listening
      BY <3>3 DEF Phases, Listening, Opening
    <3>5. sub' \in Seq(Block)
      BY <1>2, <3>1
    <3>6. notified' \subseteq Block
      BY <3>1, <3>2, <3>3
    <3> QED
      BY <3>4, <3>5, <3>6
  <2>2. CASE Open
    <3>1. \/ sub' = <<best>> \o sub /\ notified' = notified \cup {best}
          \/ UNCHANGED <<sub, notified>>
      BY <2>2 DEF Open
    <3>2. phase' = "load"
      BY <2>2 DEF Open
    <3> QED
      BY <1>1, <1>2, <3>1, <3>2 DEF Phases, Listening, Loading
  <2> QED
    BY <2>1, <2>2
<1>4. UNCHANGED <<nodeVars, block, loaded, header_metadata, current_best_block,
                  sent, session, announced, error, faults>>
  BY DEF SubscribeAll, Open
<1>5. TypeOK'
  BY <1>3, <1>4 DEF Inv, TypeOK, nodeVars
<1> QED
  BY <1>3, <1>4, <1>5
     DEF Inv, CacheIndexed, FirstSessionComplete, LoadedBeforeListening, nodeVars

\* Returning, or dropping the subscription, preserves the invariant.
LEMMA FailInv ==
  ASSUME Inv, Fail \/ NoHash
  PROVE  Inv'
<1>1. /\ phase' \in {"returned", "subscribe"}
      /\ sub' = << >>
      /\ error' \in {error, "Subxt", "Rpc", "MissingBlock"}
  BY DEF Fail, NoHash, SubscribeFails, RpcFailsListening, RpcFailsLoading,
         StreamFails, NoHeader, Return
<1>2. \/ faults' = faults
      \/ faults < MaxFaults /\ faults' = faults + 1
  BY DEF Fail, NoHash, SubscribeFails, RpcFailsListening, RpcFailsLoading,
         StreamFails, NoHeader, Fault
<1>3. UNCHANGED <<nodeVars, block, loaded, header_metadata, current_best_block,
                  sent, session, notified, announced>>
  BY DEF Fail, NoHash, SubscribeFails, RpcFailsListening, RpcFailsLoading,
         StreamFails, NoHeader, Return
<1>4. faults' \in 0..MaxFaults
  BY <1>2, ListenerConstants DEF Inv, TypeOK
<1>5. phase' \in Phases /\ phase' \notin Listening
  BY <1>1 DEF Phases, Listening
<1>6. sub' \in Seq(Block) /\ error' \in {"none", "Subxt", "Rpc", "MissingBlock"}
  BY <1>1 DEF Inv, TypeOK
<1>7. TypeOK'
  BY <1>3, <1>4, <1>5, <1>6 DEF Inv, TypeOK, nodeVars
<1> QED
  BY <1>3, <1>5, <1>7
     DEF Inv, CacheIndexed, FirstSessionComplete, LoadedBeforeListening, nodeVars

\* The steps of the cache load before its end preserve the invariant.
LEMMA LoadInv ==
  ASSUME Inv, LoadRecv \/ LoadCanonical \/ \E n \in LoadNumbers : LoadHeader(n)
  PROVE  Inv'
<1>1. block' \in Block /\ sub' \in Seq(Block)
  <2>1. sub \in Seq(Block) /\ block \in Block
    BY DEF Inv, TypeOK
  <2>2. CASE LoadRecv
    <3>1. sub # << >> /\ block' = Head(sub) /\ sub' = Tail(sub)
      BY <2>2 DEF LoadRecv
    <3> QED
      BY <2>1, <3>1
  <2>3. CASE UNCHANGED <<block, sub>>
    BY <2>1, <2>3
  <2> QED
    BY <2>2, <2>3 DEF LoadCanonical, LoadHeader
<1>2. DOMAIN loaded' \subseteq Nat /\ Range(loaded') \subseteq Block
  <2>1. CASE LoadRecv
    BY <2>1 DEF LoadRecv, Inv, TypeOK
  <2>2. CASE LoadCanonical
    BY <2>2 DEF LoadCanonical, Range
  <2>3. ASSUME NEW n \in LoadNumbers, LoadHeader(n)
        PROVE  DOMAIN loaded' \subseteq Nat /\ Range(loaded') \subseteq Block
    <3>1. Number(block) \in Nat /\ n \in Nat
      BY ListenerConstants DEF LoadNumbers, Monus, Inv, TypeOK, Block, Number
    <3>2. CanonicalHash(n) \in Block
      <4>1. n \in 0..Number(best) /\ best \in Block
        BY <2>3, <3>1 DEF LoadHeader, HasCanonical, Inv, TypeOK, Block, Number
      <4> QED
        BY <4>1, AncestorType DEF CanonicalHash
    <3>3. /\ DOMAIN loaded' = DOMAIN loaded \cup {n}
          /\ \A m \in DOMAIN loaded' :
               loaded'[m] = IF m = n THEN CanonicalHash(n) ELSE loaded[m]
      BY <2>3 DEF LoadHeader
    <3> QED
      BY <3>1, <3>2, <3>3 DEF Range, Inv, TypeOK
  <2> QED
    BY <2>1, <2>2, <2>3
<1>3. phase' \in Phases /\ phase' \notin Listening
  BY DEF LoadRecv, LoadCanonical, LoadHeader, Phases, Listening, Loading
<1>4. UNCHANGED <<nodeVars, header_metadata, current_best_block, sent, session,
                  notified, announced, error, faults>>
  BY DEF LoadRecv, LoadCanonical, LoadHeader
<1>5. TypeOK'
  BY <1>1, <1>2, <1>3, <1>4 DEF Inv, TypeOK, nodeVars
<1> QED
  BY <1>3, <1>4, <1>5
     DEF Inv, CacheIndexed, FirstSessionComplete, LoadedBeforeListening, nodeVars

\* The end of the cache load preserves the invariant: in the first session the
\* blocks up to the best one count as announced.
LEMMA LoadDoneInv ==
  ASSUME Inv, LoadDone
  PROVE  Inv'
<1>1. block \in Block /\ session \in Nat /\ Range(loaded) \in SUBSET Block
  BY DEF Inv, TypeOK
<1>2. /\ header_metadata' = AddHeaders(header_metadata, Range(loaded))
      /\ current_best_block' = block
      /\ announced' = IF session = 0 THEN Ancestry(block) ELSE announced
      /\ session' = session + 1
      /\ phase' = "recv"
      /\ loaded' = << >>
      /\ UNCHANGED <<nodeVars, sub, block, sent, notified, error, faults>>
  BY DEF LoadDone
<1>3. CacheIndexed'
  BY <1>1, <1>2, AddHeadersIndexed DEF Inv, CacheIndexed
<1>4. /\ header_metadata'.block_header_data \subseteq Block
      /\ DOMAIN header_metadata'.block_number_hashes \subseteq Nat
  BY <1>1, <1>2, AddHeadersType DEF Inv, TypeOK
<1>5. DOMAIN loaded' = {} /\ Range(loaded') = {}
  BY <1>2 DEF Range
<1>6. announced' \subseteq Block /\ (session' = 1 => announced' = Ancestry(block))
  BY <1>1, <1>2, AncestryFinite DEF Inv, TypeOK
<1>7. phase' \in Phases /\ session' \in Nat /\ session' > 0
  BY <1>1, <1>2 DEF Phases, Listening
<1>8. TypeOK'
  BY <1>1, <1>2, <1>4, <1>5, <1>6, <1>7 DEF Inv, TypeOK, nodeVars
<1>9. FirstSessionComplete'
  BY <1>2, <1>6 DEF FirstSessionComplete
<1>10. IsFiniteSet(imported') /\ LoadedBeforeListening'
  BY <1>2, <1>7 DEF Inv, LoadedBeforeListening, nodeVars
<1> QED
  BY <1>3, <1>8, <1>9, <1>10 DEF Inv

\* Receiving a block and fetching a missing header preserve the invariant.
LEMMA AddInv ==
  ASSUME Inv, Recv \/ FetchMissing
  PROVE  Inv'
<1>1. PICK h \in Block : header_metadata' = AddHeader(header_metadata, h)
  <2>1. CASE Recv
    <3>1. Head(sub) \in Block
      BY <2>1 DEF Recv, Inv, TypeOK
    <3> QED
      BY <2>1, <3>1 DEF Recv
  <2>2. CASE FetchMissing
    <3> DEFINE h == FirstOnRoute(MissingHeaders, current_best_block, block)
    <3>1. current_best_block \in Block /\ block \in Block
      BY DEF Inv, TypeOK
    <3>2. /\ MissingHeaders \in SUBSET RouteHeaders(current_best_block, block)
          /\ MissingHeaders # {}
      BY <2>2 DEF FetchMissing, MissingHeaders
    <3>3. h \in RouteHeaders(current_best_block, block)
      BY <3>1, <3>2, FirstOnRouteMember
    <3> QED
      BY <2>2, <3>1, <3>3, RouteHeadersType DEF FetchMissing
  <2> QED
    BY <2>1, <2>2
<1>2. block' \in Block /\ sub' \in Seq(Block)
  <2>1. sub \in Seq(Block) /\ block \in Block
    BY DEF Inv, TypeOK
  <2>2. \/ sub # << >> /\ block' = Head(sub) /\ sub' = Tail(sub)
        \/ UNCHANGED <<block, sub>>
    BY DEF Recv, FetchMissing
  <2> QED
    BY <2>1, <2>2
<1>3. /\ phase \in Listening /\ phase' \in Phases
      /\ UNCHANGED <<nodeVars, loaded, current_best_block, sent, session, notified,
                     announced, error, faults>>
  BY DEF Recv, FetchMissing, Phases, Listening
<1>4. CacheIndexed'
  BY <1>1, AddHeadersIndexed DEF AddHeader, Inv, CacheIndexed
<1>5. /\ header_metadata'.block_header_data \subseteq Block
      /\ DOMAIN header_metadata'.block_number_hashes \subseteq Nat
  BY <1>1, AddHeadersType DEF AddHeader, Inv, TypeOK
<1>6. TypeOK'
  BY <1>2, <1>3, <1>5 DEF Inv, TypeOK, nodeVars
<1> QED
  BY <1>3, <1>4, <1>6
     DEF Inv, FirstSessionComplete, LoadedBeforeListening, nodeVars

\* A block that is a fork block, or enacts nothing, preserves the invariant.
LEMMA SkipInv ==
  ASSUME Inv, CheckCanonical \/ NothingEnacted
  PROVE  Inv'
<1>1. /\ phase \in Listening /\ phase' \in Phases
      /\ UNCHANGED <<nodeVars, sub, block, loaded, header_metadata,
                     current_best_block, sent, session, notified, announced,
                     error, faults>>
  BY DEF CheckCanonical, NothingEnacted, Phases, Listening
<1>2. TypeOK'
  BY <1>1 DEF Inv, TypeOK, nodeVars
<1> QED
  BY <1>1, <1>2
     DEF Inv, CacheIndexed, FirstSessionComplete, LoadedBeforeListening, nodeVars

\* A broadcast preserves the invariant: what it enacts, with what was announced
\* for the previous best block, covers the new best block's ancestry.
LEMMA PublishInv ==
  ASSUME Inv, Publish
  PROVE  Inv'
<1> DEFINE route == TreeRoute(current_best_block, block)
           number == Monus(Number(block), CacheHeaderDepth)
<1>1. current_best_block \in Block /\ block \in Block
  BY DEF Inv, TypeOK
<1>2. /\ route.enacted # << >>
      /\ current_best_block' = Last(route.enacted)
      /\ sent' = BlocksExt(route)
      /\ announced' = announced \cup ToSet(sent'.blocks)
      /\ header_metadata' = RemoveHeaderUntil(header_metadata, number)
      /\ phase = "route" /\ phase' = "recv"
      /\ UNCHANGED <<nodeVars, sub, block, loaded, session, notified, error, faults>>
  BY DEF Publish
<1>3. /\ sent'.blocks \in Seq(Block)
      /\ sent'.maybe_reorg_data \in ReorgData \cup {NoReorg}
      /\ current_best_block' = block
  BY <1>1, <1>2, BlocksExtType
<1>4. sent'.blocks = route.enacted
  BY <1>2 DEF BlocksExt
<1>5. Ancestry(block) \subseteq Ancestry(current_best_block) \cup ToSet(sent'.blocks)
  BY <1>1, <1>4, RouteCovers
<1> HIDE DEF route, number
<1>6. ToSet(sent'.blocks) \subseteq Block
  BY <1>3 DEF ToSet
<1>7. CacheIndexed'
  BY <1>2, RemoveHeaderUntilIndexed DEF Inv, CacheIndexed
<1>8. /\ header_metadata'.block_header_data \subseteq Block
      /\ DOMAIN header_metadata'.block_number_hashes \subseteq Nat
  BY <1>2 DEF RemoveHeaderUntil, Inv, TypeOK
<1>9. phase' \in Phases /\ announced' \subseteq Block
  BY <1>2, <1>6 DEF Phases, Listening, Inv, TypeOK
<1>10. TypeOK'
  BY <1>1, <1>2, <1>3, <1>8, <1>9 DEF Inv, TypeOK, nodeVars
<1>11. FirstSessionComplete'
  BY <1>2, <1>3, <1>5 DEF Inv, FirstSessionComplete
<1>12. IsFiniteSet(imported') /\ LoadedBeforeListening'
  BY <1>2 DEF Inv, LoadedBeforeListening, Listening, nodeVars
<1> QED
  BY <1>7, <1>10, <1>11, <1>12 DEF Inv

\* Every step preserves the invariant.
LEMMA NextInv ==
  ASSUME Inv, [Next]_vars
  PROVE  Inv'
<1>1. CASE \E p \in imported : Import(p)
  BY <1>1, ImportInv
<1>2. CASE SubscribeAll \/ Open
  BY <1>2, SubscribeInv
<1>3. CASE Fail \/ NoHash
  BY <1>3, FailInv
<1>4. CASE LoadRecv \/ LoadCanonical \/ \E n \in LoadNumbers : LoadHeader(n)
  BY <1>4, LoadInv
<1>5. CASE LoadDone
  BY <1>5, LoadDoneInv
<1>6. CASE Recv \/ FetchMissing
  BY <1>6, AddInv
<1>7. CASE CheckCanonical \/ NothingEnacted
  BY <1>7, SkipInv
<1>8. CASE Publish
  BY <1>8, PublishInv
<1>9. CASE UNCHANGED vars
  BY <1>9 DEF vars, nodeVars, listenerVars, Inv, TypeOK, CacheIndexed,
     FirstSessionComplete, LoadedBeforeListening
<1> QED
  BY <1>1, <1>2, <1>3, <1>4, <1>5, <1>6, <1>7, <1>8, <1>9 DEF Next, Node, Listen

\* The invariant holds throughout.
LEMMA Invariance == Spec => []Inv
<1>1. Init => Inv
  BY InitInv
<1>2. Inv /\ [Next]_vars => Inv'
  BY NextInv
<1> QED
  BY <1>1, <1>2, PTL DEF Spec

\* Every variable of listen_for_all_blocks and of the node keeps its type.
THEOREM TypeCorrect == Spec => []TypeOK
<1>1. Inv => TypeOK
  BY DEF Inv
<1> QED
  BY <1>1, Invariance, PTL

\* add_header and remove_header_until keep the two maps of the cache in step,
\* over every interleaving of loads, receipts, fetches, evictions and failures.
THEOREM CacheStaysIndexed == Spec => []CacheIndexed
<1>1. Inv => CacheIndexed
  BY DEF Inv
<1> QED
  BY <1>1, Invariance, PTL

\* Until the first reconnection no block of the best fork escapes the broadcast,
\* for any tree of forks, any re-orgs and any skipped or repeated notification.
THEOREM FirstSessionMissesNothing == Spec => []FirstSessionComplete
<1>1. Inv => FirstSessionComplete
  BY DEF Inv
<1> QED
  BY <1>1, Invariance, PTL

-----------------------------------------------------------------------------
(* The listener implements ChainFollower.                                  *)

\* The blocks of a branch are linked, from the child of its base up.
LEMMA BranchLinked ==
  ASSUME NEW b \in Block, NEW n \in 0..Number(b)
  PROVE  /\ Follower!Linked(Branch(b, n))
         /\ n < Number(b) => Parent(Branch(b, n)[1]) = AncestorAt(b, n)
<1>1. Number(b) \in Nat
  BY DEF Block, Number
<1>2. ASSUME NEW i \in 1..(Number(b) - n)
      PROVE  Parent(Branch(b, n)[i]) = AncestorAt(b, n + (i - 1))
  <2>1. n + i \in 1..Number(b) /\ (n + i) - 1 = n + (i - 1)
    BY <1>1
  <2>2. Branch(b, n)[i] = AncestorAt(b, n + i)
    BY BranchType
  <2>3. Parent(AncestorAt(b, n + i)) = AncestorAt(b, (n + i) - 1)
    BY <2>1, ParentOfAncestor
  <2> QED
    BY <2>1, <2>2, <2>3
<1>3. ASSUME NEW i \in 2..Len(Branch(b, n))
      PROVE  Parent(Branch(b, n)[i]) = Branch(b, n)[i - 1]
  <2>1. i \in 1..(Number(b) - n) /\ i - 1 \in 1..(Number(b) - n)
    BY <1>1, BranchType
  <2> QED
    BY <1>2, <2>1, BranchType
<1>4. n < Number(b) => 1 \in 1..(Number(b) - n) /\ n + (1 - 1) = n
  BY <1>1
<1>5. Follower!Linked(Branch(b, n))
  BY <1>3 DEF Follower!Linked
<1>6. n < Number(b) => Parent(Branch(b, n)[1]) = AncestorAt(b, n)
  BY <1>2, <1>4
<1> QED
  BY <1>5, <1>6

\* After the common block the two sides of a re-org go to different children.
LEMMA BranchesDiffer ==
  ASSUME NEW a \in Block, NEW b \in Block,
         CommonNumber(a, b) < Number(a), CommonNumber(a, b) < Number(b)
  PROVE  Branch(a, CommonNumber(a, b))[1] # Branch(b, CommonNumber(a, b))[1]
<1> DEFINE n == CommonNumber(a, b)
<1>1. n \in 0..Number(a) /\ n \in 0..Number(b) /\ PartAfter(a, b, n)
  BY CommonNumberDef
<1>2. Number(a) \in Nat /\ Number(b) \in Nat
  BY DEF Block, Number
<1> HIDE DEF n
<1>3. n < Number(a) /\ n < Number(b)
  BY DEF n
<1>4. a[n + 1] # b[n + 1]
  BY <1>1, <1>2, <1>3 DEF PartAfter
<1>5. /\ n + 1 \in 0..Number(a) /\ n + 1 \in 0..Number(b) /\ n + 1 \in 1..(n + 1)
      /\ 1 \in 1..(Number(a) - n) /\ 1 \in 1..(Number(b) - n)
  BY <1>1, <1>2, <1>3
<1>6. Branch(a, n)[1] = AncestorAt(a, n + 1) /\ Branch(b, n)[1] = AncestorAt(b, n + 1)
  BY <1>1, <1>5, BranchType
<1>7. AncestorAt(a, n + 1)[n + 1] = a[n + 1] /\ AncestorAt(b, n + 1)[n + 1] = b[n + 1]
  BY <1>5, AncestorType
<1> QED
  BY <1>4, <1>6, <1>7 DEF n

\* The message computed from a tree route fits the previous best block.
LEMMA RouteFits ==
  ASSUME current_best_block \in Block, NEW b \in Block,
         TreeRoute(current_best_block, b).enacted # << >>
  PROVE  Follower!Fits(BlocksExt(TreeRoute(current_best_block, b)))
<1> DEFINE a == current_best_block
           n == CommonNumber(a, b)
           r == TreeRoute(a, b)
           m == BlocksExt(r)
<1>1. n \in 0..Number(a) /\ n \in 0..Number(b)
  BY CommonNumberDef
<1>2. /\ r.enacted = Branch(b, n)
      /\ r.retracted = Reverse(Branch(a, n))
      /\ r.common = AncestorAt(a, n)
  BY DEF TreeRoute
<1>3. n < Number(b)
  BY <1>1, <1>2, BranchLast
<1>4. AncestorAt(a, n) = AncestorAt(b, n)
  <2>1. n \in 0..n
    BY <1>1, <1>3
  <2> QED
    BY <2>1, CommonAncestor
<1>5. /\ m.blocks = Branch(b, n)
      /\ Branch(b, n) # << >>
      /\ Follower!Linked(m.blocks)
      /\ Parent(m.blocks[1]) = AncestorAt(a, n)
  <2>1. m.blocks = Branch(b, n) /\ Branch(b, n) # << >>
    BY <1>2 DEF BlocksExt
  <2> QED
    BY <1>1, <1>3, <1>4, <2>1, BranchLinked
<1>6. CASE r.retracted = << >>
  <2>1. m.maybe_reorg_data = [retracted |-> << >>]
    BY <1>6 DEF BlocksExt, NoReorg
  <2>2. Len(Branch(a, n)) = 0
    <3>1. Len(Reverse(Branch(a, n))) = Len(Branch(a, n))
      BY <1>1, BranchType, ReverseTwice
    <3> QED
      BY <1>2, <1>6, <3>1
  <2>3. Number(a) = n
    <3>1. Len(Branch(a, n)) = Number(a) - n /\ Number(a) \in Nat
      BY <1>1, BranchType DEF Block, Number
    <3> QED
      BY <1>1, <2>2, <3>1
  <2>4. AncestorAt(a, n) = a
    BY <2>3, AncestorSelf
  <2>5. Follower!Extends(m)
    BY <1>5, <2>1, <2>4 DEF Follower!Extends
  <2> QED
    BY <1>5, <2>5 DEF Follower!Fits
<1>7. CASE r.retracted # << >>
  <2>1. /\ m.maybe_reorg_data.retracted = Reverse(Reverse(Branch(a, n)))
        /\ m.maybe_reorg_data.common = AncestorAt(a, n)
        /\ m.maybe_reorg_data.enacted = Front(m.blocks)
    BY <1>2, <1>7 DEF BlocksExt
  <2>2. m.maybe_reorg_data.retracted = Branch(a, n) /\ Branch(a, n) # << >>
    <3>1. Branch(a, n) \in Seq(Block)
      BY <1>1, BranchType
    <3>2. /\ Reverse(Reverse(Branch(a, n))) = Branch(a, n)
          /\ Len(Reverse(Branch(a, n))) = Len(Branch(a, n))
          /\ Reverse(Branch(a, n)) \in Seq(Block)
      BY <3>1, ReverseTwice
    <3>3. Reverse(Branch(a, n)) # << >>
      BY <1>2, <1>7
    <3>4. Branch(a, n) # << >>
      BY <3>1, <3>2, <3>3
    <3> QED
      BY <2>1, <3>2, <3>4
  <2>3. n < Number(a) /\ Last(Branch(a, n)) = a
    BY <1>1, <2>2, BranchLast
  <2>4. Follower!Linked(Branch(a, n)) /\ Parent(Branch(a, n)[1]) = AncestorAt(a, n)
    BY <1>1, <2>3, BranchLinked
  <2>5. m.blocks[1] # Branch(a, n)[1]
    BY <1>3, <1>5, <2>3, BranchesDiffer
  <2> HIDE DEF m, r, n
  <2>6. Follower!Reorgs(m)
    BY <1>5, <2>1, <2>2, <2>3, <2>4, <2>5
       DEF Follower!Reorgs, Last, Front
  <2> QED
    BY <1>5, <2>6 DEF Follower!Fits, m, r
<1> QED
  BY <1>6, <1>7

\* The listener's initial state is one of ChainFollower.
LEMMA FollowerInit ==
  ASSUME Init
  PROVE  Follower!Init
BY DEF Init, Follower!Init, NoBlocksExt, Genesis

\* A broadcast is a Follow step of ChainFollower.
LEMMA PublishFollows ==
  ASSUME Inv, Publish
  PROVE  Follower!Follow
<1> DEFINE route == TreeRoute(current_best_block, block)
<1>1. current_best_block \in Block /\ block \in Block /\ session \in Nat
  BY DEF Inv, TypeOK
<1>2. /\ route.enacted # << >>
      /\ current_best_block' = Last(route.enacted)
      /\ sent' = BlocksExt(route)
      /\ session' = session
      /\ phase = "route"
  BY DEF Publish
<1>3. session > 0
  BY <1>2 DEF Inv, LoadedBeforeListening, Listening
<1>4. Follower!Fits(sent')
  BY <1>1, <1>2, RouteFits
<1>5. sent'.blocks = route.enacted
  BY <1>2 DEF BlocksExt
<1> HIDE DEF route
<1> QED
  BY <1>2, <1>3, <1>4, <1>5 DEF Follower!Follow, Last

\* Every step is a step of ChainFollower or leaves its variables alone.
LEMMA FollowerStep ==
  ASSUME Inv, [Next]_vars
  PROVE  [Follower!Next]_<<current_best_block, sent, session>>
<1>1. CASE Publish
  BY <1>1, PublishFollows DEF Follower!Next
<1>2. CASE LoadDone
  <2>1. block \in Block
    BY DEF Inv, TypeOK
  <2> QED
    BY <1>2, <2>1 DEF LoadDone, Follower!Next, Follower!Start, Block
<1>3. CASE UNCHANGED <<current_best_block, sent, session>>
  BY <1>3
<1>4. [Next]_vars => Publish \/ LoadDone \/ UNCHANGED <<current_best_block, sent, session>>
  BY DEF Next, Node, Listen, Fail, vars, listenerVars, Import, Open, SubscribeAll,
         LoadRecv, LoadCanonical, LoadHeader, Recv, CheckCanonical, FetchMissing,
         NothingEnacted, NoHash, SubscribeFails, RpcFailsListening,
         RpcFailsLoading, StreamFails, NoHeader, Return
<1> QED
  BY <1>1, <1>2, <1>3, <1>4

\* What listen_for_blocks broadcasts implements ChainFollower: every message leads
\* from the previous best block to the new one and names the re-org.
THEOREM ListenerFollowsChain == Spec => FollowsChain
<1>1. Init => Follower!Init
  BY FollowerInit
<1>2. Inv /\ [Next]_vars => [Follower!Next]_<<current_best_block, sent, session>>
  BY FollowerStep
<1> QED
  BY <1>1, <1>2, Invariance, PTL DEF Spec, FollowsChain, Follower!Spec

=============================================================================
