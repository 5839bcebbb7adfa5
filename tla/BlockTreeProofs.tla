--------------------------- MODULE BlockTreeProofs ---------------------------
(***************************************************************************)
(* Facts about paths and tree routes, for all blocks.                      *)
(***************************************************************************)
EXTENDS BlockTree, SequenceTheorems, WellFoundedInduction, TLAPS

\* A non-empty set of numbers has a least element.
LEMMA LeastNumber ==
  ASSUME NEW T \in SUBSET Nat, T # {}
  PROVE  \E x \in T : \A y \in T : x <= y
<1>1. PICK x \in T : \A y \in T : ~ (<<y, x>> \in OpToRel(<, Nat))
  BY NatLessThanWellFounded, WFMin
<1>2. \A y \in T : ~ (y < x)
  BY <1>1 DEF OpToRel
<1> QED
  BY <1>2

-----------------------------------------------------------------------------
(* Paths.                                                                  *)

\* The ancestor at a height is a block of that height, a prefix of the path.
LEMMA AncestorType ==
  ASSUME NEW b \in Block, NEW n \in 0..Number(b)
  PROVE  /\ AncestorAt(b, n) \in Block
         /\ Number(AncestorAt(b, n)) = n
         /\ \A i \in 1..n : AncestorAt(b, n)[i] = b[i]
  BY DEF Block, Number, AncestorAt

\* A block is its own ancestor at its height.
LEMMA AncestorSelf ==
  ASSUME NEW b \in Block
  PROVE  AncestorAt(b, Number(b)) = b
  BY SubSeqFull DEF Block, Number, AncestorAt

\* An ancestor of an ancestor is an ancestor.
LEMMA AncestorOfAncestor ==
  ASSUME NEW b \in Block, NEW n \in 0..Number(b), NEW k \in 0..n
  PROVE  AncestorAt(AncestorAt(b, n), k) = AncestorAt(b, k)
<1>1. k \in 0..Number(b)
  BY DEF Number, Block
<1>2. AncestorAt(b, n) \in Block /\ Number(AncestorAt(b, n)) = n
  BY AncestorType
<1>3. /\ AncestorAt(AncestorAt(b, n), k) \in Block
      /\ Number(AncestorAt(AncestorAt(b, n), k)) = k
      /\ \A i \in 1..k : AncestorAt(AncestorAt(b, n), k)[i] = AncestorAt(b, n)[i]
  BY <1>2, AncestorType
<1>4. /\ AncestorAt(b, k) \in Block
      /\ Number(AncestorAt(b, k)) = k
      /\ \A i \in 1..k : AncestorAt(b, k)[i] = b[i]
  BY <1>1, AncestorType
<1>5. \A i \in 1..k : AncestorAt(b, n)[i] = b[i]
  BY AncestorType
<1> QED
  BY <1>3, <1>4, <1>5, SeqEqual DEF Block, Number

\* The parent of an ancestor is the ancestor one below.
LEMMA ParentOfAncestor ==
  ASSUME NEW b \in Block, NEW n \in 1..Number(b)
  PROVE  Parent(AncestorAt(b, n)) = AncestorAt(b, n - 1)
<1>1. n \in 0..Number(b) /\ n - 1 \in 0..n
  BY DEF Number, Block
<1>2. Number(AncestorAt(b, n)) = n
  BY <1>1, AncestorType
<1>3. Parent(AncestorAt(b, n)) = AncestorAt(AncestorAt(b, n), n - 1)
  BY <1>2 DEF Parent, AncestorAt, Number
<1> QED
  BY <1>1, <1>3, AncestorOfAncestor

-----------------------------------------------------------------------------
(* The last common ancestor.                                               *)

\* CommonNumber is a height of both blocks at which they part, and no lower one is.
LEMMA CommonNumberDef ==
  ASSUME NEW a \in Block, NEW b \in Block
  PROVE  LET n == CommonNumber(a, b)
         IN  /\ n \in 0..Number(a)
             /\ n \in 0..Number(b)
             /\ PartAfter(a, b, n)
             /\ \A m \in 0..(n - 1) : ~ PartAfter(a, b, m)
<1> DEFINE P(n) == /\ n <= Number(b)
                   /\ PartAfter(a, b, n)
                   /\ \A m \in 0..(n - 1) : ~ PartAfter(a, b, m)
           T == {n \in Nat : PartAfter(a, b, n)}
<1>1. Number(a) \in Nat /\ Number(b) \in Nat
  BY DEF Block, Number
<1>2. Number(a) \in T /\ Number(b) \in T
  BY <1>1 DEF PartAfter
<1>3. PICK n \in T : \A y \in T : n <= y
  BY <1>2, LeastNumber
<1>4. n \in 0..Number(a) /\ P(n)
  BY <1>1, <1>2, <1>3
<1>5. CommonNumber(a, b) \in 0..Number(a) /\ P(CommonNumber(a, b))
  BY <1>4 DEF CommonNumber
<1> QED
  BY <1>1, <1>5

\* Below the height at which they part, two blocks have the same ancestors.
LEMMA CommonAncestor ==
  ASSUME NEW a \in Block, NEW b \in Block, NEW k \in 0..CommonNumber(a, b)
  PROVE  AncestorAt(a, k) = AncestorAt(b, k)
<1> DEFINE n == CommonNumber(a, b)
<1>1. /\ n \in 0..Number(a) /\ n \in 0..Number(b)
      /\ \A m \in 0..(n - 1) : ~ PartAfter(a, b, m)
  BY CommonNumberDef
<1>2. Number(a) \in Nat /\ Number(b) \in Nat
  BY DEF Block, Number
<1> HIDE DEF n
<1>3. ASSUME NEW i \in 1..k PROVE a[i] = b[i]
  <2>1. i - 1 \in 0..(n - 1) /\ (i - 1) + 1 = i
    BY <1>1, <1>2 DEF n
  <2> QED
    BY <1>1, <2>1 DEF PartAfter
<1>4. k \in 0..Number(a) /\ k \in 0..Number(b)
  BY <1>1, <1>2 DEF n
<1>5. /\ AncestorAt(a, k) \in Block /\ Number(AncestorAt(a, k)) = k
      /\ \A i \in 1..k : AncestorAt(a, k)[i] = a[i]
  BY <1>4, AncestorType
<1>6. /\ AncestorAt(b, k) \in Block /\ Number(AncestorAt(b, k)) = k
      /\ \A i \in 1..k : AncestorAt(b, k)[i] = b[i]
  BY <1>4, AncestorType
<1> QED
  BY <1>3, <1>5, <1>6, SeqEqual DEF Block, Number

-----------------------------------------------------------------------------
(* The two sides of a tree route.                                          *)

\* A branch lists the ancestors above a height, and its last one is the block.
LEMMA BranchType ==
  ASSUME NEW b \in Block, NEW n \in 0..Number(b)
  PROVE  /\ Branch(b, n) \in Seq(Block)
         /\ Len(Branch(b, n)) = Number(b) - n
         /\ \A i \in 1..(Number(b) - n) : Branch(b, n)[i] = AncestorAt(b, n + i)
<1>1. Number(b) \in Nat /\ Number(b) - n \in Nat
  BY DEF Block, Number
<1>2. \A i \in 1..(Number(b) - n) : n + i \in 0..Number(b)
  BY <1>1
<1>3. \A i \in 1..(Number(b) - n) : AncestorAt(b, n + i) \in Block
  BY <1>2, AncestorType
<1>4. Branch(b, n) \in [1..(Number(b) - n) -> Block]
  BY <1>3 DEF Branch
<1>5. Branch(b, n) \in Seq(Block) /\ Len(Branch(b, n)) = Number(b) - n
  BY <1>1, <1>4
<1> QED
  BY <1>5 DEF Branch

\* A branch that is not empty ends at its block.
LEMMA BranchLast ==
  ASSUME NEW b \in Block, NEW n \in 0..Number(b), Branch(b, n) # << >>
  PROVE  /\ n < Number(b)
         /\ Last(Branch(b, n)) = b
<1>1. Number(b) \in Nat
  BY DEF Block, Number
<1>2. n < Number(b)
  BY <1>1, BranchType
<1>3. Branch(b, n)[Number(b) - n] = AncestorAt(b, n + (Number(b) - n))
  <2>1. Number(b) - n \in 1..(Number(b) - n)
    BY <1>1, <1>2
  <2> QED
    BY <2>1, BranchType
<1>4. n + (Number(b) - n) = Number(b)
  BY <1>1
<1> QED
  BY <1>2, <1>3, <1>4, BranchType, AncestorSelf DEF Last

\* Reversing gives a sequence of the same blocks, and twice is the identity.
LEMMA ReverseTwice ==
  ASSUME NEW S, NEW s \in Seq(S)
  PROVE  /\ Reverse(s) \in Seq(S)
         /\ Len(Reverse(s)) = Len(s)
         /\ Reverse(Reverse(s)) = s
<1>1. Len(s) \in Nat
  OBVIOUS
<1>2. Reverse(s) \in [1..Len(s) -> S]
  BY DEF Reverse
<1>3. Reverse(s) \in Seq(S) /\ Len(Reverse(s)) = Len(s)
  BY <1>1, <1>2
<1>4. Reverse(Reverse(s)) \in [1..Len(s) -> S]
  BY <1>3 DEF Reverse
<1>5. ASSUME NEW i \in 1..Len(s) PROVE Reverse(Reverse(s))[i] = s[i]
  <2>1. (Len(s) - i) + 1 \in 1..Len(s)
    OBVIOUS
  <2>2. Reverse(Reverse(s))[i] = Reverse(s)[(Len(s) - i) + 1]
    BY <1>3 DEF Reverse
  <2>3. Reverse(s)[(Len(s) - i) + 1] = s[(Len(s) - ((Len(s) - i) + 1)) + 1]
    BY <2>1 DEF Reverse
  <2>4. (Len(s) - ((Len(s) - i) + 1)) + 1 = i
    OBVIOUS
  <2> QED
    BY <2>2, <2>3, <2>4
<1>6. Reverse(Reverse(s)) \in Seq(S) /\ Len(Reverse(Reverse(s))) = Len(s)
  BY <1>1, <1>4
<1> QED
  BY <1>3, <1>5, <1>6, SeqEqual

\* The blocks a route enacts are to's ancestors above the common block; with the
\* ancestors of from they cover to's ancestry.
LEMMA RouteCovers ==
  ASSUME NEW a \in Block, NEW b \in Block
  PROVE  Ancestry(b) \subseteq Ancestry(a) \cup ToSet(TreeRoute(a, b).enacted)
<1> DEFINE n == CommonNumber(a, b)
<1>1. n \in 0..Number(a) /\ n \in 0..Number(b)
  BY CommonNumberDef
<1>2. Number(a) \in Nat /\ Number(b) \in Nat
  BY DEF Block, Number
<1>3. TreeRoute(a, b).enacted = Branch(b, n)
  BY DEF TreeRoute
<1> HIDE DEF n
<1> SUFFICES ASSUME NEW k \in 0..Number(b)
             PROVE  AncestorAt(b, k) \in Ancestry(a) \cup ToSet(Branch(b, n))
  BY <1>3 DEF Ancestry
<1>4. CASE k <= n
  <2>1. k \in 0..CommonNumber(a, b) /\ k \in 0..Number(a)
    BY <1>1, <1>2, <1>4 DEF n
  <2> QED
    BY <2>1, CommonAncestor DEF Ancestry
<1>5. CASE k > n
  <2>1. k - n \in 1..(Number(b) - n) /\ n + (k - n) = k
    BY <1>1, <1>2, <1>5
  <2>2. Branch(b, n)[k - n] = AncestorAt(b, k)
    BY <1>1, <2>1, BranchType
  <2>3. DOMAIN Branch(b, n) = 1..(Number(b) - n)
    BY <1>1, BranchType
  <2> QED
    BY <2>1, <2>2, <2>3 DEF ToSet
<1> QED
  BY <1>1, <1>2, <1>4, <1>5

=============================================================================
