------------------------------ MODULE BlockTree ------------------------------
(***************************************************************************)
(* Blocks, as the alerter tells them apart.                                *)
(*                                                                         *)
(* A block hash commits to the header and, through parent_hash, to the     *)
(* whole path from genesis.  So the hash of a block IS that path: the      *)
(* sequence of choices made at each height, where the k-th child imported  *)
(* for a parent is choice k.  The number of a block is the length of its   *)
(* path, its parent is the path without the last choice, and two hashes    *)
(* are equal exactly when the paths are.                                   *)
(***************************************************************************)
EXTENDS Naturals, Sequences, SequencesExt

Block == Seq(Nat \ {0})

Genesis == << >>

Number(b) == Len(b)

Parent(b) == SubSeq(b, 1, Len(b) - 1)

\* The ancestor of b (or b itself) at height n, for n <= Number(b).
AncestorAt(b, n) == SubSeq(b, 1, n)

\* b and all its ancestors.
Ancestry(b) == {AncestorAt(b, n) : n \in 0..Number(b)}

\* a and b part after height n: at n + 1 one of them has ended or they differ.
PartAfter(a, b, n) ==
  \/ n = Number(a)
  \/ n = Number(b)
  \/ a[n + 1] # b[n + 1]

\* The height of the last common ancestor.
CommonNumber(a, b) ==
  CHOOSE n \in 0..Number(a) :
    /\ n <= Number(b)
    /\ PartAfter(a, b, n)
    /\ \A m \in 0..(n - 1) : ~ PartAfter(a, b, m)

\* The blocks of b's path above height n, in ascending order.
Branch(b, n) == [i \in 1..(Number(b) - n) |-> AncestorAt(b, n + i)]

(***************************************************************************)
(* sp_blockchain::tree_route (external).  It walks both hashes back to the *)
(* last common ancestor: retracted() is from's side in descending order,   *)
(* enacted() is to's side in ascending order.                              *)
(***************************************************************************)
TreeRoute(from, to) ==
  LET n == CommonNumber(from, to)
  IN  [retracted |-> Reverse(Branch(from, n)),
       common    |-> AncestorAt(from, n),
       enacted   |-> Branch(to, n)]

\* Every header the walk reads: both sides and the common block.
RouteHeaders(from, to) ==
  LET n == CommonNumber(from, to)
  IN  {AncestorAt(from, m) : m \in n..Number(from)}
        \cup {AncestorAt(to, m) : m \in n..Number(to)}

\* The first header of H the walk would read: from, then to, then downwards by
\* number, to's side before from's (H is a non-empty part of RouteHeaders).
FirstOnRoute(H, from, to) ==
  IF from \in H THEN from
  ELSE IF to \in H THEN to
  ELSE LET top == {h \in H : \A g \in H : Number(g) <= Number(h)}
       IN  IF top \cap Ancestry(to) # {}
             THEN CHOOSE h \in top : h \in Ancestry(to)
             ELSE CHOOSE h \in top : TRUE

=============================================================================
