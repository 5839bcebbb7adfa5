---------------------------- MODULE BlocksMessage ----------------------------
(***************************************************************************)
(* BlocksExt: what the listener broadcasts when its best block moves along *)
(* a tree route, and the Reorg alert the stall monitor makes of it.        *)
(***************************************************************************)
EXTENDS BlockTree

NoReorg == [retracted |-> << >>]
NoBlocksExt == [blocks |-> << >>, maybe_reorg_data |-> NoReorg]

ReorgData ==
  [enacted : Seq(Block), retracted : Seq(Block) \ {<< >>}, common : Block]

\* Mutant: the retracted blocks keep the order of the tree route.
BlocksExtUnreversed(route) ==
  [blocks           |-> route.enacted,
   maybe_reorg_data |->
     IF route.retracted = << >> THEN NoReorg
     ELSE [enacted   |-> Front(route.enacted),
           retracted |-> route.retracted,
           common    |-> route.common]]

\* Mutant: only the new best block is broadcast.
BlocksExtBestOnly(route) ==
  [blocks |-> <<Last(route.enacted)>>, maybe_reorg_data |-> NoReorg]

\* The BlocksExt broadcast for a route.  The new best block has been popped
\* from enacted by the time ReorgData takes it.
BlocksExt(route) ==
  [blocks           |-> route.enacted,
   maybe_reorg_data |->
     IF route.retracted = << >> THEN NoReorg
     ELSE [enacted   |-> Front(route.enacted),
           retracted |-> Reverse(route.retracted),
           common    |-> route.common]]

\* HashAndNumber
HashAndNumber(b) == [hash |-> b, number |-> Number(b)]

\* Alert::Reorg, for a message with re-org data.
ChainReorg(m) ==
  LET r == m.maybe_reorg_data
      named(s) == [i \in DOMAIN s |-> HashAndNumber(s[i])]
  IN  [alert        |-> "Reorg",
       best_block   |-> HashAndNumber(Last(m.blocks)),
       common_block |-> HashAndNumber(r.common),
       enacted      |-> named(r.enacted),
       retracted    |-> named(r.retracted)]

=============================================================================
