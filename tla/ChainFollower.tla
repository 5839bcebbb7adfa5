---------------------------- MODULE ChainFollower ----------------------------
(***************************************************************************)
(* What BlocksExt promises to its subscribers, without saying how it is    *)
(* computed: every message leads from the previous best block to the next  *)
(* one along parent links, and names the re-org if there is one.           *)
(***************************************************************************)
EXTENDS Naturals, Sequences

CONSTANTS
  Block,      \* the blocks of a tree
  Genesis,    \* its root
  Parent(_)   \* the parent of a block

VARIABLES
  tip,      \* the best block the subscribers know of
  message,  \* the last BlocksExt
  session   \* how many times the tip was set without a message

\* Each block of s is the parent of the next one.
Linked(s) == \A i \in 2..Len(s) : Parent(s[i]) = s[i - 1]

\* m.blocks go on from tip.
Extends(m) ==
  /\ m.maybe_reorg_data = [retracted |-> << >>]
  /\ Parent(m.blocks[1]) = tip

\* The retracted blocks lead up to tip from the common block, and m.blocks leave
\* it by another child.  The new best block is not counted as enacted.
Reorgs(m) ==
  LET r == m.maybe_reorg_data
  IN  /\ r.retracted # << >>
      /\ Linked(r.retracted)
      /\ r.retracted[Len(r.retracted)] = tip
      /\ Parent(r.retracted[1]) = r.common
      /\ Parent(m.blocks[1]) = r.common
      /\ m.blocks[1] # r.retracted[1]
      /\ r.enacted = SubSeq(m.blocks, 1, Len(m.blocks) - 1)

Fits(m) ==
  /\ m.blocks # << >>
  /\ Linked(m.blocks)
  /\ Extends(m) \/ Reorgs(m)

Init ==
  /\ tip = Genesis
  /\ message.blocks = << >>
  /\ session = 0

\* A subscription starts: the tip is where the cache load put it.
Start ==
  /\ tip' \in Block
  /\ session' = session + 1
  /\ UNCHANGED message

Follow ==
  /\ session > 0
  /\ Fits(message')
  /\ tip' = message'.blocks[Len(message'.blocks)]
  /\ UNCHANGED session

Next == Start \/ Follow

Spec == Init /\ [][Next]_<<tip, message, session>>

=============================================================================
