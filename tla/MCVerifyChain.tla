----------------------------- MODULE MCVerifyChain -----------------------------
(* One root, committed to on any of three blocks, two of which compete for one *)
(* height, or offline.                                                         *)
EXTENDS VerifyChain

CONSTANT root

Block(h, f) == [height |-> h, fork |-> f]
ThreeBlocks == {Block(1, 1), Block(1, 2), Block(2, 1)}
OneSynthetic == {Block(0, 1)}
CommitmentsOfRoot == [block : ThreeBlocks \cup OneSynthetic, root : {root}]
================================================================================
