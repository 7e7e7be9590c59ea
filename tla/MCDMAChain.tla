----------------------------- MODULE MCDMAChain -----------------------------
(* Segments around the 64K boundaries, in a table of a few entries.         *)
EXTENDS DMAChain

MCSizes == {0, 2, Block + 2, 2 * Block + 2, 3 * Block}
MCSegments ==
    [addr : {Block - 2, Block - 1, Block}, len : {4, Block, 2 * Block + 2}]
=============================================================================
