---------------------------- MODULE MCATAStorage ----------------------------
(***************************************************************************)
(* A drive of three blocks that takes two in a command, and two threads    *)
(* whose transfers overlap.  The drive has 28-bit addresses, which do not  *)
(* reach its last block, or 48-bit ones.                                   *)
(***************************************************************************)
EXTENDS ATAStorage

CONSTANTS t1, t2

MCBlocks == 0..2

Transfer(op, tag, block, nblks) == [op |-> op, tag |-> tag, block |-> block, nblks |-> nblks]
Synchronize(r) == [op |-> "sync", reserved |-> r]

MCRequests == {
    Transfer("write", "a", 0, 3),
    Transfer("read", "", 0, 3),
    Transfer("read", "", 1, 0),
    Transfer("write", "b", 2, 2),
    Transfer("write", "b", 1, 2),
    Synchronize(FALSE),
    Synchronize(TRUE)}

MCIdentities == {
    [has48 |-> FALSE, lba48 |-> 0, lba28 |-> 3],
    [has48 |-> TRUE, lba48 |-> 3, lba28 |-> 2],
    [has48 |-> TRUE, lba48 |-> 0, lba28 |-> 0]}
=============================================================================
