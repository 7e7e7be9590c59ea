---------------------------- MODULE JournalRing ----------------------------
(***************************************************************************)
(* The circular part of the HFS journal (hfs_journal.c) and its offsets.   *)
(* The unit is one block of the journal: the journal header is unit 0, and *)
(* the transactions are laid around the units 1..Size-1.  An offset may    *)
(* also be Size, which do_journal_io and replay_journal read as 1.         *)
(***************************************************************************)
EXTENDS Integers

CONSTANT Size   \* jhdr->size, in blocks of jhdr_size

ASSUME SizeAssumption == Size \in Nat /\ Size > 2

Offsets == 1..Size
Units   == 1..(Size - 1)

\* free_space.
FreeSpace(start, end) ==
    IF start < end THEN Size - (end - start) - 1
    ELSE IF start > end THEN start - end
    ELSE Size - 1

\* The units between the two that are in use.
Used(start, end) == Size - 1 - FreeSpace(start, end)

\* The unit an offset names.
Place(o) == IF o = Size THEN 1 ELSE o

\* Where *offset is left by a transfer of n units.
Advance(o, n) ==
    IF Place(o) + n <= Size THEN Place(o) + n ELSE Place(o) + n - Size + 1

\* The i-th unit, from 0, of what begins at an offset.
UnitAt(o, i) == Place(Advance(o, i))
=============================================================================
