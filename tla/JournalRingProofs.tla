------------------------- MODULE JournalRingProofs -------------------------
(***************************************************************************)
(* For a journal of any size, the space that free_space counts is free.    *)
(***************************************************************************)
EXTENDS JournalRing, TLAPS

\* Where do_journal_io leaves *offset is an offset again: the end that
\* finish_end_transaction stores passes the range check of end_transaction.
LEMMA AdvanceIsOffset ==
    ASSUME NEW o \in Offsets, NEW n \in 0..(Size - 1)
    PROVE  Advance(o, n) \in Offsets /\ UnitAt(o, n) \in Units
<1>1. Place(o) \in Units
  BY SizeAssumption DEF Offsets, Units, Place
<1>2. Advance(o, n) \in Offsets
  BY <1>1, SizeAssumption DEF Advance, Offsets, Units
<1>3. QED
  BY <1>2, SizeAssumption DEF UnitAt, Place, Offsets, Units

\* free_space never counts the journal header's block.
LEMMA FreeSpaceBounds ==
    ASSUME NEW s \in Offsets, NEW e \in Offsets
    PROVE  FreeSpace(s, e) \in 0..(Size - 1)
  BY SizeAssumption DEF FreeSpace, Offsets

\* What check_free_space lets end_transaction take is counted as taken: after
\* a group of n units is written, free_space is less by n, and the start and
\* the end of the journal have not met, which would make it look empty.
THEOREM SpaceIsTaken ==
    ASSUME NEW s \in Offsets, NEW e \in Offsets, NEW n \in Nat,
           FreeSpace(s, e) > n, n > 0
    PROVE  /\ FreeSpace(s, Advance(e, n)) = FreeSpace(s, e) - n
           /\ Place(s) # Place(Advance(e, n))
<1>1. n < Size - 1
  BY FreeSpaceBounds, SizeAssumption
<1>2. CASE Place(e) + n <= Size
  BY <1>1, <1>2, SizeAssumption DEF FreeSpace, Advance, Place, Offsets
<1>3. CASE ~(Place(e) + n <= Size)
  BY <1>1, <1>3, SizeAssumption DEF FreeSpace, Advance, Place, Offsets
<1>4. QED
  BY <1>2, <1>3

\* A group is never written over the units of the groups that the journal
\* header still claims: the units it takes lie outside of those between the
\* start and the end.
THEOREM GroupsDoNotOverlap ==
    ASSUME NEW s \in Offsets, NEW e \in Offsets, NEW n \in Nat,
           FreeSpace(s, e) > n,
           NEW i \in 0..(n - 1), NEW k \in 0..(Used(s, e) - 1)
    PROVE  UnitAt(e, i) # UnitAt(s, k)
<1>1. n < Size - 1
  BY FreeSpaceBounds, SizeAssumption
<1>2. CASE s < e
  BY <1>1, <1>2, SizeAssumption DEF Used, FreeSpace, UnitAt, Advance, Place, Offsets
<1>3. CASE s > e
  BY <1>1, <1>3, SizeAssumption DEF Used, FreeSpace, UnitAt, Advance, Place, Offsets
<1>4. CASE s = e
  <2>1. Used(s, e) = 0
    BY <1>4, SizeAssumption DEF Used, FreeSpace, Offsets
  <2>2. QED
    BY <2>1
<1>5. QED
  BY <1>2, <1>3, <1>4 DEF Offsets
=============================================================================
