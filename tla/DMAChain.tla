------------------------------ MODULE DMAChain ------------------------------
(***************************************************************************)
(* createChannelCommands of AppleIntelPIIXPATA: the list of physical       *)
(* region descriptors (PRDs) for the bus-master engine.  The buffer comes  *)
(* as physical segments, one by one; a segment is split where it crosses a *)
(* 64K boundary.  A descriptor's 16-bit count stands for 64K when it is 0, *)
(* and the engine follows the table up to the first descriptor flagged     *)
(* last.  The table is kept from one transfer to the next.                 *)
(***************************************************************************)
EXTENDS Integers, Sequences

CONSTANTS
    MaxDesc,    \* kATAMaxDMADesc, the entries of the table
    MaxXfer,    \* kMaxATAXfer, the bytes of the largest transfer
    Sizes,      \* byte counts the commands may ask for
    Segments    \* what gen32IOVMSegments may return

Segment == [addr : Nat, len : Nat \ {0}]

ASSUME ChainAssumption ==
    /\ MaxDesc \in Nat
    /\ MaxXfer \in Nat
    /\ Sizes \subseteq Nat
    /\ Segments \subseteq Segment

Block == 65536

PRD == [addr : Nat, count : {n \in Nat : n < Block}, last : BOOLEAN]

Result == {"ok", "nobuffer", "badargument", "misaligned", "exhausted", "empty"}

VARIABLES
    pc,       \* "idle", "segments" (outer loop), "split" (inner loop)
    bytes,    \* bytesRemaining
    ptr,      \* xferDataPtr
    count,    \* xferCount
    end,      \* ptr2EndData
    next,     \* next64KBlock
    prd,      \* _prdTable
    index,    \* the entries written so far; they are 1..index
    result,   \* what createChannelCommands has returned
    size,     \* history: the byte count of the command
    moved,    \* history: the bytes the engine will move for the entries written
    given     \* history: the segments, each with the index of its first entry

loopVars == <<bytes, ptr, count, end, next>>
vars == <<pc, loopVars, prd, index, result, size, moved, given>>

\* initATADMAChains
Stop == [addr |-> 0, count |-> 1, last |-> TRUE]

Init ==
    /\ pc = "idle"
    /\ bytes = 0
    /\ ptr = 0
    /\ count = 0
    /\ end = 0
    /\ next = 0
    /\ prd = [i \in 1..MaxDesc |-> Stop]
    /\ index = 0
    /\ result = "empty"
    /\ size = 0
    /\ moved = 0
    /\ given = << >>

Return(r) ==
    /\ pc' = "idle"
    /\ result' = r

\* The next command gets to createChannelCommands.
Begin(n) ==
    /\ pc = "idle"
    /\ index' = 0
    /\ bytes' = n
    /\ size' = n
    /\ moved' = 0
    /\ given' = << >>
    /\ \/ Return("nobuffer")
       \/ n > MaxXfer /\ Return("badargument")
       \/ n <= MaxXfer /\ pc' = "segments" /\ UNCHANGED result
    /\ UNCHANGED <<ptr, count, end, next, prd>>

\* Faulty variant: the next boundary is not aligned.
NextBoundaryUnaligned(a) == a + Block

\* starting64KBlock + 0x10000
NextBoundary(a) == a - (a % Block) + Block

\* Faulty variant: a segment is not cut to what the command still needs.
TakeWhole(len) == len

Take(len) == IF len > bytes THEN bytes ELSE len

\* gen32IOVMSegments returns the next segment of the buffer.
NextSegment(s) ==
    /\ pc = "segments"
    /\ bytes > 0
    /\ \/ /\ s.addr % 2 = 1
          /\ Return("misaligned")
          /\ UNCHANGED <<loopVars, given>>
       \/ /\ s.addr % 2 = 0
          /\ pc' = "split"
          /\ ptr' = s.addr
          /\ count' = Take(s.len)
          /\ end' = s.addr + Take(s.len)
          /\ next' = NextBoundary(s.addr)
          /\ bytes' = bytes - Take(s.len)
          /\ given' = Append(given, [addr |-> s.addr, len |-> Take(s.len), first |-> index + 1])
          /\ UNCHANGED result
    /\ UNCHANGED <<prd, index, size, moved>>

\* How the engine reads a descriptor's count.
EngineLength(d) == IF d.count = 0 THEN Block ELSE d.count

\* setPRD for the next entry
Emit(n, last) ==
    LET d == [addr |-> ptr, count |-> n % Block, last |-> last]
    IN  /\ prd' = [prd EXCEPT ![index + 1] = d]
        /\ index' = index + 1
        /\ moved' = moved + EngineLength(d)

\* Faulty variant: a segment that ends on the boundary is split there too.
CrossesOrTouches == end >= next

Crosses == end > next

\* The part of the segment up to the boundary.
SplitAtBoundary ==
    /\ pc = "split"
    /\ count > 0
    /\ Crosses
    /\ index < MaxDesc
    /\ Emit(next - ptr, FALSE)
    /\ ptr' = next
    /\ next' = next + Block
    /\ count' = count - (next - ptr)
    /\ UNCHANGED <<pc, bytes, end, result, size, given>>

\* The rest of the segment.
EmitRest ==
    /\ pc = "split"
    /\ count > 0
    /\ ~Crosses
    /\ index < MaxDesc
    /\ Emit(count, bytes = 0)
    /\ count' = 0
    /\ UNCHANGED <<pc, bytes, ptr, end, next, result, size, given>>

\* Faulty variant: the table is taken for full one entry early.
ExhaustedEarly ==
    /\ pc = "split"
    /\ count > 0
    /\ index >= MaxDesc - 1
    /\ Return("exhausted")
    /\ UNCHANGED <<loopVars, prd, index, size, moved, given>>

\* PRD table exhausted, in either branch
Exhausted ==
    /\ pc = "split"
    /\ count > 0
    /\ index >= MaxDesc
    /\ Return("exhausted")
    /\ UNCHANGED <<loopVars, prd, index, size, moved, given>>

SegmentDone ==
    /\ pc = "split"
    /\ count = 0
    /\ pc' = "segments"
    /\ UNCHANGED <<loopVars, prd, index, result, size, moved, given>>

Finish ==
    /\ pc = "segments"
    /\ bytes = 0
    /\ Return(IF index = 0 THEN "empty" ELSE "ok")
    /\ UNCHANGED <<loopVars, prd, index, size, moved, given>>

Next ==
    \/ \E n \in Sizes : Begin(n)
    \/ \E s \in Segments : NextSegment(s)
    \/ SplitAtBoundary \/ EmitRest \/ Exhausted \/ SegmentDone \/ Finish

Spec == Init /\ [][Next]_vars

-----------------------------------------------------------------------------
(* Correctness                                                             *)

Piece == [addr : Nat, len : Nat \ {0}, first : Nat \ {0}]

\* Every variable has its type; the table is never written past its end.
TypeOK ==
    /\ pc \in {"idle", "segments", "split"}
    /\ bytes \in Nat
    /\ ptr \in Nat
    /\ count \in Nat
    /\ end \in Nat
    /\ next \in Nat
    /\ prd \in [1..MaxDesc -> PRD]
    /\ index \in 0..MaxDesc
    /\ result \in Result
    /\ size \in Nat
    /\ moved \in Nat
    /\ given \in Seq(Piece)

\* No descriptor makes the engine cross a 64K boundary, which it cannot do,
\* however segments start, end and span such boundaries.
NoCrossing ==
    \A i \in 1..index : (prd[i].addr % Block) + EngineLength(prd[i]) <= Block

\* The address after the bytes of an entry.
After(i) == prd[i].addr + EngineLength(prd[i])

\* The engine stops at the last entry of this transfer, not earlier and not in
\* what an earlier transfer has left in the table.
StopsAtEnd == index > 0 /\ \A i \in 1..index : prd[i].last <=> i = index

\* Each segment starts at its first entry, each entry goes on where the one
\* before ended, and the entries of a segment end where the segment does.
FollowsBuffer ==
    /\ \A j \in DOMAIN given : prd[given[j].first].addr = given[j].addr
    /\ \A i \in 2..index :
        (\A j \in DOMAIN given : given[j].first # i) => prd[i].addr = After(i - 1)
    /\ \A j \in DOMAIN given :
        After(IF j = Len(given) THEN index ELSE given[j + 1].first - 1)
            = given[j].addr + given[j].len

\* A chain that is handed to the engine moves the bytes of the command, all of
\* them and no other, through its segments in their order.
ChainIsTransfer ==
    pc = "idle" /\ result = "ok" => StopsAtEnd /\ FollowsBuffer /\ moved = size

\* The table runs out only for badly scattered buffers: two entries for each
\* segment and one for every 64K moved do not fit.  A transfer within the limits
\* that the storage driver publishes (32 segments, 128K) never fails for it.
ExhaustedOnlyIfScattered ==
    pc = "idle" /\ result = "exhausted" =>
        2 * Block * Len(given) + moved >= Block * (MaxDesc + 1)

=============================================================================
