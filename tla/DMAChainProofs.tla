--------------------------- MODULE DMAChainProofs ---------------------------
(***************************************************************************)
(* What createChannelCommands guarantees for tables and transfers of every *)
(* size and for any segments.  BlockInv keeps the pointers of the inner    *)
(* loop inside one 64K block; ChainInv relates the entries written so far  *)
(* to the segments of the buffer.                                          *)
(***************************************************************************)
EXTENDS DMAChain, TLAPS

\* The next 64K boundary after an address.
LEMMA Boundary ==
    ASSUME NEW a \in Nat
    PROVE  /\ NextBoundary(a) \in Nat
           /\ NextBoundary(a) % Block = 0
           /\ a < NextBoundary(a)
           /\ NextBoundary(a) - Block <= a
  BY DEF Block, NextBoundary

\* 64K after a boundary there is another.
LEMMA NextBlock ==
    ASSUME NEW a \in Nat, a % Block = 0
    PROVE  (a + Block) % Block = 0
  BY DEF Block

\* Bytes between an address and the boundary of its block stay inside the block.
LEMMA InBlock ==
    ASSUME NEW a \in Nat, NEW b \in Nat, NEW n \in Nat, b % Block = 0, b - Block <= a, a + n <= b
    PROVE  (a % Block) + n <= Block
  BY DEF Block

\* The engine reads back the count that was encoded, 64K included.
LEMMA Encoding ==
    ASSUME NEW n \in Nat, 0 < n, n <= Block, NEW x \in Nat, NEW l
    PROVE  /\ n % Block \in Nat
           /\ n % Block < Block
           /\ EngineLength([addr |-> x, count |-> n % Block, last |-> l]) = n
  BY DEF Block, EngineLength

-----------------------------------------------------------------------------
\* In the inner loop the pointers enclose what is left of the segment, inside
\* the block that ends at next64KBlock.
Enclosed ==
    pc = "split" /\ count > 0 =>
        /\ ptr + count = end
        /\ next % Block = 0
        /\ next - Block <= ptr
        /\ ptr < next

BlockInv == TypeOK /\ Enclosed /\ NoCrossing

\* What is taken of a segment is not empty and not more than is needed.
LEMMA TakeType ==
    ASSUME TypeOK, bytes > 0, NEW n \in Nat \ {0}
    PROVE  Take(n) \in Nat \ {0} /\ Take(n) <= bytes /\ bytes - Take(n) \in Nat
  BY DEF TypeOK, Take

\* What writing an entry of n bytes at ptr does to the table.
LEMMA EmitEffect ==
    ASSUME TypeOK, index < MaxDesc, NEW n \in Nat, 0 < n, n <= Block, NEW l \in BOOLEAN, Emit(n, l)
    PROVE  /\ prd' \in [1..MaxDesc -> PRD]
           /\ index' = index + 1
           /\ index' \in 0..MaxDesc
           /\ moved' = moved + n
           /\ prd'[index'].addr = ptr
           /\ prd'[index'].last = l
           /\ EngineLength(prd'[index']) = n
           /\ \A i \in 1..index : prd'[i] = prd[i]
  <1>. DEFINE d == [addr |-> ptr, count |-> n % Block, last |-> l]
  <1>1. ptr \in Nat /\ index \in 0..MaxDesc /\ prd \in [1..MaxDesc -> PRD] /\ MaxDesc \in Nat
    BY ChainAssumption DEF TypeOK
  <1>2. n % Block \in Nat /\ n % Block < Block /\ EngineLength(d) = n
    BY <1>1, Encoding
  <1>3. d \in PRD /\ d.addr = ptr /\ d.last = l
    BY <1>1, <1>2 DEF PRD
  <1>4. prd' = [prd EXCEPT ![index + 1] = d] /\ index' = index + 1 /\ moved' = moved + EngineLength(d)
    BY DEF Emit
  <1>. HIDE DEF d
  <1>5. index + 1 \in 1..MaxDesc
    BY <1>1
  <1>6. prd' \in [1..MaxDesc -> PRD] /\ prd'[index + 1] = d
    BY <1>1, <1>3, <1>4, <1>5
  <1>7. \A i \in 1..index : prd'[i] = prd[i]
    BY <1>1, <1>4, <1>5
  <1>. QED
    BY <1>1, <1>2, <1>3, <1>4, <1>5, <1>6, <1>7

\* An entry inside one block keeps NoCrossing.
LEMMA EmitKeepsBlocks ==
    ASSUME BlockInv, index < MaxDesc, NEW n \in Nat, 0 < n, n <= Block, NEW l \in BOOLEAN, Emit(n, l),
           (ptr % Block) + n <= Block
    PROVE  NoCrossing'
  <1>1. TypeOK /\ NoCrossing /\ index \in 0..MaxDesc /\ MaxDesc \in Nat
    BY ChainAssumption DEF BlockInv, TypeOK
  <1>2. /\ index' = index + 1
        /\ prd'[index'].addr = ptr
        /\ EngineLength(prd'[index']) = n
        /\ \A i \in 1..index : prd'[i] = prd[i]
    BY <1>1, EmitEffect
  <1>3. ASSUME NEW i \in 1..index'
        PROVE  (prd'[i].addr % Block) + EngineLength(prd'[i]) <= Block
    <2>1. CASE i = index'
      BY <2>1, <1>2
    <2>2. CASE i # index'
      <3>1. i \in 1..index
        BY <2>2, <1>1, <1>2
      <3>. QED
        BY <3>1, <1>1, <1>2 DEF NoCrossing
    <2>. QED
      BY <2>1, <2>2
  <1>. QED
    BY <1>3 DEF NoCrossing

\* Every entry of the initial table is a stop inside block 0.
LEMMA BlockInit == Init => BlockInv
  <1>. SUFFICES ASSUME Init PROVE BlockInv
    OBVIOUS
  <1>1. Stop \in PRD
    BY DEF Stop, PRD, Block
  <1>2. TypeOK
    BY <1>1, ChainAssumption DEF Init, TypeOK, Result
  <1>3. Enclosed /\ NoCrossing
    BY DEF Init, Enclosed, NoCrossing
  <1>. QED
    BY <1>2, <1>3 DEF BlockInv

\* No step leaves BlockInv.
LEMMA BlockStep == BlockInv /\ [Next]_vars => BlockInv'
  <1>. SUFFICES ASSUME BlockInv, [Next]_vars PROVE BlockInv'
    OBVIOUS
  <1>. USE ChainAssumption
  <1>0. TypeOK /\ Enclosed /\ NoCrossing
    BY DEF BlockInv
  <1>1. ASSUME NEW n \in Sizes, Begin(n) PROVE BlockInv'
    <2>1. TypeOK'
      BY <1>0, <1>1 DEF Begin, Return, TypeOK, Result
    <2>2. Enclosed' /\ NoCrossing'
      BY <1>1 DEF Begin, Return, Enclosed, NoCrossing
    <2>. QED
      BY <2>1, <2>2 DEF BlockInv
  <1>2. ASSUME NEW s \in Segments, NextSegment(s) PROVE BlockInv'
    <2>1. s.addr \in Nat /\ s.len \in Nat \ {0} /\ bytes > 0
      BY <1>2 DEF NextSegment, Segment
    <2>2. Take(s.len) \in Nat \ {0} /\ bytes - Take(s.len) \in Nat
      BY <1>0, <2>1, TakeType
    <2>3. UNCHANGED <<prd, index, size, moved>>
      BY <1>2 DEF NextSegment
    <2>4. NoCrossing'
      BY <1>0, <2>3 DEF NoCrossing
    <2>5. CASE s.addr % 2 = 1
      <3>1. Return("misaligned") /\ UNCHANGED <<loopVars, given>>
        BY <1>2, <2>5 DEF NextSegment
      <3>2. TypeOK' /\ Enclosed'
        BY <3>1, <1>0, <2>3 DEF TypeOK, Return, loopVars, Result, Enclosed
      <3>. QED
        BY <3>2, <2>4 DEF BlockInv
    <2>6. CASE s.addr % 2 # 1
      <3>. DEFINE t == Take(s.len)
      <3>1. /\ pc' = "split" /\ ptr' = s.addr /\ count' = t /\ end' = s.addr + t
            /\ next' = NextBoundary(s.addr) /\ bytes' = bytes - t /\ result' = result
            /\ given' = Append(given, [addr |-> s.addr, len |-> t, first |-> index + 1])
        BY <1>2, <2>6 DEF NextSegment
      <3>2. /\ NextBoundary(s.addr) \in Nat
            /\ NextBoundary(s.addr) % Block = 0
            /\ s.addr < NextBoundary(s.addr)
            /\ NextBoundary(s.addr) - Block <= s.addr
        BY <2>1, Boundary
      <3>3. t \in Nat \ {0} /\ bytes - t \in Nat
        BY <2>2
      <3>. HIDE DEF t
      <3>4. [addr |-> s.addr, len |-> t, first |-> index + 1] \in Piece
        BY <1>0, <2>1, <3>3 DEF TypeOK, Piece
      <3>5. given' \in Seq(Piece)
        BY <1>0, <3>1, <3>4 DEF TypeOK
      <3>6. TypeOK'
        BY <1>0, <2>1, <2>3, <3>1, <3>2, <3>3, <3>5 DEF TypeOK
      <3>7. Enclosed'
        BY <3>1, <3>2, <3>3, <2>1 DEF Enclosed
      <3>. QED
        BY <3>6, <3>7, <2>4 DEF BlockInv
    <2>. QED
      BY <2>5, <2>6
  <1>3. CASE SplitAtBoundary
    <2>. DEFINE n == next - ptr
    <2>1. /\ pc = "split" /\ count > 0 /\ end > next /\ index < MaxDesc /\ Emit(n, FALSE)
          /\ ptr' = next /\ next' = next + Block /\ count' = count - n
          /\ UNCHANGED <<pc, bytes, end, result, size, given>>
      BY Zenon, <1>3 DEF SplitAtBoundary, Crosses
    <2>2. /\ ptr + count = end /\ next % Block = 0 /\ next - Block <= ptr /\ ptr < next
          /\ ptr \in Nat /\ next \in Nat /\ count \in Nat /\ end \in Nat
      BY <1>0, <2>1 DEF Enclosed, TypeOK
    <2>3. n \in Nat /\ 0 < n /\ n <= Block /\ count - n \in Nat /\ ptr + n <= next /\ next + (count - n) = end
      BY <2>1, <2>2 DEF Block
    <2>4. (ptr % Block) + n <= Block
      BY <2>2, <2>3, InBlock
    <2>. HIDE DEF n
    <2>5. NoCrossing'
      BY Zenon, <2>1, <2>3, <2>4, EmitKeepsBlocks
    <2>6. prd' \in [1..MaxDesc -> PRD] /\ index' \in 0..MaxDesc /\ moved' = moved + n
      BY Zenon, <1>0, <2>1, <2>3, EmitEffect
    <2>7. (next + Block) % Block = 0
      BY <2>2, NextBlock
    <2>8. TypeOK'
      BY <1>0, <2>1, <2>2, <2>3, <2>6 DEF TypeOK, Block
    <2>9. Enclosed'
      BY <2>1, <2>2, <2>3, <2>7 DEF Enclosed, Block
    <2>. QED
      BY <2>5, <2>8, <2>9 DEF BlockInv
  <1>4. CASE EmitRest
    <2>1. /\ pc = "split" /\ count > 0 /\ ~(end > next) /\ index < MaxDesc /\ Emit(count, bytes = 0)
          /\ count' = 0 /\ UNCHANGED <<pc, bytes, ptr, end, next, result, size, given>>
      BY <1>4 DEF EmitRest, Crosses
    <2>2. /\ ptr + count = end /\ next % Block = 0 /\ next - Block <= ptr /\ ptr < next
          /\ ptr \in Nat /\ next \in Nat /\ count \in Nat /\ end \in Nat
      BY <1>0, <2>1 DEF Enclosed, TypeOK
    <2>3. count <= Block /\ ptr + count <= next
      BY <2>1, <2>2 DEF Block
    <2>4. (ptr % Block) + count <= Block
      BY <2>2, <2>3, InBlock
    <2>5. NoCrossing'
      BY Zenon, <2>1, <2>2, <2>3, <2>4, EmitKeepsBlocks
    <2>6. prd' \in [1..MaxDesc -> PRD] /\ index' \in 0..MaxDesc /\ moved' = moved + count
      BY Zenon, <1>0, <2>1, <2>2, <2>3, EmitEffect
    <2>7. TypeOK'
      BY <1>0, <2>1, <2>2, <2>6 DEF TypeOK
    <2>8. Enclosed'
      BY <2>1 DEF Enclosed
    <2>. QED
      BY <2>5, <2>7, <2>8 DEF BlockInv
  <1>5. CASE Exhausted
    <2>1. TypeOK' /\ Enclosed' /\ NoCrossing'
      BY <1>0, <1>5 DEF Exhausted, Return, loopVars, TypeOK, Result, Enclosed, NoCrossing
    <2>. QED
      BY <2>1 DEF BlockInv
  <1>6. CASE SegmentDone
    <2>1. TypeOK' /\ Enclosed' /\ NoCrossing'
      BY <1>0, <1>6 DEF SegmentDone, loopVars, TypeOK, Enclosed, NoCrossing
    <2>. QED
      BY <2>1 DEF BlockInv
  <1>7. CASE Finish
    <2>1. TypeOK' /\ Enclosed' /\ NoCrossing'
      BY <1>0, <1>7 DEF Finish, Return, loopVars, TypeOK, Result, Enclosed, NoCrossing
    <2>. QED
      BY <2>1 DEF BlockInv
  <1>8. CASE UNCHANGED vars
    <2>1. TypeOK' /\ Enclosed' /\ NoCrossing'
      BY <1>0, <1>8 DEF vars, loopVars, TypeOK, Enclosed, NoCrossing
    <2>. QED
      BY <2>1 DEF BlockInv
  <1>. QED
    BY <1>1, <1>2, <1>3, <1>4, <1>5, <1>6, <1>7, <1>8 DEF Next

\* The table is never written past its end, and every other variable keeps its
\* type, for tables and transfers of every size and any segments.
THEOREM TypeCorrect == Spec => []TypeOK
  <1>1. BlockInv => TypeOK
    BY DEF BlockInv
  <1>. QED
    BY <1>1, BlockInit, BlockStep, PTL DEF Spec

\* However the buffer lies in memory, createChannelCommands never writes a
\* descriptor that crosses a 64K boundary.
THEOREM NeverCrosses == Spec => []NoCrossing
  <1>1. BlockInv => NoCrossing
    BY DEF BlockInv
  <1>. QED
    BY <1>1, BlockInit, BlockStep, PTL DEF Spec

-----------------------------------------------------------------------------
(* The chain follows the buffer.                                           *)

\* A part of the current segment has still to be written, or all of it.
Splitting == pc = "split" /\ count > 0
Fresh     == given[Len(given)].first = index + 1

Goal(j) == given[j].addr + given[j].len

\* Every byte of the command is in the chain, in the current segment, or still
\* to come.
Balance == moved + bytes + (IF pc = "split" THEN count ELSE 0) = size

\* The segments start at their first entries, and end before the next one's.
Starts ==
    \A j \in 1..Len(given) :
        /\ given[j].first <= index + 1
        /\ given[j].first <= index => prd[given[j].first].addr = given[j].addr
Ends ==
    \A j \in 1..(Len(given) - 1) :
        /\ given[j].first <= index
        /\ given[j + 1].first > 1
        /\ After(given[j + 1].first - 1) = Goal(j)

Joins ==
    \A i \in 2..index :
        (\A j \in 1..Len(given) : given[j].first # i) => prd[i].addr = After(i - 1)

\* Only the final entry is flagged last, and only when nothing follows.
Flags == \A i \in 1..index : prd[i].last => i = index /\ bytes = 0 /\ ~Splitting

Position ==
    IF Splitting
    THEN /\ given # << >>
         /\ end = Goal(Len(given))
         /\ \/ Fresh /\ ptr = given[Len(given)].addr
            \/ /\ given[Len(given)].first <= index
               /\ After(index) = ptr
               /\ ptr = next - Block
    ELSE \/ given = << >> /\ index = 0
         \/ /\ given # << >>
            /\ given[Len(given)].first <= index
            /\ After(index) = Goal(Len(given))
            /\ bytes = 0 => prd[index].last

\* Two entries for each segment and one for every 64K are enough.
Scatter ==
    Block * index + (IF Splitting THEN IF Fresh THEN 2 * Block ELSE Block ELSE 0)
        <= 2 * Block * Len(given) + moved

Chain == Balance /\ Starts /\ Ends /\ Joins /\ Flags /\ Position /\ Scatter

ChainInv ==
    /\ pc # "idle" => Chain
    /\ ChainIsTransfer
    /\ ExhaustedOnlyIfScattered

\* The types of the segments taken so far.
LEMMA GivenType ==
    ASSUME TypeOK
    PROVE  /\ index \in Nat
           /\ Len(given) \in Nat
           /\ given # << >> => Len(given) \in 1..Len(given)
           /\ \A j \in 1..Len(given) :
                given[j].addr \in Nat /\ given[j].len \in Nat /\ given[j].first \in Nat \ {0}
  <1>1. index \in Nat /\ given \in Seq(Piece)
    BY ChainAssumption DEF TypeOK
  <1>2. Len(given) \in Nat /\ (given # << >> => Len(given) \in 1..Len(given))
    BY <1>1
  <1>3. ASSUME NEW j \in 1..Len(given)
        PROVE  given[j].addr \in Nat /\ given[j].len \in Nat /\ given[j].first \in Nat \ {0}
    <2>1. given[j] \in Piece
      BY <1>1
    <2>. QED
      BY <2>1 DEF Piece
  <1>. QED
    BY <1>1, <1>2, <1>3

\* Writing the next entry of the current segment keeps the chain in step.
LEMMA EmitJoins ==
    ASSUME TypeOK, index < MaxDesc, NEW n \in Nat, 0 < n, n <= Block, NEW l \in BOOLEAN, Emit(n, l),
           given' = given, Splitting, Starts, Ends, Joins, Position
    PROVE  Starts' /\ Ends' /\ Joins'
  <1>. USE ChainAssumption
  <1>1. /\ index' = index + 1
        /\ prd'[index + 1].addr = ptr
        /\ \A i \in 1..index : prd'[i] = prd[i]
    BY EmitEffect
  <1>2. /\ index \in Nat
        /\ Len(given) \in Nat
        /\ \A j \in 1..Len(given) : given[j].first \in Nat \ {0}
    BY GivenType
  <1>3. /\ Len(given) \in 1..Len(given)
        /\ \/ Fresh /\ ptr = given[Len(given)].addr
           \/ given[Len(given)].first <= index /\ After(index) = ptr
    BY <1>2 DEF Position, TypeOK
  <1>4. Starts'
    <2>. SUFFICES ASSUME NEW j \in 1..Len(given)
                  PROVE  /\ given[j].first <= index + 2
                         /\ given[j].first <= index + 1 => prd'[given[j].first].addr = given[j].addr
      BY <1>1, <1>2 DEF Starts
    <2>1. given[j].first <= index + 1
      BY DEF Starts
    <2>2. CASE given[j].first <= index
      <3>1. given[j].first \in 1..index
        BY <2>2, <1>2
      <3>. QED
        BY <3>1, <2>2, <1>1, <1>2, SMTT(30) DEF Starts
    <2>3. CASE given[j].first = index + 1
      <3>1. j = Len(given)
        BY <2>3, <1>2 DEF Ends
      <3>2. ptr = given[j].addr
        BY <3>1, <2>3, <1>2, <1>3
      <3>. QED
        BY <3>2, <2>3, <1>1, <1>2
    <2>. QED
      BY <2>1, <2>2, <2>3, <1>2
  <1>5. Ends'
    <2>. SUFFICES ASSUME NEW j \in 1..(Len(given) - 1)
                  PROVE  /\ given[j].first <= index + 1
                         /\ given[j + 1].first > 1
                         /\ After(given[j + 1].first - 1)' = Goal(j)
      BY <1>1 DEF Ends, Goal
    <2>1. /\ given[j].first <= index
          /\ given[j + 1].first > 1
          /\ After(given[j + 1].first - 1) = Goal(j)
      BY DEF Ends
    <2>2. given[j + 1].first - 1 \in 1..index
      BY <2>1, <1>2 DEF Starts
    <2>3. After(given[j + 1].first - 1)' = After(given[j + 1].first - 1)
      BY <2>2, <1>1 DEF After
    <2>. QED
      BY <2>1, <2>3, <1>2
  <1>6. Joins'
    <2>. SUFFICES ASSUME NEW i \in 2..(index + 1), \A j \in 1..Len(given) : given[j].first # i
                  PROVE  prd'[i].addr = After(i - 1)'
      BY <1>1 DEF Joins
    <2>1. i - 1 \in 1..index
      BY <1>2
    <2>2. After(i - 1)' = After(i - 1)
      BY <2>1, <1>1 DEF After
    <2>3. CASE i = index + 1
      <3>1. After(index) = ptr
        BY <2>3, <1>3 DEF Fresh
      <3>2. i - 1 = index
        BY <2>3, <1>2
      <3>. QED
        BY <3>1, <3>2, <2>2, <2>3, <1>1
    <2>4. CASE i # index + 1
      <3>1. i \in 2..index /\ i \in 1..index
        BY <2>4, <1>2
      <3>2. prd[i].addr = After(i - 1)
        BY <3>1 DEF Joins
      <3>. QED
        BY <3>1, <3>2, <2>2, <1>1
    <2>. QED
      BY <2>3, <2>4
  <1>. QED
    BY <1>4, <1>5, <1>6

\* A new command starts with an empty chain.
LEMMA ChainBegin ==
    ASSUME BlockInv, NEW n \in Sizes, Begin(n)
    PROVE  ChainInv'
  <1>1. n \in Nat
    BY ChainAssumption
  <1>2. CASE pc' = "idle"
    <2>1. result' \in {"nobuffer", "badargument"}
      BY <1>2 DEF Begin, Return
    <2>. QED
      BY <1>2, <2>1 DEF ChainInv, ChainIsTransfer, ExhaustedOnlyIfScattered
  <1>3. CASE pc' # "idle"
    <2>1. /\ pc' = "segments" /\ index' = 0 /\ bytes' = n /\ size' = n /\ moved' = 0
          /\ given' = << >>
      BY <1>3 DEF Begin, Return
    <2>2. Len(given') = 0
      BY <2>1
    <2>3. Starts' /\ Ends' /\ Joins' /\ Flags' /\ Position'
      BY <2>1, <2>2 DEF Starts, Ends, Joins, Flags, Position, Splitting
    <2>4. Balance' /\ Scatter'
      BY <1>1, <2>1, <2>2 DEF Balance, Scatter, Splitting, Block
    <2>. QED
      BY <2>1, <2>3, <2>4 DEF ChainInv, Chain, ChainIsTransfer, ExhaustedOnlyIfScattered
  <1>. QED
    BY <1>2, <1>3

\* Taking a segment: it starts at the next entry.
LEMMA ChainNextSegment ==
    ASSUME BlockInv, ChainInv, NEW s \in Segments, NextSegment(s)
    PROVE  ChainInv'
  <1>. DEFINE t == Take(s.len)
              x == [addr |-> s.addr, len |-> t, first |-> index + 1]
              L == Len(given)
  <1>1. TypeOK /\ pc = "segments" /\ bytes > 0 /\ Chain
    BY DEF BlockInv, ChainInv, NextSegment
  <1>2. UNCHANGED <<prd, index, size, moved>>
    BY DEF NextSegment
  <1>3. CASE pc' = "idle"
    <2>1. result' = "misaligned"
      BY <1>3 DEF NextSegment, Return
    <2>. QED
      BY <1>3, <2>1 DEF ChainInv, ChainIsTransfer, ExhaustedOnlyIfScattered
  <1>4. CASE pc' # "idle"
    <2>1. /\ pc' = "split" /\ ptr' = s.addr /\ count' = t /\ end' = s.addr + t
          /\ bytes' = bytes - t /\ given' = Append(given, x)
      BY <1>4 DEF NextSegment, Return
    <2>2. /\ L \in Nat /\ index \in Nat /\ given \in Seq(Piece)
          /\ \A j \in 1..L : given[j].first \in Nat \ {0}
          /\ given # << >> => L \in 1..L
          /\ bytes \in Nat /\ moved \in Nat /\ size \in Nat
      BY <1>1, GivenType DEF TypeOK
    <2>3. s.addr \in Nat /\ s.len \in Nat \ {0}
      BY ChainAssumption DEF Segment
    <2>4. t \in Nat \ {0} /\ bytes - t \in Nat
      BY <1>1, <2>3, TakeType
    <2>5. x.addr = s.addr /\ x.len = t /\ x.first = index + 1
      OBVIOUS
    <2>. HIDE DEF t, x
    <2>6. /\ Len(given') = L + 1
          /\ given'[L + 1] = x
          /\ \A j \in 1..L : given'[j] = given[j]
          /\ given' # << >>
      BY <2>1, <2>2
    <2>7. ~Splitting /\ Splitting' /\ Fresh'
      BY <1>1, <1>2, <2>1, <2>4, <2>5, <2>6 DEF Splitting, Fresh
    <2>. HIDE DEF L
    <2>8. Starts'
      <3>. SUFFICES ASSUME NEW j \in 1..(L + 1)
                    PROVE  /\ given'[j].first <= index + 1
                           /\ given'[j].first <= index => prd[given'[j].first].addr = given'[j].addr
        BY <1>2, <2>6 DEF Starts
      <3>1. CASE j = L + 1
        BY <3>1, <2>2, <2>5, <2>6
      <3>2. CASE j # L + 1
        <4>1. j \in 1..L
          BY <3>2, <2>2
        <4>. QED
          BY <4>1, <1>1, <2>6 DEF Chain, Starts, L
      <3>. QED
        BY <3>1, <3>2
    <2>9. Ends'
      <3>. SUFFICES ASSUME NEW j \in 1..L
                    PROVE  /\ given'[j].first <= index
                           /\ given'[j + 1].first > 1
                           /\ After(given'[j + 1].first - 1) = given'[j].addr + given'[j].len
        BY <1>2, <2>2, <2>6 DEF Ends, Goal, After
      <3>1. CASE j = L
        <4>1. given # << >>
          BY <3>1, <2>2 DEF L
        <4>2. given[L].first <= index /\ After(index) = Goal(L)
          BY <4>1, <1>1, <2>7 DEF Chain, Position, L
        <4>3. given'[j + 1].first = index + 1 /\ given'[j] = given[L]
          BY <3>1, <2>2, <2>5, <2>6
        <4>4. index + 1 > 1 /\ (index + 1) - 1 = index
          BY <4>1, <4>2, <2>2
        <4>. QED
          BY <4>2, <4>3, <4>4 DEF Goal
      <3>2. CASE j # L
        <4>1. j \in 1..(L - 1) /\ j + 1 \in 1..L
          BY <3>2, <2>2
        <4>2. given'[j] = given[j] /\ given'[j + 1] = given[j + 1]
          BY <4>1, <2>6
        <4>. QED
          BY <4>1, <4>2, <1>1 DEF Chain, Ends, Goal, L
      <3>. QED
        BY <3>1, <3>2
    <2>10. Joins'
      <3>. SUFFICES ASSUME NEW i \in 2..index, \A j \in 1..(L + 1) : given'[j].first # i
                    PROVE  prd[i].addr = After(i - 1)
        BY <1>2, <2>6 DEF Joins, After
      <3>1. \A j \in 1..L : given[j].first # i
        <4>. TAKE j \in 1..L
        <4>1. j \in 1..(L + 1) /\ given'[j] = given[j]
          BY <2>2, <2>6
        <4>. QED
          BY <4>1
      <3>. QED
        BY <3>1, <1>1 DEF Chain, Joins, L
    <2>11. Flags'
      <3>. SUFFICES ASSUME NEW i \in 1..index PROVE ~prd[i].last
        BY <1>2 DEF Flags
      <3>1. bytes # 0
        BY <1>1, <2>2
      <3>. QED
        BY <3>1, <1>1 DEF Chain, Flags
    <2>12. Position'
      BY <2>1, <2>5, <2>6, <2>7 DEF Position, Goal
    <2>13. Balance' /\ Scatter'
      <3>1. moved + bytes = size
        BY <1>1, <2>2 DEF Chain, Balance
      <3>2. Block * index <= 2 * Block * L + moved
        BY <1>1, <2>2, <2>7 DEF Chain, Scatter, L, Block
      <3>3. moved + (bytes - t) + t = size
        BY <3>1, <2>2, <2>4
      <3>4. Block * index + 2 * Block <= 2 * Block * (L + 1) + moved
        BY <3>2, <2>2 DEF Block
      <3>. QED
        BY <3>3, <3>4, <1>2, <2>1, <2>6, <2>7 DEF Balance, Scatter
    <2>. QED
      BY <1>4, <2>8, <2>9, <2>10, <2>11, <2>12, <2>13
      DEF ChainInv, Chain, ChainIsTransfer, ExhaustedOnlyIfScattered
  <1>. QED
    BY <1>3, <1>4

\* While a part of the segment is left no entry is flagged last, and the new
\* one follows what there is.
LEMMA EmitFacts ==
    ASSUME BlockInv, Chain, Splitting, index < MaxDesc, NEW n \in Nat, 0 < n, n <= Block,
           NEW l \in BOOLEAN, Emit(n, l), given' = given
    PROVE  /\ Starts' /\ Ends' /\ Joins'
           /\ index' = index + 1 /\ moved' = moved + n
           /\ After(index)' = ptr + n
           /\ prd'[index + 1].last = l
           /\ \A i \in 1..index : ~prd'[i].last
           /\ given # << >> /\ given[Len(given)].first <= index + 1
           /\ end = Goal(Len(given))
           /\ Fresh \/ (given[Len(given)].first <= index /\ ptr = next - Block)
  <1>1. TypeOK /\ Starts /\ Ends /\ Joins /\ Position /\ Flags
    BY DEF BlockInv, Chain
  <1>2. Starts' /\ Ends' /\ Joins'
    BY <1>1, EmitJoins
  <1>3. /\ index' = index + 1 /\ moved' = moved + n
        /\ prd'[index + 1].addr = ptr /\ prd'[index + 1].last = l
        /\ EngineLength(prd'[index + 1]) = n
        /\ \A i \in 1..index : prd'[i] = prd[i]
    BY <1>1, EmitEffect
  <1>4. \A i \in 1..index : ~prd[i].last
    BY <1>1 DEF Flags
  <1>5. /\ given # << >> /\ end = Goal(Len(given))
        /\ Fresh \/ (given[Len(given)].first <= index /\ ptr = next - Block)
    BY <1>1 DEF Position
  <1>6. given[Len(given)].first <= index + 1
    BY <1>1, <1>5, GivenType DEF Starts
  <1>. QED
    BY <1>2, <1>3, <1>4, <1>5, <1>6 DEF After

\* Writing the part of a segment before a boundary.
LEMMA ChainSplit ==
    ASSUME BlockInv, ChainInv, SplitAtBoundary
    PROVE  ChainInv'
  <1>. DEFINE n == next - ptr
              L == Len(given)
  <1>1. /\ Splitting /\ end > next /\ index < MaxDesc /\ Emit(n, FALSE)
        /\ ptr' = next /\ next' = next + Block /\ count' = count - n
        /\ UNCHANGED <<pc, bytes, end, result, size, given>>
    BY Zenon DEF SplitAtBoundary, Crosses, Splitting
  <1>2. TypeOK /\ Enclosed /\ Chain /\ pc = "split"
    BY <1>1 DEF BlockInv, ChainInv, Splitting
  <1>3. /\ ptr \in Nat /\ next \in Nat /\ count \in Nat /\ end \in Nat /\ bytes \in Nat
        /\ moved \in Nat /\ size \in Nat /\ index \in Nat /\ L \in Nat
        /\ ptr + count = end /\ next - Block <= ptr /\ ptr < next
    BY <1>1, <1>2, GivenType DEF TypeOK, Enclosed, Splitting
  <1>4. n \in Nat /\ 0 < n /\ n <= Block /\ count - n \in Nat /\ count - n > 0 /\ ptr + n = next
    BY <1>1, <1>3 DEF Block
  <1>5. ptr = next - Block => n = Block
    BY <1>3 DEF Block
  <1>. HIDE DEF n
  <1>6. /\ Starts' /\ Ends' /\ Joins'
        /\ index' = index + 1 /\ moved' = moved + n
        /\ After(index)' = ptr + n
        /\ prd'[index + 1].last = FALSE
        /\ \A i \in 1..index : ~prd'[i].last
        /\ given # << >> /\ given[L].first <= index + 1
        /\ end = Goal(L)
        /\ Fresh \/ (given[L].first <= index /\ ptr = next - Block)
    BY Zenon, <1>1, <1>2, <1>4, EmitFacts
  <1>7. Splitting'
    BY <1>1, <1>2, <1>4 DEF Splitting
  <1>8. given[L].first \in Nat
    BY <1>2, <1>6, GivenType
  <1>. HIDE DEF L
  <1>9. ~Fresh'
    BY <1>1, <1>3, <1>6, <1>8 DEF Fresh, L
  <1>10. Flags'
    <2>. SUFFICES ASSUME NEW i \in 1..(index + 1) PROVE ~prd'[i].last
      BY <1>6 DEF Flags
    <2>1. CASE i = index + 1
      BY <2>1, <1>6
    <2>2. CASE i # index + 1
      BY <2>2, <1>3, <1>6
    <2>. QED
      BY <2>1, <2>2
  <1>11. Position'
    <2>1. next = (next + Block) - Block
      BY <1>3 DEF Block
    <2>. QED
      BY <2>1, <1>1, <1>4, <1>6, <1>7 DEF Position, Goal, L
  <1>12. Balance'
    <2>1. moved + bytes + count = size
      BY <1>2 DEF Chain, Balance
    <2>2. (moved + n) + bytes + (count - n) = size
      BY <2>1, <1>3, <1>4
    <2>. QED
      BY <2>2, <1>1, <1>2, <1>6 DEF Balance
  <1>13. Scatter'
    <2>1. Block * index + (IF Fresh THEN 2 * Block ELSE Block) <= 2 * Block * L + moved
      BY <1>1, <1>2 DEF Chain, Scatter, L
    <2>2. Block * (index + 1) + Block <= 2 * Block * L + (moved + n)
      <3>1. CASE Fresh
        BY <3>1, <2>1, <1>3, <1>4 DEF Block
      <3>2. CASE ~Fresh
        BY <3>2, <2>1, <1>3, <1>4, <1>5, <1>6 DEF Block
      <3>. QED
        BY <3>1, <3>2
    <2>. QED
      BY <2>2, <1>1, <1>6, <1>7, <1>9 DEF Scatter, L
  <1>. QED
    BY <1>1, <1>2, <1>6, <1>10, <1>11, <1>12, <1>13
    DEF ChainInv, Chain, ChainIsTransfer, ExhaustedOnlyIfScattered

\* Writing the rest of a segment, flagged last if nothing follows.
LEMMA ChainRest ==
    ASSUME BlockInv, ChainInv, EmitRest
    PROVE  ChainInv'
  <1>. DEFINE L == Len(given)
  <1>1. /\ Splitting /\ ~(end > next) /\ index < MaxDesc /\ Emit(count, bytes = 0)
        /\ count' = 0 /\ UNCHANGED <<pc, bytes, ptr, end, next, result, size, given>>
    BY DEF EmitRest, Crosses, Splitting
  <1>2. TypeOK /\ Enclosed /\ Chain /\ pc = "split"
    BY <1>1 DEF BlockInv, ChainInv, Splitting
  <1>3. /\ ptr \in Nat /\ next \in Nat /\ count \in Nat /\ end \in Nat /\ bytes \in Nat
        /\ moved \in Nat /\ size \in Nat /\ index \in Nat /\ L \in Nat
        /\ ptr + count = end /\ next - Block <= ptr /\ ptr < next
    BY <1>1, <1>2, GivenType DEF TypeOK, Enclosed, Splitting
  <1>4. 0 < count /\ count <= Block
    BY <1>1, <1>3 DEF Block, Splitting
  <1>5. /\ Starts' /\ Ends' /\ Joins'
        /\ index' = index + 1 /\ moved' = moved + count
        /\ After(index)' = ptr + count
        /\ prd'[index + 1].last = (bytes = 0)
        /\ \A i \in 1..index : ~prd'[i].last
        /\ given # << >> /\ given[L].first <= index + 1
        /\ end = Goal(L)
    BY Zenon, <1>1, <1>2, <1>3, <1>4, EmitFacts
  <1>6. ~Splitting'
    BY <1>1 DEF Splitting
  <1>. HIDE DEF L
  <1>7. Flags'
    <2>. SUFFICES ASSUME NEW i \in 1..(index + 1), prd'[i].last PROVE i = index + 1 /\ bytes = 0
      BY <1>1, <1>5, <1>6 DEF Flags
    <2>1. i = index + 1
      BY <1>3, <1>5
    <2>. QED
      BY Zenon, <2>1, <1>5
  <1>8. Position'
    BY Zenon, <1>1, <1>3, <1>5, <1>6 DEF Position, Goal, L
  <1>9. Balance'
    <2>1. moved + bytes + count = size
      BY <1>2 DEF Chain, Balance
    <2>2. (moved + count) + bytes + 0 = size
      BY <2>1, <1>3
    <2>. QED
      BY <2>2, <1>1, <1>2, <1>5 DEF Balance
  <1>10. Scatter'
    <2>1. Block * index + (IF Fresh THEN 2 * Block ELSE Block) <= 2 * Block * L + moved
      BY <1>1, <1>2 DEF Chain, Scatter, L
    <2>2. Block * (index + 1) + 0 <= 2 * Block * L + (moved + count)
      <3>1. CASE Fresh
        BY <3>1, <2>1, <1>3 DEF Block
      <3>2. CASE ~Fresh
        BY <3>2, <2>1, <1>3 DEF Block
      <3>. QED
        BY <3>1, <3>2
    <2>. QED
      BY <2>2, <1>1, <1>5, <1>6 DEF Scatter, L
  <1>. QED
    BY <1>1, <1>2, <1>5, <1>7, <1>8, <1>9, <1>10
    DEF ChainInv, Chain, ChainIsTransfer, ExhaustedOnlyIfScattered

\* When no byte is left the chain is the transfer.
LEMMA ChainFinish ==
    ASSUME BlockInv, ChainInv, Finish
    PROVE  ChainInv'
  <1>1. /\ pc = "segments" /\ bytes = 0 /\ pc' = "idle"
        /\ result' = IF index = 0 THEN "empty" ELSE "ok"
        /\ UNCHANGED <<bytes, prd, index, size, moved, given>>
    BY DEF Finish, Return, loopVars
  <1>2. TypeOK /\ Chain
    BY <1>1 DEF BlockInv, ChainInv
  <1>3. ExhaustedOnlyIfScattered'
    BY <1>1 DEF ExhaustedOnlyIfScattered
  <1>4. ASSUME result' = "ok" PROVE StopsAtEnd /\ FollowsBuffer /\ moved = size
    <2>0. Len(given) \in Nat
      BY <1>2, GivenType
    <2>1. /\ index \in Nat /\ index # 0
          /\ Len(given) \in Nat /\ DOMAIN given = 1..Len(given)
          /\ \A j \in 1..Len(given) : given[j].first \in Nat \ {0}
      BY <1>1, <1>2, <1>4, GivenType DEF TypeOK
    <2>2. /\ given # << >>
          /\ given[Len(given)].first <= index
          /\ After(index) = Goal(Len(given))
          /\ prd[index].last
      BY <1>1, <1>2, <2>1 DEF Chain, Position, Splitting
    <2>3. StopsAtEnd
      <3>1. \A i \in 1..index : prd[i].last => i = index
        BY <1>2 DEF Chain, Flags
      <3>. QED
        BY <3>1, <2>1, <2>2 DEF StopsAtEnd
    <2>4. \A j \in 1..Len(given) : prd[given[j].first].addr = given[j].addr
      <3>. TAKE j \in 1..Len(given)
      <3>1. given[j].first <= index
        <4>1. CASE j = Len(given)
          BY <4>1, <2>2
        <4>2. CASE j # Len(given)
          <5>1. j \in 1..(Len(given) - 1)
            BY <4>2, <2>0
          <5>. QED
            BY <5>1, <1>2 DEF Chain, Ends
        <4>. QED
          BY <4>1, <4>2
      <3>. QED
        BY <3>1, <1>2 DEF Chain, Starts
    <2>5. \A i \in 2..index :
            (\A j \in DOMAIN given : given[j].first # i) => prd[i].addr = After(i - 1)
      BY <1>2, <2>1 DEF Chain, Joins
    <2>6. \A j \in 1..Len(given) :
            After(IF j = Len(given) THEN index ELSE given[j + 1].first - 1) = Goal(j)
      <3>. TAKE j \in 1..Len(given)
      <3>1. CASE j = Len(given)
        BY <3>1, <2>2
      <3>2. CASE j # Len(given)
        <4>1. j \in 1..(Len(given) - 1)
          BY <3>2, <2>0
        <4>2. After(given[j + 1].first - 1) = Goal(j)
          BY <4>1, <1>2 DEF Chain, Ends
        <4>. QED
          BY Zenon, <3>2, <4>2
      <3>. QED
        BY <3>1, <3>2
    <2>7. FollowsBuffer
      BY Zenon, <2>1, <2>4, <2>5, <2>6 DEF FollowsBuffer, Goal
    <2>8. moved = size
      <3>1. moved \in Nat /\ size \in Nat
        BY <1>2 DEF TypeOK
      <3>2. moved + bytes + 0 = size
        BY <1>1, <1>2 DEF Chain, Balance
      <3>. QED
        BY <3>1, <3>2, <1>1
    <2>. QED
      BY <2>3, <2>7, <2>8
  <1>5. ChainIsTransfer'
    BY <1>1, <1>4 DEF ChainIsTransfer, StopsAtEnd, FollowsBuffer, After
  <1>. QED
    BY <1>1, <1>3, <1>5 DEF ChainInv

\* No step leaves ChainInv.
LEMMA ChainStep == BlockInv /\ ChainInv /\ [Next]_vars => ChainInv'
  <1>. SUFFICES ASSUME BlockInv, ChainInv, [Next]_vars PROVE ChainInv'
    OBVIOUS
  <1>1. CASE Exhausted
    <2>1. /\ Splitting /\ index >= MaxDesc /\ pc # "idle" /\ pc' = "idle" /\ result' = "exhausted"
          /\ UNCHANGED <<moved, given>>
      BY <1>1 DEF Exhausted, Return, Splitting
    <2>2. TypeOK /\ Scatter
      BY <2>1 DEF BlockInv, ChainInv, Chain
    <2>3. /\ index = MaxDesc /\ MaxDesc \in Nat /\ moved \in Nat /\ Len(given) \in Nat
      BY <2>1, <2>2, GivenType, ChainAssumption DEF TypeOK
    <2>4. Block * index + (IF Fresh THEN 2 * Block ELSE Block) <= 2 * Block * Len(given) + moved
      BY <2>1, <2>2 DEF Scatter
    <2>5. 2 * Block * Len(given) + moved >= Block * (MaxDesc + 1)
      <3>1. CASE Fresh
        BY <3>1, <2>3, <2>4 DEF Block
      <3>2. CASE ~Fresh
        BY <3>2, <2>3, <2>4 DEF Block
      <3>. QED
        BY <3>1, <3>2
    <2>. QED
      BY <2>1, <2>5 DEF ChainInv, ChainIsTransfer, ExhaustedOnlyIfScattered
  <1>2. CASE SegmentDone
    <2>1. /\ pc = "split" /\ count = 0 /\ pc' = "segments"
          /\ UNCHANGED <<loopVars, prd, index, result, size, moved, given>>
      BY <1>2 DEF SegmentDone
    <2>2. Chain /\ ~Splitting /\ ~Splitting'
      BY <2>1 DEF ChainInv, Splitting
    <2>3. Starts' /\ Ends' /\ Joins'
      BY <2>1, <2>2 DEF Chain, Starts, Ends, Joins, Goal, After
    <2>4. Flags' /\ Position'
      BY <2>1, <2>2 DEF Chain, Flags, Position, Goal, After, Fresh, loopVars
    <2>5. Balance' /\ Scatter'
      BY <2>1, <2>2 DEF Chain, Balance, Scatter, Fresh, loopVars
    <2>. QED
      BY <2>1, <2>3, <2>4, <2>5 DEF ChainInv, Chain, ChainIsTransfer, ExhaustedOnlyIfScattered
  <1>3. CASE UNCHANGED vars
    <2>0. pc' = pc
      BY <1>3 DEF vars
    <2>1. Chain => Chain'
      BY <1>3 DEF vars, loopVars, Chain, Starts, Ends, Joins, Flags, Position, Balance, Scatter,
                  Splitting, Fresh, Goal, After
    <2>2. ChainIsTransfer'
      BY <1>3 DEF ChainInv, vars, ChainIsTransfer, StopsAtEnd, FollowsBuffer, After
    <2>3. ExhaustedOnlyIfScattered'
      BY <1>3 DEF ChainInv, vars, ExhaustedOnlyIfScattered
    <2>. QED
      BY <2>0, <2>1, <2>2, <2>3 DEF ChainInv
  <1>. QED
    BY <1>1, <1>2, <1>3, ChainBegin, ChainNextSegment, ChainSplit, ChainRest, ChainFinish DEF Next

\* No chain has been returned at the start.
LEMMA ChainInit == Init => ChainInv
  BY DEF Init, ChainInv, ChainIsTransfer, ExhaustedOnlyIfScattered

\* A chain that createChannelCommands returns with success moves exactly the
\* bytes of the command through its segments in order, whatever their number,
\* their sizes and the 64K boundaries between them, and ends with its only
\* descriptor flagged last.
THEOREM ChainsAreTransfers == Spec => []ChainIsTransfer
  <1>1. ChainInv => ChainIsTransfer
    BY DEF ChainInv
  <1>. QED
    BY <1>1, BlockInit, BlockStep, ChainInit, ChainStep, PTL DEF Spec

\* The table runs out only when two entries for each segment and one for every
\* 64K do not fit, for a table of every size.
THEOREM TableSuffices == Spec => []ExhaustedOnlyIfScattered
  <1>1. ChainInv => ExhaustedOnlyIfScattered
    BY DEF ChainInv
  <1>. QED
    BY <1>1, BlockInit, BlockStep, ChainInit, ChainStep, PTL DEF Spec
=============================================================================
