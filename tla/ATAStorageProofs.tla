-------------------------- MODULE ATAStorageProofs --------------------------
(***************************************************************************)
(* The disk driver implements the block device, for any number of callers, *)
(* any drive and any requests.                                             *)
(***************************************************************************)
EXTENDS ATAStorage, TLAPS

-----------------------------------------------------------------------------
(* The inductive invariant                                                 *)

Holding == {"loop", "execute", "unlock", "flushing"}
InSectors == {"loop", "execute", "unlock"}

\* A thread is in a call exactly while it has a request, past the range check
\* only with one that fits, and in a critical section exactly while it holds
\* the lock.
ThreadAt(t) ==
    /\ request[t] = None <=> pc[t] = "idle"
    /\ pc[t] # "idle" => up
    /\ pc[t] \in Holding <=> ioLock = t
    /\ pc[t] \in {"sync", "flush", "flushing"} => request[t].op = "sync"
    /\ pc[t] \in {"check", "lock"} \cup InSectors => request[t].op \in {"read", "write"}
    /\ pc[t] \in {"lock"} \cup InSectors =>
        /\ request[t].nblks > 0
        /\ request[t].block + request[t].nblks <= maxBlock + 1

ThreadInv == \A t \in Callers : ThreadAt(t)

\* The drive that was identified has all the blocks up to maxBlock.
DriveInv == up => 0..maxBlock \subseteq Blocks

\* With write-through nothing is only cached.
ThroughInv ==
    setup.writethrough =>
        /\ stable = disk
        /\ ioLock # None => before.stable = before.disk

\* What the lock holder has done since it took the lock.
Over(m, r, W) == [b \in Blocks |-> IF b \in W THEN <<r.tag, b - r.block>> ELSE m[b]]
Done(t) == {b \in Blocks : request[t].block <= b /\ b < request[t].block + frame[t].transferred}
Undone(t) == {b \in Blocks : /\ request[t].block + frame[t].transferred <= b
                           /\ b < request[t].block + frame[t].transferred + MaxTransfer
                           /\ b < request[t].block + request[t].nblks}

Untouched == disk = before.disk /\ stable = before.stable

\* disk is what it was, with the blocks W of the request written.
Wrote(t, W) ==
    /\ disk = Over(before.disk, request[t], W)
    /\ setup.writethrough \/ stable = before.stable

Counts(t) ==
    /\ frame[t].remaining + frame[t].transferred = request[t].nblks
    /\ frame[t].currentBlock = request[t].block + frame[t].transferred

Prefix(t) ==
    frame[t].buffer = [i \in 1..frame[t].transferred |-> before.disk[request[t].block + i - 1]]

Prepared(t) ==
    frame[t].command = [lba |-> frame[t].currentBlock,
                        count |-> SectorCount(Chunk(frame[t].remaining)),
                        blocks |-> Chunk(frame[t].remaining),
                        position |-> frame[t].transferred]

HolderAt(t) ==
    /\ pc[t] = "flushing" => Untouched
    /\ pc[t] \in InSectors /\ request[t].op = "read" => Untouched /\ Prefix(t)
    /\ pc[t] \in InSectors /\ request[t].op = "write" => frame[t].buffer = << >>
    /\ pc[t] \in {"loop", "execute"} /\ request[t].op = "write" => Wrote(t, Done(t))
    /\ pc[t] = "unlock" /\ request[t].op = "write" =>
        \E torn \in SUBSET Undone(t) : Wrote(t, Done(t) \cup torn)
    /\ pc[t] \in InSectors => Counts(t)
    /\ pc[t] \in {"loop", "execute"} => frame[t].status = "ok"
    /\ pc[t] = "execute" => frame[t].remaining > 0 /\ Prepared(t)
    /\ pc[t] = "unlock" => frame[t].remaining > 0 /\ frame[t].status = "error"

HolderInv == \A t \in Callers : HolderAt(t)

\* While the lock is held, before is what the drive held when it was taken.
LockInv == ioLock # None => before \in [disk : Contents, stable : Contents]

Inv == TypeOK /\ LockInv /\ ThreadInv /\ DriveInv /\ ThroughInv /\ HolderInv

-----------------------------------------------------------------------------
(* The invariant holds                                                     *)

\* A request is a transfer with numbers for its range, or a synchronize.
LEMMA RequestType ==
    ASSUME NEW r \in Requests
    PROVE  /\ r # None
           /\ r.op \in {"read", "write", "sync"}
           /\ r.op # "sync" => /\ r.block \in Nat
                               /\ r.nblks \in Nat
                               /\ r.tag \in Tags
  BY StorageAssumption DEF Tags

\* Block numbers are numbers.
LEMMA BlocksNat == Blocks \subseteq Nat /\ MaxTransfer \in Nat \ {0}
  BY StorageAssumption

\* Init establishes the invariant.
LEMMA InitInv == Init => Inv
<1> SUFFICES ASSUME Init PROVE Inv OBVIOUS
<1> USE DEF Init
<1>1. disk \in Contents /\ stable \in Contents
  BY DEF Contents, Values
<1>2. NoFrame \in Frame
  BY DEF NoFrame, FrameOf, Frame, Statuses
<1>3. TypeOK
  BY <1>1, <1>2, Zenon DEF TypeOK, Label, NoReply
<1>4. ThreadInv
  BY StorageAssumption, Zenon DEF ThreadInv, ThreadAt, Holding, InSectors
<1>5. HolderInv
  BY Zenon DEF HolderInv, HolderAt, InSectors
<1> QED BY <1>3, <1>4, <1>5 DEF Inv, LockInv, DriveInv, ThroughInv

\* A thread of which nothing changes, over a drive that does not either.
LEMMA HolderKept ==
    ASSUME NEW u, HolderAt(u),
           pc'[u] = pc[u], request'[u] = request[u], frame'[u] = frame[u],
           UNCHANGED <<drive, before, setup, supports48>>
    PROVE  HolderAt(u)'
<1>1. Untouched' <=> Untouched
  BY DEF Untouched, drive
<1>2. Counts(u)' <=> Counts(u)
  BY DEF Counts
<1>3. Prefix(u)' <=> Prefix(u)
  BY DEF Prefix
<1>4. Prepared(u)' <=> Prepared(u)
  BY DEF Prepared, SectorCount, Chunk
<1>5. Done(u)' = Done(u) /\ Undone(u)' = Undone(u)
  BY DEF Done, Undone
<1>6. ASSUME NEW W PROVE Wrote(u, W)' <=> Wrote(u, W)
  BY DEF Wrote, Over, drive
<1> QED BY <1>1, <1>2, <1>3, <1>4, <1>5, <1>6, Zenon DEF HolderAt

\* A thread outside the critical sections has nothing to keep.
LEMMA HolderFree ==
    ASSUME NEW u, pc[u] \notin Holding
    PROVE  HolderAt(u)
  BY DEF HolderAt, Holding, InSectors

\* start() finds a drive whose blocks are all there.
LEMMA StartInv == Inv /\ Start => Inv'
<1> SUFFICES ASSUME Inv, Start PROVE Inv' OBVIOUS
<1> USE DEF Inv, Start, Silent, drive
<1>1. PICK d \in Identities : /\ Sectors(d) # 0
                              /\ maxBlock' = Sectors(d) - 1
                              /\ supports48' = d.has48
  OBVIOUS
<1>2. /\ d.has48 \in BOOLEAN /\ d.lba48 \in Nat /\ d.lba28 \in Nat
      /\ 0..(d.lba48 - 1) \subseteq Blocks
      /\ 0..(d.lba28 - 1) \subseteq Blocks
  <2>1. /\ d \in [has48 : BOOLEAN, lba48 : Nat, lba28 : Nat]
        /\ {0..(d.lba48 - 1), 0..(d.lba28 - 1)} \subseteq SUBSET Blocks
    BY StorageAssumption
  <2> QED BY <2>1
<1>3. Sectors(d) \in Nat \ {0} /\ 0..(Sectors(d) - 1) \subseteq Blocks
  BY <1>1, <1>2 DEF Sectors
<1>4. TypeOK'
  <2>1. maxBlock' \in Nat /\ supports48' \in BOOLEAN
    BY <1>1, <1>2, <1>3
  <2>2. reply'.status \in Statuses \cup {"none"}
    BY DEF NoReply
  <2> QED BY <2>1, <2>2 DEF TypeOK
<1>5. DriveInv'
  BY <1>1, <1>3 DEF DriveInv
<1>6. ASSUME NEW u \in Callers PROVE pc[u] = "idle" /\ ThreadAt(u)'
  BY DEF ThreadInv, ThreadAt, Holding, InSectors, TypeOK
<1>7. ThreadInv'
  BY <1>6 DEF ThreadInv
<1>8. HolderInv'
  BY <1>6 DEF HolderInv, HolderAt, InSectors
<1> QED BY <1>4, <1>5, <1>7, <1>8 DEF LockInv, ThroughInv

\* The steps of a thread that neither has the lock nor takes it.
LEMMA OutsideInv ==
    ASSUME Inv, TypeOK', NEW t \in Callers, ThreadAt(t)',
           pc[t] \notin Holding, pc'[t] \notin Holding,
           \A u \in Callers \ {t} : pc'[u] = pc[u] /\ request'[u] = request[u],
           UNCHANGED <<driver, ioLock, frame, drive, before>>
    PROVE  Inv'
<1> USE DEF Inv, driver, drive
<1>1. ASSUME NEW u \in Callers PROVE ThreadAt(u)' /\ HolderAt(u)'
  <2>1. CASE u = t
    BY <2>1, HolderFree DEF HolderAt, Holding, InSectors
  <2>2. CASE u # t
    <3>1. pc'[u] = pc[u] /\ request'[u] = request[u] /\ frame'[u] = frame[u]
      BY <2>2
    <3>2. ThreadAt(u)'
      BY <3>1 DEF ThreadInv, ThreadAt
    <3> QED BY <3>1, <3>2, HolderKept DEF HolderInv
  <2> QED BY <2>1, <2>2
<1> QED BY <1>1 DEF ThreadInv, HolderInv, LockInv, ThroughInv, DriveInv

\* A call starts a thread outside the critical sections.
LEMMA CallInv == ASSUME Inv, NEW t \in Callers, Call(t) PROVE Inv'
<1> USE DEF Inv, Call, Goto, Silent
<1>1. PICK r \in Requests :
        /\ request' = [request EXCEPT ![t] = r]
        /\ pc' = [pc EXCEPT ![t] = IF r.op = "sync" THEN "sync" ELSE "check"]
  OBVIOUS
<1>2. pc \in [Callers -> Label] /\ request \in [Callers -> Requests \cup {None}]
  BY DEF TypeOK
<1>3. TypeOK'
  <2>1. pc' \in [Callers -> Label] /\ request' \in [Callers -> Requests \cup {None}]
    BY <1>1, <1>2 DEF Label
  <2>2. reply'.status \in Statuses \cup {"none"}
    BY DEF NoReply
  <2> QED BY <2>1, <2>2 DEF TypeOK, driver, drive
<1>4. r # None /\ r.op \in {"read", "write", "sync"}
  BY RequestType
<1>5. request'[t] = r /\ pc'[t] = IF r.op = "sync" THEN "sync" ELSE "check"
  BY <1>1, <1>2
<1>6. ThreadAt(t)'
  BY <1>4, <1>5 DEF ThreadInv, ThreadAt, driver, Holding, InSectors
<1>7. pc[t] \notin Holding /\ pc'[t] \notin Holding
  BY <1>5 DEF Holding
<1>8. \A u \in Callers \ {t} : pc'[u] = pc[u] /\ request'[u] = request[u]
  BY <1>1, <1>2
<1> QED BY <1>3, <1>6, <1>7, <1>8, OutsideInv

\* What Return does to a thread.
LEMMA ReturnFacts ==
    ASSUME TypeOK, NEW t \in Callers, NEW s \in Statuses, NEW a, NEW d, Return(t, s, a, d)
    PROVE  /\ pc' \in [Callers -> Label]
           /\ request' \in [Callers -> Requests \cup {None}]
           /\ reply'.status \in Statuses \cup {"none"}
           /\ pc'[t] = "idle" /\ request'[t] = None
           /\ \A u \in Callers \ {t} : pc'[u] = pc[u] /\ request'[u] = request[u]
  BY DEF TypeOK, Return, Goto, Label

\* Past the range check of doAsyncReadWrite a request fits the drive.
LEMMA CheckInv == ASSUME Inv, NEW t \in Callers, Check(t) PROVE Inv'
<1> USE DEF Inv, Check
<1>1. pc \in [Callers -> Label] /\ request \in [Callers -> Requests \cup {None}]
  BY DEF TypeOK
<1>2. /\ request[t] \in Requests /\ request[t] # None /\ request[t].op \in {"read", "write"}
      /\ up
      /\ ioLock # t
  BY <1>1 DEF ThreadInv, ThreadAt, Holding
<1>3. CASE Return(t, "badargument", 0, << >>)
  <2>1. "badargument" \in Statuses
    BY DEF Statuses
  <2>2. TypeOK'
    BY <1>3, <2>1, ReturnFacts DEF TypeOK, driver, drive
  <2>3. ThreadAt(t)'
    BY <1>2, <1>3, <2>1, ReturnFacts DEF ThreadAt, Holding, InSectors, driver
  <2> QED BY <1>3, <2>1, <2>2, <2>3, ReturnFacts, OutsideInv DEF Holding
<1>4. CASE ~OutOfRange(request[t]) /\ Goto(t, "lock") /\ UNCHANGED request /\ Silent
  <2>1. pc' \in [Callers -> Label] /\ pc'[t] = "lock" /\ \A u \in Callers \ {t} : pc'[u] = pc[u]
    BY <1>1, <1>4 DEF Goto, Label
  <2>2. TypeOK'
    BY <1>4, <2>1 DEF TypeOK, driver, drive, Silent, NoReply
  <2>3. /\ request[t].nblks > 0
        /\ request[t].block + request[t].nblks <= maxBlock + 1
    BY <1>2, <1>4, RequestType DEF OutOfRange, TypeOK
  <2>4. ThreadAt(t)'
    BY <1>2, <1>4, <2>1, <2>3 DEF ThreadAt, Holding, InSectors, driver
  <2> QED BY <1>4, <2>1, <2>2, <2>4, OutsideInv DEF Holding
<1> QED BY <1>3, <1>4

\* doSynchronize returns, or goes on to the flush, without the lock.
LEMMA SyncInv == ASSUME Inv, NEW t \in Callers, Sync(t) PROVE Inv'
<1> USE DEF Inv, Sync
<1>1. pc \in [Callers -> Label] /\ request \in [Callers -> Requests \cup {None}]
  BY DEF TypeOK
<1>2. request[t] # None /\ request[t].op = "sync" /\ up /\ ioLock # t
  BY DEF ThreadInv, ThreadAt, Holding
<1>3. ASSUME NEW s \in Statuses, Return(t, s, 0, << >>) PROVE Inv'
  <2>1. TypeOK'
    BY <1>3, ReturnFacts DEF TypeOK, driver, drive
  <2>2. ThreadAt(t)'
    BY <1>2, <1>3, ReturnFacts DEF ThreadAt, Holding, InSectors, driver
  <2> QED BY <1>3, <2>1, <2>2, ReturnFacts, OutsideInv DEF Holding
<1>4. CASE Goto(t, "flush") /\ UNCHANGED request /\ Silent
  <2>1. pc' \in [Callers -> Label] /\ pc'[t] = "flush" /\ \A u \in Callers \ {t} : pc'[u] = pc[u]
    BY <1>1, <1>4 DEF Goto, Label
  <2>2. TypeOK'
    BY <1>4, <2>1 DEF TypeOK, driver, drive, Silent, NoReply
  <2>3. ThreadAt(t)'
    BY <1>2, <1>4, <2>1 DEF ThreadAt, Holding, InSectors, driver
  <2> QED BY <1>4, <2>1, <2>2, <2>3, OutsideInv DEF Holding
<1> QED BY <1>3, <1>4 DEF Statuses

\* A flush for which no command is to be had returns without the lock.
LEMMA FlushFailsInv == ASSUME Inv, NEW t \in Callers, FlushFails(t) PROVE Inv'
<1> USE DEF Inv, FlushFails
<1>1. "error" \in Statuses
  BY DEF Statuses
<1>2. up /\ ioLock # t
  BY DEF ThreadInv, ThreadAt, Holding
<1>3. TypeOK'
  BY <1>1, ReturnFacts DEF TypeOK, driver, drive
<1>4. ThreadAt(t)'
  BY <1>1, <1>2, ReturnFacts DEF ThreadAt, Holding, InSectors, driver
<1> QED BY <1>1, <1>3, <1>4, ReturnFacts, OutsideInv DEF Holding

\* The steps of the thread that has the lock, takes it or gives it back.
LEMMA InsideInv ==
    ASSUME Inv, TypeOK', LockInv', ThroughInv', NEW t \in Callers, ThreadAt(t)', HolderAt(t)',
           ioLock \in {t, None}, ioLock' \in {t, None},
           \A u \in Callers \ {t} : pc'[u] = pc[u] /\ request'[u] = request[u],
           UNCHANGED driver
    PROVE  Inv'
<1> USE DEF Inv, driver
<1>1. ASSUME NEW u \in Callers, u # t PROVE ThreadAt(u)' /\ HolderAt(u)'
  <2>1. pc'[u] = pc[u] /\ request'[u] = request[u]
    BY <1>1
  <2>2. ioLock # u /\ ioLock' # u
    BY <1>1, StorageAssumption
  <2>3. pc[u] \notin Holding
    BY <2>2 DEF ThreadInv, ThreadAt
  <2>4. ThreadAt(u)'
    BY <2>1, <2>2, <2>3 DEF ThreadInv, ThreadAt
  <2>5. HolderAt(u)'
    BY <2>1, <2>3 DEF HolderAt, Holding, InSectors
  <2> QED BY <2>4, <2>5
<1> QED BY <1>1 DEF ThreadInv, HolderInv, DriveInv

\* executeSectors takes the lock with nothing done of the request.
LEMMA EnterSectorsInv == ASSUME Inv, NEW t \in Callers, EnterSectors(t) PROVE Inv'
<1> USE DEF Inv, EnterSectors, Lock, Silent
<1>1. /\ pc \in [Callers -> Label] /\ frame \in [Callers -> Frame]
      /\ request \in [Callers -> Requests \cup {None}]
      /\ disk \in Contents /\ stable \in Contents
  BY DEF TypeOK
<1>2. /\ request[t] \in Requests /\ request[t] # None /\ request[t].op \in {"read", "write"}
      /\ request[t].block \in Nat /\ request[t].nblks \in Nat
      /\ request[t].nblks > 0
      /\ request[t].block + request[t].nblks <= maxBlock + 1
      /\ up
  BY <1>1, RequestType DEF ThreadInv, ThreadAt
<1> DEFINE f == FrameOf(request[t].nblks, request[t].block)
<1>3. /\ f.remaining = request[t].nblks /\ f.currentBlock = request[t].block
      /\ f.transferred = 0 /\ f.status = "ok" /\ f.command = None /\ f.buffer = << >>
      /\ f \in Frame
  BY ONLY <1>2, SMTT(30) DEF FrameOf, Frame, Statuses
<1> HIDE DEF f
<1>4. /\ pc' \in [Callers -> Label] /\ pc'[t] = "loop"
      /\ \A u \in Callers \ {t} : pc'[u] = pc[u]
      /\ frame' \in [Callers -> Frame] /\ frame'[t] = f
      /\ request' = request
  BY <1>1, <1>3 DEF Goto, Label, f
<1>5. TypeOK'
  BY <1>1, <1>4 DEF TypeOK, driver, drive, NoReply
<1>6. LockInv' /\ ThroughInv'
  BY <1>1 DEF LockInv, ThroughInv, driver, drive
<1>7. ThreadAt(t)'
  BY <1>2, <1>4 DEF ThreadAt, Holding, InSectors, driver
<1>8. before'.disk = disk' /\ before'.stable = stable'
  BY DEF drive
<1>9. HolderAt(t)'
  <2>1. Untouched'
    BY <1>8 DEF Untouched
  <2>2. Counts(t)'
    BY ONLY <1>2, <1>3, <1>4 DEF Counts
  <2>3. Prefix(t)'
    BY ONLY <1>3, <1>4 DEF Prefix
  <2>4. Wrote(t, Done(t))'
    <3>1. Done(t)' = {}
      <4>1. frame'[t].transferred = 0 /\ request'[t].block \in Nat
        BY ONLY <1>2, <1>3, <1>4
      <4>2. \A b \in Nat : ~(request'[t].block <= b /\ b < request'[t].block + frame'[t].transferred)
        BY ONLY <4>1
      <4> QED BY ONLY <4>2, BlocksNat, Zenon DEF Done
    <3>2. disk' \in Contents
      BY <1>1 DEF drive
    <3> QED BY <1>8, <3>1, <3>2 DEF Wrote, Over, Contents
  <2> QED BY <1>3, <1>4, <2>1, <2>2, <2>3, <2>4 DEF HolderAt, InSectors
<1> QED BY <1>4, <1>5, <1>6, <1>7, <1>9, InsideInv

\* flushCache takes the lock and leaves the drive as it is.
LEMMA EnterFlushInv == ASSUME Inv, NEW t \in Callers, EnterFlush(t) PROVE Inv'
<1> USE DEF Inv, EnterFlush, Lock, Silent
<1>1. /\ pc \in [Callers -> Label]
      /\ disk \in Contents /\ stable \in Contents
  BY DEF TypeOK
<1>2. /\ pc' \in [Callers -> Label] /\ pc'[t] = "flushing"
      /\ \A u \in Callers \ {t} : pc'[u] = pc[u]
  BY <1>1 DEF Goto, Label
<1>3. TypeOK'
  BY <1>1, <1>2 DEF TypeOK, driver, drive, NoReply
<1>4. LockInv' /\ ThroughInv'
  BY <1>1 DEF LockInv, ThroughInv, driver, drive
<1>5. ThreadAt(t)'
  BY <1>2 DEF ThreadInv, ThreadAt, Holding, InSectors, driver
<1>6. HolderAt(t)'
  BY <1>2 DEF HolderAt, InSectors, Untouched, drive
<1> QED BY <1>2, <1>3, <1>4, <1>5, <1>6, InsideInv

\* What is known of a thread inside executeSectors.
LEMMA SectorFacts ==
    ASSUME Inv, NEW t \in Callers, pc[t] \in InSectors
    PROVE  /\ request[t] \in Requests /\ request[t] # None /\ request[t].op \in {"read", "write"}
           /\ request[t].block \in Nat /\ request[t].nblks \in Nat /\ request[t].nblks > 0
           /\ request[t].tag \in Tags
           /\ request[t].block + request[t].nblks <= maxBlock + 1
           /\ up
           /\ ioLock = t
           /\ ioLock # None
           /\ before \in [disk : Contents, stable : Contents]
           /\ frame[t] \in Frame
           /\ frame[t].remaining \in Nat /\ frame[t].transferred \in Nat
           /\ frame[t].currentBlock \in Nat
           /\ Counts(t)
<1> USE DEF Inv, TypeOK
<1>1. /\ request[t] \in Requests \cup {None} /\ frame[t] \in Frame /\ pc[t] # "idle"
  BY DEF InSectors
<1>2. ioLock = t /\ ioLock # None /\ request[t] # None /\ request[t].op \in {"read", "write"}
  BY <1>1, StorageAssumption DEF ThreadInv, ThreadAt, Holding, InSectors
<1>3. /\ frame[t].remaining \in Nat /\ frame[t].transferred \in Nat
      /\ frame[t].currentBlock \in Nat
  BY <1>1 DEF Frame
<1>4. up /\ request[t].nblks > 0 /\ request[t].block + request[t].nblks <= maxBlock + 1
  BY <1>1 DEF ThreadInv, ThreadAt
<1>5. Counts(t)
  BY DEF HolderInv, HolderAt
<1> QED BY <1>1, <1>2, <1>3, <1>4, <1>5, RequestType DEF LockInv

\* A chunk is not empty and not more than what remains.
LEMMA ChunkFacts ==
    ASSUME NEW n \in Nat, n > 0
    PROVE  Chunk(n) \in 1..MaxTransfer /\ Chunk(n) <= n
  BY StorageAssumption DEF Chunk

\* The command prepared is the one for the blocks that come next.
LEMMA PrepareInv == ASSUME Inv, NEW t \in Callers, Prepare(t) PROVE Inv'
<1> USE DEF Inv, Prepare, Silent
<1> DEFINE f == frame[t]
           c == [lba      |-> f.currentBlock,
                 count    |-> SectorCount(Chunk(f.remaining)),
                 blocks   |-> Chunk(f.remaining),
                 position |-> ChunkPosition(f)]
<1>1. pc \in [Callers -> Label] /\ frame \in [Callers -> Frame]
  BY DEF TypeOK
<1>2. pc[t] \in InSectors
  BY DEF InSectors
<1>3. Chunk(f.remaining) \in Nat
  BY <1>2, SectorFacts, ChunkFacts
<1>4. c \in Command
  BY <1>2, <1>3, SectorFacts DEF Command, SectorCount, ChunkPosition
<1>5. /\ frame' \in [Callers -> Frame]
      /\ frame'[t] = [frame[t] EXCEPT !.command = c]
  <2>1. frame' = [frame EXCEPT ![t] = [frame[t] EXCEPT !.command = c]]
    OBVIOUS
  <2>2. [frame[t] EXCEPT !.command = c] \in Frame
    BY <1>1, <1>4, Zenon DEF Frame
  <2> QED BY <1>1, <2>1, <2>2
<1>6. /\ frame'[t].remaining = f.remaining /\ frame'[t].transferred = f.transferred
      /\ frame'[t].currentBlock = f.currentBlock /\ frame'[t].status = f.status
      /\ frame'[t].buffer = f.buffer /\ frame'[t].command = c
  <2>1. f \in Frame
    BY <1>1
  <2> QED BY <1>5, <2>1 DEF Frame
<1>7. /\ pc' \in [Callers -> Label] /\ pc'[t] = "execute"
      /\ \A u \in Callers \ {t} : pc'[u] = pc[u]
  BY <1>1 DEF Goto, Label
<1> HIDE DEF f, c
<1>8. TypeOK'
  BY <1>5, <1>7 DEF TypeOK, driver, drive, NoReply
<1>9. LockInv' /\ ThroughInv'
  BY DEF LockInv, ThroughInv, driver, drive
<1>10. ThreadAt(t)'
  BY <1>2, <1>7, SectorFacts DEF ThreadAt, Holding, InSectors, driver
<1>11. HolderAt(t)'
  <2>1. HolderAt(t)
    BY DEF HolderInv
  <2>2. Counts(t)'
    BY <1>2, <1>6, SectorFacts DEF Counts, f
  <2>3. f.remaining > 0 /\ Prepared(t)'
    BY <1>6 DEF Prepared, f, c, ChunkPosition, SectorCount, driver, Chunk
  <2>4. Done(t)' = Done(t)
    BY <1>6 DEF Done, f
  <2>5. request[t].op = "write" => Wrote(t, Done(t))'
    BY <2>1, <2>4 DEF HolderAt, Wrote, Over, driver, drive
  <2>6. request[t].op = "read" => Untouched' /\ Prefix(t)'
    BY <1>2, <1>6, <2>1 DEF HolderAt, Untouched, Prefix, drive, f
  <2> QED BY <1>2, <1>6, <1>7, <2>1, <2>2, <2>3, <2>5, <2>6 DEF HolderAt, InSectors, f
<1>12. ioLock = t
  BY <1>2, SectorFacts
<1> QED BY <1>7, <1>8, <1>9, <1>10, <1>11, <1>12, InsideInv

\* The loop is left early with some blocks remaining.
LEMMA PrepareFailsInv == ASSUME Inv, NEW t \in Callers, PrepareFails(t) PROVE Inv'
<1> USE DEF Inv, PrepareFails, Silent
<1> DEFINE f == frame[t]
<1>1. pc \in [Callers -> Label] /\ frame \in [Callers -> Frame]
  BY DEF TypeOK
<1>2. pc[t] \in InSectors
  BY DEF InSectors
<1>5. /\ frame' \in [Callers -> Frame]
      /\ frame'[t] = [frame[t] EXCEPT !.status = "error"]
  <2>1. frame' = [frame EXCEPT ![t] = [frame[t] EXCEPT !.status = "error"]]
    OBVIOUS
  <2>2. [frame[t] EXCEPT !.status = "error"] \in Frame
    BY <1>1, Zenon DEF Frame, Statuses
  <2> QED BY <1>1, <2>1, <2>2
<1>6. /\ frame'[t].remaining = f.remaining /\ frame'[t].transferred = f.transferred
      /\ frame'[t].currentBlock = f.currentBlock /\ frame'[t].status = "error"
      /\ frame'[t].buffer = f.buffer
  <2>1. f \in Frame
    BY <1>1
  <2> QED BY <1>5, <2>1 DEF Frame
<1>7. /\ pc' \in [Callers -> Label] /\ pc'[t] = "unlock"
      /\ \A u \in Callers \ {t} : pc'[u] = pc[u]
  BY <1>1 DEF Goto, Label
<1>8. TypeOK'
  BY <1>5, <1>7 DEF TypeOK, driver, drive, NoReply
<1>9. LockInv' /\ ThroughInv'
  BY DEF LockInv, ThroughInv, driver, drive
<1>10. ThreadAt(t)'
  BY <1>2, <1>7, SectorFacts DEF ThreadAt, Holding, InSectors, driver
<1>11. HolderAt(t)'
  <2>1. HolderAt(t)
    BY DEF HolderInv
  <2>2. Counts(t)'
    BY <1>2, <1>6, SectorFacts DEF Counts
  <2>4. Done(t)' = Done(t)
    BY <1>6 DEF Done
  <2>5. request[t].op = "write" => \E torn \in SUBSET Undone(t)' : Wrote(t, Done(t) \cup torn)'
    <3>1. request[t].op = "write" => Wrote(t, Done(t) \cup {})'
      BY <2>1, <2>4 DEF HolderAt, Wrote, Over, driver, drive
    <3> QED BY <3>1, Zenon
  <2>6. request[t].op = "read" => Untouched' /\ Prefix(t)'
    BY <1>2, <1>6, <2>1 DEF HolderAt, Untouched, Prefix, drive
  <2> QED BY <1>2, <1>6, <1>7, <2>1, <2>2, <2>5, <2>6 DEF HolderAt, InSectors
<1>12. ioLock = t
  BY <1>2, SectorFacts
<1> QED BY <1>7, <1>8, <1>9, <1>10, <1>11, <1>12, InsideInv

\* Flush gives the lock back and changes at most what is stable.
LEMMA FlushInv == ASSUME Inv, NEW t \in Callers, Flush(t) PROVE Inv'
<1> USE DEF Inv
<1>1. ioLock = t /\ Untouched /\ pc[t] = "flushing"
  BY DEF ThreadInv, ThreadAt, Holding, HolderInv, HolderAt, Flush
<1>2. PICK s \in Statuses : Return(t, s, 0, << >>)
  BY DEF Flush, Statuses
<1>3. stable' \in {stable, disk} /\ disk' = disk /\ frame' = frame /\ ioLock' = None
      /\ before' = None /\ UNCHANGED driver
  BY DEF Flush, Unlock
<1>4. /\ pc' \in [Callers -> Label]
      /\ request' \in [Callers -> Requests \cup {None}]
      /\ reply'.status \in Statuses \cup {"none"}
      /\ pc'[t] = "idle" /\ request'[t] = None
      /\ \A u \in Callers \ {t} : pc'[u] = pc[u] /\ request'[u] = request[u]
  BY <1>2, ReturnFacts
<1>5. TypeOK'
  BY <1>3, <1>4 DEF TypeOK, driver
<1>6. LockInv' /\ ThroughInv'
  BY <1>3 DEF LockInv, ThroughInv, driver
<1>7. ThreadAt(t)'
  BY <1>3, <1>4, StorageAssumption DEF ThreadAt, Holding, InSectors
<1>8. HolderAt(t)'
  BY <1>4 DEF HolderAt, InSectors
<1> QED BY <1>1, <1>3, <1>4, <1>5, <1>6, <1>7, <1>8, InsideInv

\* The lock is given back.
LEMMA LeaveSectorsInv == ASSUME Inv, NEW t \in Callers, LeaveSectors(t) PROVE Inv'
<1> USE DEF Inv
<1>1. pc[t] \in InSectors
  BY DEF LeaveSectors, InSectors
<1>2. ioLock = t /\ frame[t] \in Frame
  BY <1>1, SectorFacts
<1>3. frame[t].status \in Statuses
  BY <1>2 DEF Frame
<1>4. /\ Return(t, frame[t].status, frame[t].transferred, frame[t].buffer)
      /\ frame' = [frame EXCEPT ![t] = NoFrame]
      /\ ioLock' = None /\ before' = None /\ disk' = disk /\ stable' = stable
      /\ UNCHANGED driver
  BY DEF LeaveSectors, Unlock, drive
<1>5. /\ pc' \in [Callers -> Label]
      /\ request' \in [Callers -> Requests \cup {None}]
      /\ reply'.status \in Statuses \cup {"none"}
      /\ pc'[t] = "idle" /\ request'[t] = None
      /\ \A u \in Callers \ {t} : pc'[u] = pc[u] /\ request'[u] = request[u]
  BY <1>3, <1>4, ReturnFacts
<1>6. frame' \in [Callers -> Frame]
  <2>1. NoFrame \in Frame
    BY DEF NoFrame, FrameOf, Frame, Statuses
  <2>2. frame \in [Callers -> Frame]
    BY DEF TypeOK
  <2> QED BY <1>4, <2>1, <2>2
<1>7. TypeOK'
  BY <1>4, <1>5, <1>6 DEF TypeOK, driver
<1>8. LockInv' /\ ThroughInv'
  BY <1>4 DEF LockInv, ThroughInv, driver
<1>9. ThreadAt(t)'
  BY <1>4, <1>5, StorageAssumption DEF ThreadAt, Holding, InSectors
<1>10. HolderAt(t)'
  BY <1>5 DEF HolderAt, InSectors
<1> QED BY <1>2, <1>4, <1>5, <1>7, <1>8, <1>9, <1>10, InsideInv

\* After a loss of power nothing is under way, and nothing only cached.
LEMMA PowerFailsInv == ASSUME Inv, PowerFails PROVE Inv'
<1> USE DEF Inv
<1>1. /\ pc' = [t \in Callers |-> "idle"] /\ request' = [t \in Callers |-> None]
      /\ frame' = [t \in Callers |-> NoFrame] /\ reply' = NoReply
      /\ stable' = disk' /\ ioLock' = None /\ before' = None
      /\ up' = FALSE /\ maxBlock' = 0 /\ supports48' = FALSE /\ setup' = setup
  BY DEF PowerFails
<1>2. disk' \in Contents
  BY DEF PowerFails, TypeOK, Contents
<1>3. NoFrame \in Frame
  BY DEF NoFrame, FrameOf, Frame, Statuses
<1>4. TypeOK'
  BY <1>1, <1>2, <1>3, Zenon DEF TypeOK, Label, NoReply
<1>5. ThreadInv'
  BY <1>1, StorageAssumption DEF ThreadInv, ThreadAt, Holding, InSectors
<1>6. HolderInv'
  BY <1>1, Zenon DEF HolderInv, HolderAt, InSectors
<1> QED BY <1>1, <1>4, <1>5, <1>6 DEF LockInv, DriveInv, ThroughInv

\* The command that is about to be executed: it names the blocks that come
\* next, as many of them as the buffer part has.
LEMMA CommandFacts ==
    ASSUME Inv, NEW t \in Callers, pc[t] = "execute"
    PROVE  /\ frame[t].command.lba = request[t].block + frame[t].transferred
           /\ frame[t].command.position = frame[t].transferred
           /\ frame[t].command.blocks = Chunk(frame[t].remaining)
           /\ frame[t].command.blocks \in 1..MaxTransfer
           /\ frame[t].command.blocks <= frame[t].remaining
           /\ DriveCount(frame[t].command) = frame[t].command.blocks
<1>1. pc[t] \in InSectors
  BY DEF InSectors
<1>2. frame[t].remaining > 0 /\ Prepared(t)
  BY DEF Inv, HolderInv, HolderAt
<1>3. frame[t].remaining \in Nat /\ Counts(t)
  BY <1>1, SectorFacts
<1>4. Chunk(frame[t].remaining) \in 1..MaxTransfer /\ Chunk(frame[t].remaining) <= frame[t].remaining
  BY <1>2, <1>3, ChunkFacts
<1>5. /\ frame[t].command.lba = frame[t].currentBlock
      /\ frame[t].command.count = SectorCount(Chunk(frame[t].remaining))
      /\ frame[t].command.blocks = Chunk(frame[t].remaining)
      /\ frame[t].command.position = frame[t].transferred
  BY <1>2, SMTT(30) DEF Prepared
<1>6. DriveCount(frame[t].command) = frame[t].command.blocks
  BY <1>4, <1>5, BlocksNat DEF DriveCount, SectorCount
<1>7. frame[t].command.lba = request[t].block + frame[t].transferred
  BY <1>3, <1>5 DEF Counts
<1> QED BY <1>4, <1>5, <1>6, <1>7

\* The blocks a command names are still to be done.
LEMMA NamedUndone ==
    ASSUME Inv, NEW t \in Callers, pc[t] = "execute"
    PROVE  Named(frame[t].command) \subseteq Undone(t)
<1>1. pc[t] \in InSectors
  BY DEF InSectors
<1> DEFINE c == frame[t].command
<1>2. /\ c.lba = request[t].block + frame[t].transferred
      /\ DriveCount(c) \in 1..MaxTransfer
      /\ DriveCount(c) <= frame[t].remaining
  BY CommandFacts
<1>3. /\ request[t].block \in Nat /\ frame[t].transferred \in Nat /\ frame[t].remaining \in Nat
      /\ frame[t].remaining + frame[t].transferred = request[t].nblks
  BY <1>1, SectorFacts DEF Counts
<1> HIDE DEF c
<1>4. ASSUME NEW b \in Nat, c.lba <= b, b < c.lba + DriveCount(c)
      PROVE  /\ request[t].block + frame[t].transferred <= b
             /\ b < request[t].block + frame[t].transferred + MaxTransfer
             /\ b < request[t].block + request[t].nblks
  BY ONLY <1>2, <1>3, <1>4, BlocksNat
<1> QED BY ONLY <1>4, BlocksNat, Zenon DEF Named, Undone, c

\* What storing some of the blocks of the command does.
LEMMA StoreFacts ==
    ASSUME Inv, NEW t \in Callers, pc[t] = "execute", request[t].op = "write",
           NEW bs \in SUBSET Named(frame[t].command),
           Store(request[t], frame[t].command, bs), UNCHANGED <<before, request, setup>>
    PROVE  /\ disk' = Over(before.disk, request[t], Done(t) \cup bs)
           /\ setup.writethrough => stable' = disk'
           /\ setup.writethrough \/ stable' = before.stable
           /\ disk' \in Contents /\ stable' \in Contents
<1> DEFINE r == request[t]
           c == frame[t].command
           Put(m) == [b \in Blocks |-> IF b \in bs THEN <<r.tag, c.position + b - c.lba>> ELSE m[b]]
<1>1. pc[t] \in InSectors
  BY DEF InSectors
<1>2. /\ r.block \in Nat /\ r.tag \in Tags /\ frame[t].transferred \in Nat
      /\ before \in [disk : Contents, stable : Contents]
  BY <1>1, SectorFacts
<1>3. c.lba = r.block + frame[t].transferred /\ c.position = frame[t].transferred
  BY CommandFacts
<1>4. disk' = Put(disk) /\ stable' = IF setup.writethrough THEN Put(stable) ELSE stable
  BY DEF Store
<1>5. /\ disk = Over(before.disk, r, Done(t))
      /\ setup.writethrough \/ stable = before.stable
      /\ setup.writethrough => stable = disk
      /\ disk \in Contents /\ stable \in Contents
  BY Zenon DEF Inv, HolderInv, HolderAt, Wrote, ThroughInv, TypeOK
<1> HIDE DEF r, c
<1>6. ASSUME NEW b \in Blocks
      PROVE  c.position + b - c.lba = b - r.block /\ c.position + b - c.lba \in Int
  <2>1. b \in Nat
    BY BlocksNat
  <2> QED BY ONLY <1>2, <1>3, <2>1, SMTT(30)
<1>7. Put(disk) = Over(before.disk, r, Done(t) \cup bs)
  <2> DEFINE put == Put(disk)
             over == Over(before.disk, r, Done(t) \cup bs)
  <2>1. \A b \in Blocks : put[b] = over[b]
    BY ONLY <1>5, <1>6 DEF Over
  <2>2. put = [b \in Blocks |-> put[b]] /\ over = [b \in Blocks |-> over[b]]
    BY ONLY Zenon DEF Over
  <2>3. put = over
    <3> HIDE DEF put, over
    <3> QED BY ONLY <2>1, <2>2, Zenon
  <2> QED BY ONLY <2>3
<1>8. ASSUME NEW m \in Contents PROVE Put(m) \in Contents
  BY ONLY <1>2, <1>6, <1>8 DEF Contents, Values
<1> HIDE DEF Put
<1> QED BY ONLY <1>4, <1>5, <1>7, <1>8 DEF r

\* The buffer after a read has got one chunk further.
LEMMA FetchFacts ==
    ASSUME Inv, NEW t \in Callers, pc[t] = "execute", request[t].op = "read"
    PROVE  /\ Fetched(frame[t].buffer, frame[t].command) =
                  [i \in 1..(frame[t].transferred + frame[t].command.blocks) |->
                      before.disk[request[t].block + i - 1]]
           /\ Fetched(frame[t].buffer, frame[t].command) \in Seq(Values)
<1> DEFINE r == request[t]
           c == frame[t].command
           n == frame[t].transferred
           B == [i \in 1..(n + c.blocks) |-> before.disk[r.block + i - 1]]
<1>1. pc[t] \in InSectors
  BY DEF InSectors
<1>2. /\ r.block \in Nat /\ n \in Nat /\ frame[t].remaining \in Nat /\ up
      /\ frame[t].remaining + n = r.nblks /\ r.block + r.nblks <= maxBlock + 1
      /\ before \in [disk : Contents, stable : Contents]
      /\ maxBlock \in Nat
  BY <1>1, SectorFacts DEF Counts, Inv, TypeOK
<1>3. /\ c.lba = r.block + n /\ c.position = n /\ DriveCount(c) = c.blocks
      /\ c.blocks \in Nat /\ c.blocks <= frame[t].remaining
  BY CommandFacts, BlocksNat, SMTT(30)
<1>4. disk = before.disk /\ frame[t].buffer = [i \in 1..n |-> before.disk[r.block + i - 1]]
  BY <1>1 DEF Inv, HolderInv, HolderAt, Untouched, Prefix
<1>5. 0..maxBlock \subseteq Blocks
  BY <1>2 DEF Inv, DriveInv
<1>6. Fetched(frame[t].buffer, c) =
        [i \in 1..(n + c.blocks) |->
            IF i > n THEN disk[c.lba + i - n - 1] ELSE frame[t].buffer[i]]
  BY <1>3 DEF Fetched
<1> HIDE DEF r, c, n
<1>7. ASSUME NEW i \in 1..(n + c.blocks)
      PROVE  /\ (IF i > n THEN disk[c.lba + i - n - 1] ELSE frame[t].buffer[i])
                    = before.disk[r.block + i - 1]
             /\ before.disk[r.block + i - 1] \in Values
  <2>1. i \in Nat /\ i >= 1 /\ i <= n + c.blocks
    BY <1>2, <1>3
  <2>2. c.lba + i - n - 1 = r.block + i - 1 /\ r.block + i - 1 \in 0..maxBlock
    BY ONLY <1>2, <1>3, <2>1
  <2>3. ~(i > n) => i \in 1..n
    BY ONLY <1>2, <2>1
  <2>4. before.disk[r.block + i - 1] \in Values
    BY ONLY <1>2, <1>5, <2>2 DEF Contents
  <2> QED BY ONLY <1>4, <2>2, <2>3, <2>4
<1>8. Fetched(frame[t].buffer, c) = B
  BY ONLY <1>6, <1>7
<1>9. B \in Seq(Values)
  <2>1. n + c.blocks \in Nat
    BY ONLY <1>2, <1>3
  <2> QED BY ONLY <1>7, <2>1
<1> QED BY ONLY <1>8, <1>9 DEF r, c, n

\* Moving k of d remaining blocks keeps the counts natural numbers.
LEMMA NatMoves == \A a, b, d, k \in Nat : k <= d => a + k \in Nat /\ b + k \in Nat /\ d - k \in Nat
  OBVIOUS

\* A command that succeeds moves the blocks it names and the counts with them.
LEMMA ExecuteInv == ASSUME Inv, NEW t \in Callers, Execute(t) PROVE Inv'
<1> DEFINE f == frame[t]
           c == f.command
           r == request[t]
           buf == IF r.op = "read" THEN Fetched(f.buffer, c) ELSE f.buffer
           g == [f EXCEPT !.transferred = @ + c.blocks,
                          !.currentBlock = @ + c.blocks,
                          !.remaining = @ - c.blocks,
                          !.command = None,
                          !.buffer = buf]
<1>1. pc[t] = "execute" /\ pc[t] \in InSectors
  BY DEF Execute, InSectors
<1>2. /\ \/ r.op = "write" /\ Store(r, c, Named(c))
         \/ r.op = "read" /\ UNCHANGED drive
      /\ frame' = [frame EXCEPT ![t] = g]
      /\ pc' = [pc EXCEPT ![t] = "loop"]
      /\ reply' = NoReply /\ ioLock' = ioLock /\ request' = request /\ before' = before
      /\ UNCHANGED driver
  BY DEF Execute, Goto, Silent
<1>3. /\ r.op \in {"read", "write"} /\ r.block \in Nat /\ r.nblks \in Nat /\ f \in Frame
      /\ f.remaining \in Nat /\ f.transferred \in Nat /\ f.currentBlock \in Nat
      /\ f.remaining + f.transferred = r.nblks /\ f.currentBlock = r.block + f.transferred
      /\ ioLock = t
  BY <1>1, SectorFacts DEF Counts
<1>4. /\ c.blocks \in Nat /\ c.blocks <= f.remaining
      /\ c.lba = r.block + f.transferred /\ DriveCount(c) = c.blocks
  <2>1. /\ c.lba = r.block + f.transferred /\ c.blocks \in 1..MaxTransfer
        /\ c.blocks <= f.remaining /\ DriveCount(c) = c.blocks
    BY <1>1, CommandFacts, Zenon
  <2>2. ASSUME NEW k \in 1..MaxTransfer PROVE k \in Nat
    BY ONLY BlocksNat, k \in 1..MaxTransfer
  <2> QED BY ONLY <2>1, <2>2, Zenon
<1>5. buf \in Seq(Values)
  BY <1>1, <1>3, FetchFacts, Zenon DEF Frame
<1> HIDE DEF c, r, buf
<1>6. /\ g.transferred = f.transferred + c.blocks
      /\ g.currentBlock = f.currentBlock + c.blocks
      /\ g.remaining = f.remaining - c.blocks
      /\ g.buffer = buf
      /\ g.status = f.status
      /\ g \in Frame
  <2>1. f.transferred + c.blocks \in Nat /\ f.currentBlock + c.blocks \in Nat /\ f.remaining - c.blocks \in Nat
    BY ONLY <1>3, <1>4, NatMoves, Zenon
  <2> QED BY ONLY <1>3, <1>5, <2>1, Zenon DEF Frame
<1> HIDE DEF g, f
<1>7. /\ pc' \in [Callers -> Label] /\ pc'[t] = "loop"
      /\ \A u \in Callers \ {t} : pc'[u] = pc[u]
      /\ frame' \in [Callers -> Frame] /\ frame'[t] = g
  <2>1. pc \in [Callers -> Label] /\ frame \in [Callers -> Frame]
    BY DEF Inv, TypeOK
  <2> QED BY ONLY <1>2, <1>6, <2>1 DEF Label
<1>8. /\ disk' \in Contents /\ stable' \in Contents
      /\ setup.writethrough => stable' = disk'
      /\ r.op = "read" => disk' = disk /\ stable' = stable
      /\ r.op = "write" => /\ disk' = Over(before.disk, r, Done(t) \cup Named(c))
                           /\ setup.writethrough \/ stable' = before.stable
  <2>1. CASE r.op = "write"
    BY <1>1, <1>2, <2>1, StoreFacts, Zenon DEF r, c, f, driver
  <2>2. CASE r.op = "read"
    BY <1>2, <2>2 DEF drive, Inv, TypeOK, ThroughInv
  <2> QED BY <1>3, <2>1, <2>2
<1>9. TypeOK'
  BY <1>2, <1>7, <1>8, Zenon DEF Inv, TypeOK, driver, NoReply
<1>10. LockInv' /\ ThroughInv'
  BY <1>2, <1>8 DEF Inv, LockInv, ThroughInv, driver
<1>11. ThreadAt(t)'
  <2>1. ThreadAt(t)
    BY DEF Inv, ThreadInv
  <2> QED BY ONLY <1>1, <1>2, <1>7, <2>1 DEF ThreadAt, Holding, InSectors, driver
<1>12. Done(t)' = Done(t) \cup Named(c)
  <2>1. /\ Done(t)' = {b \in Blocks : r.block <= b /\ b < r.block + g.transferred}
        /\ Done(t) = {b \in Blocks : r.block <= b /\ b < r.block + f.transferred}
        /\ Named(c) = {b \in Blocks : c.lba <= b /\ b < c.lba + c.blocks}
    BY <1>2, <1>4, <1>7 DEF Done, Named, r, f
  <2>2. \A b \in Nat : (r.block <= b /\ b < r.block + g.transferred) <=>
            \/ r.block <= b /\ b < r.block + f.transferred
            \/ c.lba <= b /\ b < c.lba + c.blocks
    BY ONLY <1>3, <1>4, <1>6
  <2> QED BY ONLY <2>1, <2>2, BlocksNat, Zenon
<1>13. HolderAt(t)'
  <2>1. HolderAt(t)
    BY DEF Inv, HolderInv
  <2>2. Counts(t)'
    <3>1. g.remaining + g.transferred = r.nblks /\ g.currentBlock = r.block + g.transferred
      BY ONLY <1>3, <1>4, <1>6
    <3> QED BY <1>2, <1>7, <3>1 DEF Counts, r
  <2>3. frame'[t].status = "ok"
    BY <1>1, <1>6, <1>7, <2>1 DEF HolderAt, f
  <2>4. CASE r.op = "write"
    <3>1. Wrote(t, Done(t))'
      BY <1>2, <1>8, <1>12, <2>4, Zenon DEF Wrote, r, driver
    <3>2. frame'[t].buffer = << >>
      BY <1>1, <1>6, <1>7, <2>1, <2>4, Zenon DEF HolderAt, buf, f, r
    <3> QED BY <1>2, <1>7, <2>2, <2>3, <2>4, <3>1, <3>2, Zenon DEF HolderAt, InSectors, r
  <2>5. CASE r.op = "read"
    <3>1. Untouched'
      BY <1>1, <1>2, <1>8, <2>1, <2>5, Zenon DEF HolderAt, Untouched, r
    <3>2. Prefix(t)'
      <4>1. buf = [i \in 1..(f.transferred + c.blocks) |-> before.disk[r.block + i - 1]]
        BY <1>1, <2>5, FetchFacts DEF buf, f, c, r
      <4> QED BY <1>2, <1>6, <1>7, <4>1, Zenon DEF Prefix, r
    <3> QED BY <1>2, <1>7, <2>2, <2>3, <2>5, <3>1, <3>2, Zenon DEF HolderAt, InSectors, r
  <2> QED BY <1>3, <2>4, <2>5
<1> QED BY <1>2, <1>3, <1>7, <1>9, <1>10, <1>11, <1>13, InsideInv

\* A command that fails has moved only blocks of the part not yet counted.
LEMMA ExecuteFailsInv == ASSUME Inv, NEW t \in Callers, ExecuteFails(t) PROVE Inv'
<1> DEFINE f == frame[t]
           c == f.command
           r == request[t]
           g == [f EXCEPT !.status = "error", !.command = None]
<1>1. pc[t] = "execute" /\ pc[t] \in InSectors
  BY DEF ExecuteFails, InSectors
<1>2. /\ \/ r.op = "write" /\ \E bs \in SUBSET Named(c) : Store(r, c, bs)
         \/ r.op = "read" /\ UNCHANGED drive
      /\ pc' = [pc EXCEPT ![t] = "unlock"]
      /\ reply' = NoReply /\ ioLock' = ioLock /\ request' = request /\ before' = before
      /\ UNCHANGED driver
  BY DEF ExecuteFails, Goto, Silent
<1>3. /\ r.op \in {"read", "write"} /\ f \in Frame /\ ioLock = t /\ Counts(t)
  BY <1>1, SectorFacts
<1>4. frame' = [frame EXCEPT ![t] = g]
  <2>1. frame \in [Callers -> Frame]
    BY DEF Inv, TypeOK
  <2>2. frame' = [frame EXCEPT ![t].status = "error", ![t].command = None]
    BY DEF ExecuteFails
  <2> QED BY ONLY <2>1, <2>2, t \in Callers, Zenon
<1> HIDE DEF c, r
<1>5. /\ g.transferred = f.transferred /\ g.currentBlock = f.currentBlock
      /\ g.remaining = f.remaining /\ g.buffer = f.buffer /\ g.status = "error"
      /\ g \in Frame
  BY ONLY <1>3, Zenon DEF Frame, Statuses
<1> HIDE DEF g, f
<1>6. /\ pc' \in [Callers -> Label] /\ pc'[t] = "unlock"
      /\ \A u \in Callers \ {t} : pc'[u] = pc[u]
      /\ frame' \in [Callers -> Frame] /\ frame'[t] = g
  <2>1. pc \in [Callers -> Label] /\ frame \in [Callers -> Frame]
    BY DEF Inv, TypeOK
  <2> QED BY ONLY <1>2, <1>4, <1>5, <2>1 DEF Label
<1>7. /\ disk' \in Contents /\ stable' \in Contents
      /\ setup.writethrough => stable' = disk'
      /\ r.op = "read" => disk' = disk /\ stable' = stable
      /\ r.op = "write" => \E bs \in SUBSET Named(c) :
                           /\ disk' = Over(before.disk, r, Done(t) \cup bs)
                           /\ setup.writethrough \/ stable' = before.stable
  <2>1. CASE r.op = "write"
    <3>1. PICK bs \in SUBSET Named(c) : Store(r, c, bs)
      BY <1>2, <2>1
    <3> QED BY <1>1, <1>2, <2>1, <3>1, StoreFacts, Zenon DEF r, c, f, driver
  <2>2. CASE r.op = "read"
    BY <1>2, <2>2 DEF drive, Inv, TypeOK, ThroughInv
  <2> QED BY <1>3, <2>1, <2>2
<1>8. TypeOK'
  BY <1>2, <1>6, <1>7, Zenon DEF Inv, TypeOK, driver, NoReply
<1>9. LockInv' /\ ThroughInv'
  BY <1>2, <1>7 DEF Inv, LockInv, ThroughInv, driver
<1>10. ThreadAt(t)'
  <2>1. ThreadAt(t)
    BY DEF Inv, ThreadInv
  <2>2. up' = up /\ maxBlock' = maxBlock /\ ioLock' = ioLock /\ request' = request
    BY ONLY <1>2 DEF driver
  <2>3. /\ request[t] # None /\ up /\ ioLock = t /\ request[t].op \in {"read", "write"}
        /\ request[t].nblks > 0 /\ request[t].block + request[t].nblks <= maxBlock + 1
    BY ONLY <1>1, <2>1, Zenon DEF ThreadAt, Holding, InSectors
  <2>4. pc'[t] = "unlock"
    BY <1>6
  <2> QED BY ONLY <2>2, <2>3, <2>4, Zenon DEF ThreadAt, Holding, InSectors
<1>11. Done(t)' = Done(t) /\ Undone(t)' = Undone(t)
  BY <1>2, <1>5, <1>6 DEF Done, Undone, f
<1>12. HolderAt(t)'
  <2>1. HolderAt(t)
    BY DEF Inv, HolderInv
  <2>2. Counts(t)'
    BY <1>2, <1>3, <1>5, <1>6, Zenon DEF Counts, f
  <2>3. frame'[t].status = "error" /\ frame'[t].remaining > 0
    BY <1>1, <1>5, <1>6, <2>1, Zenon DEF HolderAt, f
  <2>4. CASE r.op = "write"
    <3>1. PICK bs \in SUBSET Named(c) :
                           /\ disk' = Over(before.disk, r, Done(t) \cup bs)
                           /\ setup.writethrough \/ stable' = before.stable
      BY <1>7, <2>4
    <3>2. bs \in SUBSET Undone(t)
      BY <1>1, NamedUndone DEF c, f
    <3>3. Wrote(t, Done(t) \cup bs)'
      BY <1>2, <1>11, <3>1 DEF Wrote, r, driver
    <3>4. frame'[t].buffer = << >>
      BY <1>1, <1>5, <1>6, <2>1, <2>4, Zenon DEF HolderAt, f, r
    <3> QED BY <1>2, <1>6, <1>11, <2>2, <2>3, <2>4, <3>2, <3>3, <3>4, Zenon DEF HolderAt, InSectors, r
  <2>5. CASE r.op = "read"
    <3>1. Untouched'
      BY <1>1, <1>2, <1>7, <2>1, <2>5, Zenon DEF HolderAt, Untouched, r
    <3>2. Prefix(t)'
      BY <1>1, <1>2, <1>5, <1>6, <2>1, <2>5, Zenon DEF HolderAt, Prefix, r, f
    <3> QED BY <1>2, <1>6, <2>2, <2>3, <2>5, <3>1, <3>2, Zenon DEF HolderAt, InSectors, r
  <2> QED BY <1>3, <2>4, <2>5
<1> QED BY <1>2, <1>3, <1>6, <1>8, <1>9, <1>10, <1>12, InsideInv

\* Every step keeps the invariant.
LEMMA NextInv == Inv /\ [Next]_vars => Inv'
<1> SUFFICES ASSUME Inv, [Next]_vars PROVE Inv' OBVIOUS
<1>1. CASE UNCHANGED vars
  <2>1. /\ UNCHANGED <<up, maxBlock, supports48, setup, ioLock, pc, request, frame, reply>>
        /\ UNCHANGED <<disk, stable, before>>
    BY <1>1 DEF vars, driver, drive
  <2>2. TypeOK' /\ LockInv' /\ DriveInv' /\ ThroughInv'
    BY <2>1 DEF Inv, TypeOK, LockInv, DriveInv, ThroughInv
  <2>3. ThreadInv'
    BY <2>1 DEF Inv, ThreadInv, ThreadAt
  <2>4. HolderInv'
    BY <2>1, HolderKept DEF Inv, HolderInv, drive
  <2> QED BY <2>2, <2>3, <2>4 DEF Inv
<1>2. CASE Start
  BY <1>2, StartInv
<1>3. CASE PowerFails
  BY <1>3, PowerFailsInv
<1>4. ASSUME NEW t \in Callers, Call(t) \/ Step(t) PROVE Inv'
  BY <1>4, CallInv, CheckInv, EnterSectorsInv, PrepareInv, PrepareFailsInv, ExecuteInv,
     ExecuteFailsInv, LeaveSectorsInv, SyncInv, FlushFailsInv, EnterFlushInv, FlushInv DEF Step
<1> QED BY <1>1, <1>2, <1>3, <1>4 DEF Next

\* In every reachable state the variables of PantheraATAStorage have their
\* types: the loop of executeSectors never counts below zero.
THEOREM TypeCorrect == Spec => []TypeOK
<1>1. Inv => TypeOK
  BY DEF Inv
<1> QED BY InitInv, NextInv, <1>1, PTL DEF Spec

-----------------------------------------------------------------------------
(* The block device is implemented                                         *)

\* The device as the mapping shows it.
Medium == IF Held THEN before.disk ELSE disk
Durable == IF Held THEN before.stable ELSE stable
Size == IF up THEN maxBlock + 1 ELSE 0

\* A step that returns to no caller, with or without the lock, and leaves
\* what callers can see.
LEMMA ProceedStep ==
    ASSUME Medium' = Medium, Durable' = Durable,
           UNCHANGED <<up, maxBlock, request>>, reply' = NoReply
    PROVE  Promised!Next
<1>1. Promised!Proceed
  BY Zenon DEF Promised!Proceed, Promised!NoReply, NoReply, Medium, Durable
<1> QED BY <1>1 DEF Promised!Next

\* Without the lock a step sees the drive, with it what the drive held when it
\* was taken.
LEMMA MediumKept ==
    ASSUME UNCHANGED <<ioLock, before>>, Held \/ UNCHANGED drive
    PROVE  Medium' = Medium /\ Durable' = Durable
  BY DEF Medium, Durable, Held, drive

\* Taking the lock changes nothing that callers see.
LEMMA MediumLocked ==
    ASSUME NEW t \in Callers, Lock(t), UNCHANGED drive
    PROVE  Medium' = Medium /\ Durable' = Durable
<1>1. t # None
  BY StorageAssumption
<1> QED BY <1>1 DEF Medium, Durable, Held, Lock, drive

\* start() attaches a device that has blocks.
LEMMA StartStep == ASSUME Inv, Start PROVE Promised!Next
<1>1. PICK d \in Identities : Sectors(d) # 0 /\ maxBlock' = Sectors(d) - 1
  BY DEF Start
<1>2. Sectors(d) \in Nat
  BY StorageAssumption DEF Sectors
<1>3. Promised!Attach
  BY <1>1, <1>2, SMTT(30) DEF Start, Silent, NoReply, drive, Held, Promised!Attach, Promised!NoReply
<1> QED BY <1>3 DEF Promised!Next

\* A call submits its request.
LEMMA CallStep == ASSUME Inv, NEW t \in Callers, Call(t) PROVE Promised!Next
<1>1. request[t] = None /\ maxBlock \in Nat
  BY DEF Call, Inv, ThreadInv, ThreadAt, TypeOK
<1>2. /\ up /\ reply' = NoReply /\ UNCHANGED <<up, maxBlock, ioLock, disk, stable, before>>
      /\ \E r \in Requests : request' = [request EXCEPT ![t] = r]
  BY Zenon DEF Call, Silent, drive, driver
<1>3. Size > 0 /\ Size' = Size /\ Medium' = Medium /\ Durable' = Durable
  BY <1>1, <1>2 DEF Size, Medium, Durable, Held
<1>4. Promised!Submit(t)
  BY <1>1, <1>2, <1>3, Zenon DEF NoReply, Size, Medium, Durable, Promised!Submit, Promised!NoReply
<1> QED BY <1>4 DEF Promised!Next

\* A request that is returned at once without success is refused.
LEMMA RefuseStep ==
    ASSUME NEW t \in Callers, NEW e \in {"badargument", "error"},
           request[t] # None, Return(t, e, 0, << >>), UNCHANGED <<up, maxBlock>>,
           Medium' = Medium, Durable' = Durable
    PROVE  Promised!Next
<1>1. Promised!Refuse(t)
  BY Zenon DEF Return, Medium, Durable, Promised!Refuse, Promised!Answer
<1> QED BY <1>1 DEF Promised!Next

\* One that succeeds in making everything durable is a synchronize.
LEMMA SynchronizeStep ==
    ASSUME NEW t \in Callers, request[t] # None, request[t].op = "sync",
           Return(t, "ok", 0, << >>), UNCHANGED <<up, maxBlock>>,
           Medium' = Medium, Durable' = Medium
    PROVE  Promised!Next
<1>1. Promised!Synchronize(t)
  BY DEF Return, Medium, Durable, Promised!Synchronize, Promised!Answer
<1> QED BY <1>1 DEF Promised!Next

\* The range check refuses the request or lets it go on.
LEMMA CheckStep == ASSUME Inv, NEW t \in Callers, Check(t) PROVE Promised!Next
<1>1. pc[t] = "check" /\ UNCHANGED <<up, maxBlock, ioLock, drive, before>>
  BY Zenon DEF Check, driver
<1>2. request[t] # None
  BY <1>1, Zenon DEF Inv, ThreadInv, ThreadAt
<1>3. Medium' = Medium /\ Durable' = Durable
  BY <1>1, MediumKept, Zenon
<1> QED BY <1>1, <1>2, <1>3, RefuseStep, ProceedStep DEF Check, Silent

\* A synchronize without a flush is one only because the host writes through.
LEMMA SyncStep == ASSUME Inv, NEW t \in Callers, Sync(t) PROVE Promised!Next
<1>1. /\ request[t] # None /\ request[t].op = "sync"
      /\ Medium' = Medium /\ Durable' = Durable /\ UNCHANGED <<up, maxBlock>>
  BY MediumKept DEF Sync, driver, Inv, ThreadInv, ThreadAt
<1>2. setup.noflush => Durable = Medium
  BY DEF Inv, TypeOK, Setups, ThroughInv, Durable, Medium, Held
<1> QED BY <1>1, <1>2, RefuseStep, ProceedStep, SynchronizeStep, Zenon DEF Sync, Silent

\* A flush that gets no command refuses the request.
LEMMA FlushFailsStep == ASSUME Inv, NEW t \in Callers, FlushFails(t) PROVE Promised!Next
<1>1. pc[t] = "flush" /\ UNCHANGED <<up, maxBlock, ioLock, drive, before>>
  BY Zenon DEF FlushFails, driver
<1>2. request[t] # None
  BY <1>1, Zenon DEF Inv, ThreadInv, ThreadAt
<1>3. Medium' = Medium /\ Durable' = Durable
  BY <1>1, MediumKept, Zenon
<1> QED BY <1>1, <1>2, <1>3, RefuseStep DEF FlushFails

\* A flush is a synchronize, or a refusal if FLUSH CACHE fails.
LEMMA FlushStep == ASSUME Inv, NEW t \in Callers, Flush(t) PROVE Promised!Next
<1>1. /\ request[t] # None /\ request[t].op = "sync" /\ ioLock = t /\ Untouched
      /\ UNCHANGED <<up, maxBlock>> /\ t # None
  BY StorageAssumption, Zenon DEF Flush, driver, Inv, ThreadInv, ThreadAt, HolderInv, HolderAt, Holding
<1>2. Medium' = Medium /\ Durable' = stable' /\ Medium = disk /\ Durable = stable
  BY <1>1 DEF Flush, Unlock, Medium, Durable, Held, Untouched
<1> QED BY <1>1, <1>2, RefuseStep, SynchronizeStep DEF Flush

\* Inside executeSectors nothing is seen before the lock is given back.
LEMMA InsideStep ==
    ASSUME Inv, NEW t \in Callers,
           Prepare(t) \/ PrepareFails(t) \/ Execute(t) \/ ExecuteFails(t)
    PROVE  Promised!Next
<1>1. /\ pc[t] \in Holding /\ UNCHANGED <<ioLock, before, request, driver>> /\ reply' = NoReply
  BY DEF Prepare, PrepareFails, Execute, ExecuteFails, Silent, Holding
<1>2. Held
  BY <1>1, StorageAssumption, Zenon DEF Inv, ThreadInv, ThreadAt, Held
<1> QED BY <1>1, <1>2, MediumKept, ProceedStep DEF driver

\* Taking the lock is not seen.
LEMMA EnterStep ==
    ASSUME NEW t \in Callers, EnterSectors(t) \/ EnterFlush(t)
    PROVE  Promised!Next
<1>1. Lock(t) /\ UNCHANGED <<drive, request, driver>> /\ reply' = NoReply
  <2>1. CASE EnterSectors(t)
    BY <2>1 DEF EnterSectors, Silent
  <2>2. CASE EnterFlush(t)
    BY <2>2 DEF EnterFlush, Silent
  <2> QED BY ONLY <2>1, <2>2, EnterSectors(t) \/ EnterFlush(t), Zenon
<1> QED BY <1>1, MediumLocked, ProceedStep DEF driver

\* What LeaveSectors returns.
LEMMA LeaveFacts ==
    ASSUME Inv, NEW t \in Callers, LeaveSectors(t)
    PROVE  LET r == request[t]
               n == frame[t].transferred
           IN  /\ pc[t] \in InSectors /\ Held /\ r # None /\ r.op \in {"read", "write"}
               /\ r.block \in Nat /\ r.nblks \in Nat /\ n \in 0..r.nblks
               /\ r.nblks > 0 /\ r.block + r.nblks <= maxBlock + 1
               /\ up /\ UNCHANGED <<up, maxBlock>> /\ maxBlock \in Nat
               /\ Return(t, IF n = r.nblks THEN "ok" ELSE "error", n, frame[t].buffer)
               /\ Medium' = disk /\ Durable' = stable
<1>1. pc[t] \in InSectors
  BY DEF LeaveSectors, InSectors
<1>2. /\ request[t].op \in {"read", "write"} /\ request[t].block \in Nat /\ request[t].nblks \in Nat
      /\ frame[t] \in Frame /\ Counts(t) /\ ioLock = t
  BY <1>1, SectorFacts, Zenon
<1>3. ThreadAt(t) /\ HolderAt(t) /\ maxBlock \in Nat
  BY DEF Inv, ThreadInv, HolderInv, TypeOK
<1>4. /\ frame[t].remaining \in Nat /\ frame[t].transferred \in Nat
      /\ frame[t].remaining + frame[t].transferred = request[t].nblks
  BY <1>2 DEF Counts, Frame
<1>5. frame[t].status = IF frame[t].transferred = request[t].nblks THEN "ok" ELSE "error"
  <2>1. \/ frame[t].remaining = 0 /\ frame[t].status = "ok"
        \/ frame[t].remaining > 0 /\ frame[t].status = "error"
    BY <1>3, Zenon DEF LeaveSectors, HolderAt
  <2> QED BY ONLY <1>2, <1>4, <2>1, SMTT(30)
<1>6. frame[t].transferred \in 0..request[t].nblks
  BY ONLY <1>2, <1>4
<1>7. Held
  BY <1>2, StorageAssumption DEF Held
<1>8. /\ request[t] # None /\ up /\ request[t].nblks > 0
      /\ request[t].block + request[t].nblks <= maxBlock + 1
  BY <1>1, <1>3 DEF ThreadAt, InSectors
<1>9. UNCHANGED <<up, maxBlock>> /\ Medium' = disk /\ Durable' = stable
  BY DEF LeaveSectors, driver, drive, Unlock, Medium, Durable, Held
<1>10. Return(t, IF frame[t].transferred = request[t].nblks THEN "ok" ELSE "error",
              frame[t].transferred, frame[t].buffer)
  BY <1>5 DEF LeaveSectors
<1> QED BY <1>1, <1>2, <1>3, <1>6, <1>7, <1>8, <1>9, <1>10, Zenon

\* A read returns the blocks as they were when the lock was taken.
LEMMA ReadStep ==
    ASSUME Inv, NEW t \in Callers, LeaveSectors(t), request[t].op = "read"
    PROVE  Promised!Next
<1> DEFINE r == request[t]
           n == frame[t].transferred
<1>1. /\ pc[t] \in InSectors /\ Held /\ r # None
      /\ r.block \in Nat /\ r.nblks \in Nat /\ n \in 0..r.nblks
      /\ r.nblks > 0 /\ r.block + r.nblks <= maxBlock + 1
      /\ up /\ UNCHANGED <<up, maxBlock>> /\ maxBlock \in Nat
      /\ Return(t, IF n = r.nblks THEN "ok" ELSE "error", n, frame[t].buffer)
      /\ Medium' = disk /\ Durable' = stable
  BY LeaveFacts
<1>2. Untouched /\ Prefix(t)
  BY <1>1, Zenon DEF Inv, HolderInv, HolderAt
<1>3. Medium = before.disk /\ Durable = before.stable /\ Medium' = Medium /\ Durable' = Durable
  BY <1>1, <1>2, Zenon DEF Medium, Durable, Untouched
<1>4. frame[t].buffer = [i \in 1..n |-> Medium[r.block + i - 1]]
  BY <1>2, <1>3 DEF Prefix
<1> HIDE DEF n
<1>5. Promised!Answer(t, Promised!Outcome(r, n), n, [i \in 1..n |-> Medium[r.block + i - 1]])
  BY <1>1, <1>4 DEF Return, Promised!Answer, Promised!Outcome
<1>6. Promised!Fits(r)
  BY <1>1 DEF Promised!Fits
<1>7. Promised!Read(t)
  BY <1>1, <1>3, <1>5, <1>6, Zenon DEF Promised!Read, Medium, Durable
<1> QED BY <1>7 DEF Promised!Next

\* What the lock holder wrote, as the block device says it.
LEMMA WrittenFacts ==
    ASSUME Inv, NEW t \in Callers, LeaveSectors(t), request[t].op = "write"
    PROVE  LET r == request[t]
               first == r.block + frame[t].transferred
           IN  \E torn \in SUBSET {b \in first..(first + MaxTransfer - 1) : b < r.block + r.nblks} :
                 Wrote(t, (r.block..(first - 1)) \cup torn)
<1> DEFINE r == request[t]
           n == frame[t].transferred
           first == r.block + n
           tail == {b \in first..(first + MaxTransfer - 1) : b < r.block + r.nblks}
<1>1. pc[t] \in InSectors /\ r.block \in Nat /\ r.nblks \in Nat /\ n \in Nat
  <2>1. pc[t] \in InSectors /\ r.block \in Nat /\ r.nblks \in Nat /\ n \in 0..r.nblks
    BY LeaveFacts
  <2> QED BY ONLY <2>1
<1>2. HolderAt(t)
  BY DEF Inv, HolderInv
<1>3. PICK torn \in SUBSET Undone(t) : Wrote(t, Done(t) \cup torn)
  <2>1. CASE pc[t] = "unlock"
    BY <1>2, <2>1 DEF HolderAt
  <2>2. CASE pc[t] # "unlock"
    <3>1. Wrote(t, Done(t) \cup {})
      BY <1>1, <1>2, <2>2, Zenon DEF HolderAt, InSectors
    <3> QED BY <3>1, Zenon
  <2> QED BY <2>1, <2>2
<1>4. torn \in SUBSET tail
  <2>1. \A b \in Undone(t) : b \in Nat /\ first <= b /\ b < first + MaxTransfer /\ b < r.block + r.nblks
    BY BlocksNat DEF Undone
  <2>2. \A b \in Undone(t) : b \in tail
    <3> HIDE DEF r, n
    <3> QED BY ONLY <1>1, <2>1, BlocksNat
  <2> QED BY <1>3, <2>2
<1>5. \A b \in Blocks : b \in Done(t) <=> b \in r.block..(first - 1)
  <2>1. \A b \in Blocks : b \in Done(t) <=> r.block <= b /\ b < first
    BY DEF Done
  <2> HIDE DEF r, n
  <2> QED BY ONLY <1>1, <2>1, BlocksNat
<1>6. Over(before.disk, r, Done(t) \cup torn) = Over(before.disk, r, (r.block..(first - 1)) \cup torn)
  BY <1>5 DEF Over
<1>7. Wrote(t, (r.block..(first - 1)) \cup torn)
  BY <1>3, <1>6 DEF Wrote
<1> QED BY <1>4, <1>7, Zenon

\* A write leaves what the block device lets it leave.
LEMMA WriteStep ==
    ASSUME Inv, NEW t \in Callers, LeaveSectors(t), request[t].op = "write"
    PROVE  Promised!Next
<1> DEFINE r == request[t]
           n == frame[t].transferred
           first == r.block + n
           tail == {b \in first..(first + MaxTransfer - 1) : b < r.block + r.nblks}
           Put(m, torn) == [b \in Blocks |-> IF b \in (r.block..(first - 1)) \cup torn
                                             THEN Promised!Data(r, b) ELSE m[b]]
<1>1. /\ pc[t] \in InSectors /\ Held /\ r # None
      /\ r.block \in Nat /\ r.nblks \in Nat /\ n \in 0..r.nblks
      /\ r.nblks > 0 /\ r.block + r.nblks <= maxBlock + 1
      /\ up /\ UNCHANGED <<up, maxBlock>> /\ maxBlock \in Nat
      /\ Return(t, IF n = r.nblks THEN "ok" ELSE "error", n, frame[t].buffer)
      /\ Medium' = disk /\ Durable' = stable
  BY LeaveFacts
<1>2. Medium = before.disk /\ Durable = before.stable /\ frame[t].buffer = << >>
  BY <1>1, Zenon DEF Medium, Durable, Inv, HolderInv, HolderAt
<1>3. PICK torn \in SUBSET tail : Wrote(t, (r.block..(first - 1)) \cup torn)
  BY WrittenFacts, Zenon
<1>4. Medium' = Put(Medium, torn)
  BY <1>1, <1>2, <1>3, Zenon DEF Wrote, Over, Promised!Data
<1>5. Durable' \in {Durable, Put(Durable, torn)}
  <2>1. CASE setup.writethrough
    <3>1. stable = disk /\ before.stable = before.disk
      BY <1>1, <2>1 DEF Inv, ThroughInv, Held
    <3> QED BY <1>1, <1>2, <1>4, <3>1
  <2>2. CASE ~setup.writethrough
    BY <1>1, <1>2, <1>3, <2>2, Zenon DEF Wrote
  <2> HIDE DEF Put
  <2> QED BY ONLY <2>1, <2>2, Zenon
<1>6. Promised!Answer(t, Promised!Outcome(r, n), n, << >>)
  BY <1>1, <1>2, Zenon DEF Return, Promised!Answer, Promised!Outcome
<1>7. Promised!Fits(r)
  BY <1>1, Zenon DEF Promised!Fits
<1>8. Promised!Write(t)
  BY <1>1, <1>3, <1>4, <1>5, <1>6, <1>7, ZenonT(40) DEF Promised!Write, Medium, Durable
<1> QED BY <1>8 DEF Promised!Next

\* A block is lost to what it was for sure, or to a write under way.
LEMMA PowerFailsStep == ASSUME Inv, PowerFails PROVE Promised!Next
<1>1. PICK lost \in SUBSET {b \in Blocks : disk[b] # stable[b]} :
        disk' = [b \in Blocks |-> IF b \in lost THEN stable[b] ELSE disk[b]]
  BY DEF PowerFails
<1>2. /\ stable' = disk' /\ ioLock' = None /\ up' = FALSE /\ reply' = NoReply
      /\ request' = [t \in Callers |-> None]
  BY DEF PowerFails
<1>3. Medium' = disk' /\ Durable' = disk' /\ Size' = 0
  BY <1>2 DEF Medium, Durable, Held, Size
<1>4. ASSUME NEW b \in Blocks
      PROVE  \A v \in {disk[b], stable[b]} :
                \/ v \in {Medium[b], Durable[b]}
                \/ \E t \in Callers : /\ request[t] # None
                                      /\ request[t].op = "write"
                                      /\ v = Promised!Data(request[t], b)
  <2>1. CASE ~Held
    BY <2>1 DEF Medium, Durable
  <2>2. CASE Held
    <3>1. PICK t \in Callers : ioLock = t
      BY <2>2 DEF Held, Inv, TypeOK
    <3>2. ThreadAt(t) /\ HolderAt(t) /\ pc[t] \in Holding
      BY <3>1 DEF Inv, ThreadInv, HolderInv, ThreadAt
    <3>3. request[t] # None /\ Medium = before.disk /\ Durable = before.stable
      BY <2>2, <3>2 DEF ThreadAt, Holding, Medium, Durable
    <3>4. CASE Untouched
      BY <3>3, <3>4 DEF Untouched
    <3>5. CASE ~Untouched
      <4>1. request[t].op = "write"
        BY <3>2, <3>5, Zenon DEF HolderAt, ThreadAt, Holding, InSectors
      <4>2. PICK W : Wrote(t, W)
        BY <3>2, <3>5, <4>1, Zenon DEF HolderAt, Holding, InSectors
      <4>3. disk[b] = Promised!Data(request[t], b) \/ disk[b] = Medium[b]
        BY <3>3, <4>2, Zenon DEF Wrote, Over, Promised!Data
      <4>4. stable[b] = disk[b] \/ stable[b] = Durable[b]
        BY <3>3, <4>2 DEF Wrote, Inv, ThroughInv
      <4> QED BY <3>3, <4>1, <4>3, <4>4
    <3> QED BY <3>4, <3>5
  <2> QED BY <2>1, <2>2
<1>5. \A b \in Blocks : Medium'[b] \in {disk[b], stable[b]}
  BY <1>1, <1>3
<1>6. DOMAIN Medium' = Blocks
  BY <1>1, <1>3
<1>7. \A b \in Blocks :
        \/ Medium'[b] \in {Medium[b], Durable[b]}
        \/ \E t \in Callers : /\ request[t] # None
                              /\ request[t].op = "write"
                              /\ Medium'[b] = Promised!Data(request[t], b)
  <2> TAKE b \in Blocks
  <2>1. Medium'[b] \in {disk[b], stable[b]}
    BY ONLY <1>5, b \in Blocks
  <2> QED BY ONLY <1>4, <2>1, b \in Blocks, Zenon
<1>8. Durable' = Medium' /\ reply' = Promised!NoReply
  BY ONLY <1>2, <1>3 DEF NoReply, Promised!NoReply
<1>9. Promised!Lose
  BY ONLY <1>2, <1>3, <1>6, <1>7, <1>8, Zenon DEF Promised!Lose, Medium, Durable, Size
<1> QED BY ONLY <1>9, Zenon DEF Promised!Next

\* Every step of the driver is one of the block device.
LEMMA StepImplements == Inv /\ [Next]_vars => [Promised!Next]_(Promised!vars)
<1> SUFFICES ASSUME Inv, [Next]_vars PROVE [Promised!Next]_(Promised!vars) OBVIOUS
<1>1. CASE UNCHANGED vars
  BY <1>1 DEF vars, driver, drive, Held, Promised!vars
<1>2. CASE Start
  BY <1>2, StartStep
<1>3. CASE PowerFails
  BY <1>3, PowerFailsStep
<1>4. ASSUME NEW t \in Callers, Call(t) \/ Step(t) PROVE Promised!Next
  <2>1. CASE LeaveSectors(t)
    <3>1. request[t].op \in {"read", "write"}
      BY <2>1, LeaveFacts
    <3> QED BY <2>1, <3>1, ReadStep, WriteStep
  <2> QED BY <1>4, <2>1, CallStep, CheckStep, SyncStep, FlushFailsStep, FlushStep, InsideStep,
             EnterStep DEF Step
<1> QED BY <1>1, <1>2, <1>3, <1>4 DEF Next

\* PantheraATAStorage implements the block device: whatever the drive, the
\* callers and their requests, transfers take effect one at a time when
\* _ioLock is given back, the reply counts what was moved, and a successful
\* doSynchronize leaves nothing for a loss of power to take.
THEOREM Implements == Spec => IsBlockDevice
<1>1. Init => Promised!Init
  BY DEF Init, NoReply, Held, Promised!Init, Promised!NoReply
<1> QED BY <1>1, InitInv, NextInv, StepImplements, PTL DEF Spec, IsBlockDevice, Promised!Spec
=============================================================================
