----------------------------- MODULE ATAStorage -----------------------------
(***************************************************************************)
(* PantheraATAStorage, the disk driver above the ATA bus                   *)
(* (PantheraATAStorage.cpp).  Its callers are threads of the storage       *)
(* stack: each runs doAsyncReadWrite or doSynchronize itself.  A transfer  *)
(* is cut into commands of at most MaxTransfer blocks, all of them under   *)
(* _ioLock.  Amounts are in blocks (the code's chunkBytes, transferred and *)
(* actualBytes are that many times _blockSize).                            *)
(*                                                                         *)
(* The drive below is external: it moves the blocks a command names, or    *)
(* fails having moved some of them, and forgets what it had only cached    *)
(* when power is lost.                                                     *)
(***************************************************************************)
EXTENDS Integers, Sequences

CONSTANTS
    Callers,
    Blocks,        \* the block numbers of the largest drive
    Requests,
    Identities,    \* what IDENTIFY may return
    MaxTransfer,   \* kPantheraATAMaxTransferBlocks, 256
    Limit28,       \* the blocks a 28-bit address reaches
    Limit48,       \* and a 48-bit one
    None

ASSUME StorageAssumption ==
    /\ MaxTransfer \in Nat \ {0}
    /\ Limit28 \in Nat
    /\ Limit48 \in Nat
    /\ Blocks \subseteq Nat
    /\ None \notin Callers \cup Requests
    /\ \A r \in Requests :
        /\ r.op \in {"read", "write", "sync"}
        /\ IF r.op = "sync" THEN r.reserved \in BOOLEAN ELSE r.block \in Nat /\ r.nblks \in Nat
    /\ \A d \in Identities :
        /\ d \in [has48 : BOOLEAN, lba48 : Nat, lba28 : Nat]
        /\ {0..(d.lba48 - 1), 0..(d.lba28 - 1)} \subseteq SUBSET Blocks

VARIABLES
    up,         \* start() has registered the service
    maxBlock,   \* _maxBlock
    supports48, \* _supports48Bit
    setup,      \* how the machine is run: panthera_ata_noflush and the cache mode
    ioLock,     \* the thread that holds _ioLock, or None
    pc,         \* where each thread is
    request,    \* its arguments
    frame,      \* its locals in executeSectors, and the blocks it has read
    reply,      \* what the step just taken returned to a caller, if it did
    disk,       \* the blocks, as a read sees them
    stable,     \* the blocks, as they are on the platter
    before      \* history: disk and stable when ioLock was taken, while it is held

driver == <<up, maxBlock, supports48, setup>>
drive  == <<disk, stable>>
vars   == <<driver, ioLock, pc, request, frame, reply, drive, before>>

\* A status is success, kIOReturnBadArgument for a request that is refused at
\* once, or any failure on the way.
Statuses == {"ok", "badargument", "error"}

NoReply == [to |-> None, status |-> "none", actual |-> 0, data |-> << >>]

\* The locals of executeSectors as it begins.
FrameOf(nblks, block) ==
    [remaining |-> nblks, currentBlock |-> block, transferred |-> 0, status |-> "ok",
     command |-> None, buffer |-> << >>]

NoFrame == FrameOf(0, 0)

\* The boot arguments and the image QEMU is given: either the host writes
\* through, or the guest's flushes are not suppressed.
Setups == {s \in [writethrough : BOOLEAN, noflush : BOOLEAN] : s.writethrough \/ ~s.noflush}

Init ==
    /\ up = FALSE
    /\ maxBlock = 0
    /\ supports48 = FALSE
    /\ setup \in Setups
    /\ ioLock = None
    /\ pc = [t \in Callers |-> "idle"]
    /\ request = [t \in Callers |-> None]
    /\ frame = [t \in Callers |-> NoFrame]
    /\ reply = NoReply
    /\ disk = [b \in Blocks |-> None]
    /\ stable = disk
    /\ before = None

-----------------------------------------------------------------------------
\* identifyDevice: the 48-bit capacity if the drive gives one, else the
\* 28-bit one.  A drive of no blocks is not registered.
Sectors(d) == IF d.has48 /\ d.lba48 # 0 THEN d.lba48 ELSE d.lba28

\* The step returns to no caller.
Silent == reply' = NoReply

Start ==
    /\ ~up
    /\ \E d \in Identities :
        /\ Sectors(d) # 0
        /\ maxBlock' = Sectors(d) - 1
        /\ supports48' = d.has48
    /\ up' = TRUE
    /\ Silent
    /\ UNCHANGED <<setup, ioLock, pc, request, frame, drive, before>>

Goto(t, label) == pc' = [pc EXCEPT ![t] = label]

\* The call returns, or completes.
Return(t, status, actual, data) ==
    /\ Goto(t, "idle")
    /\ request' = [request EXCEPT ![t] = None]
    /\ reply' = [to |-> t, status |-> status, actual |-> actual, data |-> data]

\* A caller enters doAsyncReadWrite or doSynchronize.
Call(t) ==
    /\ up
    /\ pc[t] = "idle"
    /\ \E r \in Requests :
        /\ request' = [request EXCEPT ![t] = r]
        /\ Goto(t, IF r.op = "sync" THEN "sync" ELSE "check")
    /\ Silent
    /\ UNCHANGED <<driver, ioLock, frame, drive, before>>

\* Faulty variant: the lock does not exclude.
LockShared(t) ==
    /\ ioLock' = t
    /\ before' = [disk |-> disk, stable |-> stable]

\* _ioLock is taken.
Lock(t) ==
    /\ ioLock = None
    /\ ioLock' = t
    /\ before' = [disk |-> disk, stable |-> stable]

Unlock == ioLock' = None /\ before' = None

-----------------------------------------------------------------------------
\* doAsyncReadWrite.  The UInt64 sum is taken only of a block of the drive, so it
\* would wrap only for a count near 2^64, which no buffer has.
OutOfRange(r) ==
    \/ r.nblks = 0
    \/ r.block > maxBlock
    \/ r.block + r.nblks - 1 > maxBlock

Check(t) ==
    /\ pc[t] = "check"
    /\ \/ /\ OutOfRange(request[t])
          /\ Return(t, "badargument", 0, << >>)
       \/ /\ ~OutOfRange(request[t])
          /\ Goto(t, "lock")
          /\ UNCHANGED request
          /\ Silent
    /\ UNCHANGED <<driver, ioLock, frame, drive, before>>

\* executeSectors begins.
EnterSectors(t) ==
    /\ pc[t] = "lock"
    /\ Lock(t)
    /\ Goto(t, "loop")
    /\ frame' = [frame EXCEPT ![t] = FrameOf(request[t].nblks, request[t].block)]
    /\ Silent
    /\ UNCHANGED <<driver, request, drive>>

\* Faulty variant: the last chunk is not cut to what remains.
ChunkFull(n) == MaxTransfer

Chunk(n) == IF n > MaxTransfer THEN MaxTransfer ELSE n

\* The sector count register: 8 bits, or 16 of an extended command.
SectorCount(n) == IF ~supports48 /\ n = MaxTransfer THEN 0 ELSE n

Unaddressable(b) == b >= IF supports48 THEN Limit48 ELSE Limit28

\* The position of a chunk in the caller's buffer.
ChunkPosition(f) == f.transferred

\* The head of the loop, until the command is filled in.
Prepare(t) ==
    LET f == frame[t]
    IN  /\ pc[t] = "loop"
        /\ f.remaining > 0
        /\ ~Unaddressable(f.currentBlock)
        /\ frame' = [frame EXCEPT ![t].command =
                [lba      |-> f.currentBlock,
                 count    |-> SectorCount(Chunk(f.remaining)),
                 blocks   |-> Chunk(f.remaining),
                 position |-> ChunkPosition(f)]]
        /\ Goto(t, "execute")
        /\ Silent
        /\ UNCHANGED <<driver, ioLock, request, drive, before>>

\* No command is to be had, or the address does not fit one (which is then
\* the only way on).
PrepareFails(t) ==
    /\ pc[t] = "loop"
    /\ frame[t].remaining > 0
    /\ frame' = [frame EXCEPT ![t].status = "error"]
    /\ Goto(t, "unlock")
    /\ Silent
    /\ UNCHANGED <<driver, ioLock, request, drive, before>>

-----------------------------------------------------------------------------
\* The drive.  A count of 0 in the 8-bit register stands for MaxTransfer.
DriveCount(c) == IF ~supports48 /\ c.count = 0 THEN MaxTransfer ELSE c.count

Named(c) == {b \in Blocks : c.lba <= b /\ b < c.lba + DriveCount(c)}

\* It takes the blocks bs of a write, through to the platter if the host is
\* told so.
Store(r, c, bs) ==
    LET Put(m) == [b \in Blocks |-> IF b \in bs THEN <<r.tag, c.position + b - c.lba>> ELSE m[b]]
    IN  /\ disk' = Put(disk)
        /\ stable' = IF setup.writethrough THEN Put(stable) ELSE stable

\* What a read puts in the caller's buffer, from the command's position on.
Fetched(buffer, c) ==
    [i \in 1..(c.position + DriveCount(c)) |->
        IF i > c.position THEN disk[c.lba + i - c.position - 1]
        ELSE buffer[i]]

\* The command succeeds, and the loop goes on.
Execute(t) ==
    LET f == frame[t]
        c == f.command
    IN  /\ pc[t] = "execute"
        /\ \/ /\ request[t].op = "write"
              /\ Store(request[t], c, Named(c))
           \/ /\ request[t].op = "read"
              /\ UNCHANGED drive
        /\ frame' = [frame EXCEPT ![t] =
                [f EXCEPT !.transferred = @ + c.blocks,
                          !.currentBlock = @ + c.blocks,
                          !.remaining = @ - c.blocks,
                          !.command = None,
                          !.buffer = IF request[t].op = "read" THEN Fetched(@, c) ELSE @]]
        /\ Goto(t, "loop")
        /\ Silent
        /\ UNCHANGED <<driver, ioLock, request, before>>

\* The command fails: the loop is left, with what it had transferred before.
ExecuteFails(t) ==
    LET c == frame[t].command
    IN  /\ pc[t] = "execute"
        /\ \/ /\ request[t].op = "write"
              /\ \E bs \in SUBSET Named(c) : Store(request[t], c, bs)
           \/ /\ request[t].op = "read"
              /\ UNCHANGED drive
        /\ frame' = [frame EXCEPT ![t].status = "error", ![t].command = None]
        /\ Goto(t, "unlock")
        /\ Silent
        /\ UNCHANGED <<driver, ioLock, request, before>>

\* The end of executeSectors and of doAsyncReadWrite.
LeaveSectors(t) ==
    LET f == frame[t]
    IN  /\ \/ pc[t] = "loop" /\ f.remaining = 0
           \/ pc[t] = "unlock"
        /\ Unlock
        /\ Return(t, f.status, f.transferred, f.buffer)
        /\ frame' = [frame EXCEPT ![t] = NoFrame]
        /\ UNCHANGED <<driver, drive>>

-----------------------------------------------------------------------------
\* doSynchronize: flushCache only if panthera_ata_noflush is explicitly 0.
Sync(t) ==
    /\ pc[t] = "sync"
    /\ \/ /\ request[t].reserved
          /\ Return(t, "badargument", 0, << >>)
       \/ /\ ~request[t].reserved
          /\ setup.noflush
          /\ Return(t, "ok", 0, << >>)
       \/ /\ ~request[t].reserved
          /\ ~setup.noflush
          /\ Goto(t, "flush")
          /\ UNCHANGED request
          /\ Silent
    /\ UNCHANGED <<driver, ioLock, frame, drive, before>>

\* flushCache, up to the lock: no command is to be had.
FlushFails(t) ==
    /\ pc[t] = "flush"
    /\ Return(t, "error", 0, << >>)
    /\ UNCHANGED <<driver, ioLock, frame, drive, before>>

EnterFlush(t) ==
    /\ pc[t] = "flush"
    /\ Lock(t)
    /\ Goto(t, "flushing")
    /\ Silent
    /\ UNCHANGED <<driver, request, frame, drive>>

\* Faulty variant: a flush that fails returns without giving the lock back.
FlushHeld(t) ==
    /\ pc[t] = "flushing"
    /\ \/ /\ stable' = disk
          /\ Return(t, "ok", 0, << >>)
          /\ Unlock
       \/ /\ UNCHANGED <<stable, ioLock, before>>
          /\ Return(t, "error", 0, << >>)
    /\ UNCHANGED <<driver, frame, disk>>

\* FLUSH CACHE is executed and the lock released.
Flush(t) ==
    /\ pc[t] = "flushing"
    /\ \/ /\ stable' = disk
          /\ Return(t, "ok", 0, << >>)
       \/ /\ UNCHANGED stable
          /\ Return(t, "error", 0, << >>)
    /\ Unlock
    /\ UNCHANGED <<driver, frame, disk>>

-----------------------------------------------------------------------------
\* Power is lost: a block is as it was on the platter, or, if the drive had
\* got so far, as it was last written.  The driver starts anew.
PowerFails ==
    /\ up
    /\ \E lost \in SUBSET {b \in Blocks : disk[b] # stable[b]} :
        disk' = [b \in Blocks |-> IF b \in lost THEN stable[b] ELSE disk[b]]
    /\ stable' = disk'
    /\ before' = None
    /\ up' = FALSE
    /\ maxBlock' = 0
    /\ supports48' = FALSE
    /\ ioLock' = None
    /\ pc' = [t \in Callers |-> "idle"]
    /\ request' = [t \in Callers |-> None]
    /\ frame' = [t \in Callers |-> NoFrame]
    /\ reply' = NoReply
    /\ UNCHANGED setup

\* A thread goes on with its call.
Step(t) ==
    \/ Check(t) \/ EnterSectors(t) \/ Prepare(t) \/ PrepareFails(t)
    \/ Execute(t) \/ ExecuteFails(t) \/ LeaveSectors(t)
    \/ Sync(t) \/ FlushFails(t) \/ EnterFlush(t) \/ Flush(t)

Next ==
    \/ Start
    \/ PowerFails
    \/ \E t \in Callers : Call(t) \/ Step(t)

Spec == Init /\ [][Next]_vars

\* Threads are scheduled, and the bus answers every command.
FairSpec == Spec /\ \A t \in Callers : WF_vars(Step(t))

-----------------------------------------------------------------------------
\* A block holds None, or some block of the buffer of a write.
Tags == {r.tag : r \in {x \in Requests : x.op # "sync"}}
Values == {None} \cup (Tags \X Int)
Contents == [Blocks -> Values]

Command == [lba : Nat, count : Nat, blocks : Nat, position : Nat]
Frame == [remaining : Nat, currentBlock : Nat, transferred : Nat, status : Statuses,
          command : {None} \cup Command, buffer : Seq(Values)]
Label == {"idle", "check", "lock", "loop", "execute", "unlock", "sync", "flush", "flushing"}

\* Every variable has its type.  In particular the unsigned remaining of
\* executeSectors never falls below zero, which would keep the loop going.
TypeOK ==
    /\ up \in BOOLEAN
    /\ maxBlock \in Nat
    /\ supports48 \in BOOLEAN
    /\ setup \in Setups
    /\ ioLock \in Callers \cup {None}
    /\ pc \in [Callers -> Label]
    /\ request \in [Callers -> Requests \cup {None}]
    /\ frame \in [Callers -> Frame]
    /\ reply.status \in Statuses \cup {"none"}
    /\ disk \in Contents
    /\ stable \in Contents
    /\ before \in {None} \cup [disk : Contents, stable : Contents]

\* What callers see is a block device whose requests happen one at a time, at
\* the moment _ioLock is given back: a transfer of several commands is never
\* seen half done by another caller, the reply counts the blocks that were
\* moved and no others, and a successful synchronize leaves nothing that a
\* loss of power can take away.
Held == ioLock # None

Promised == INSTANCE BlockDevice WITH
    size <- IF up THEN maxBlock + 1 ELSE 0,
    medium <- IF Held THEN before.disk ELSE disk,
    durable <- IF Held THEN before.stable ELSE stable

IsBlockDevice == Promised!Spec

\* Whoever takes _ioLock gives it back, on every way out of executeSectors
\* and flushCache.
LockIsReleased == Held ~> ~Held
=============================================================================
