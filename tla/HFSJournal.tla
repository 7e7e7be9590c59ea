---------------------------- MODULE HFSJournal ----------------------------
(***************************************************************************)
(* The HFS metadata journal (hfs_journal.c).  Threads of the file system   *)
(* change blocks inside transactions, which are gathered in groups.  A     *)
(* group is written to the circular journal, then the journal header, then *)
(* the blocks in their own places; its space is taken back only when a     *)
(* later group needs it.  The machine may crash between any two of these   *)
(* steps, and journal_open replays what the journal then holds.            *)
(*                                                                         *)
(* The disk is external: it stores a unit whole, and holds writes in a     *)
(* cache until it is told to synchronize, or writes through, as it does    *)
(* with JOURNAL_DO_FUA_WRITES.  A checksum is the content it is computed   *)
(* from.                                                                   *)
(***************************************************************************)
EXTENDS JournalRing, Sequences, FiniteSets

CONSTANTS
    Threads,
    Blocks,        \* metadata blocks
    PerHeader,     \* the blocks one block_list_header lists
    OldStarts,     \* the length of old_start[]
    FlushAt,       \* a group of this many blocks is not kept for group commit
    Setups,        \* whether the disk caches writes, the calls each thread makes,
                   \* and bounds: groups, blocks of a group, crashes, failing writes
    KillsAll,      \* whether journal_kill_block may empty a group
    None

VARIABLES
    mode,     \* "up", "down", "replay", or "refused" by journal_open
    thread,   \* where each thread is, and its arguments and locals
    jnl,      \* struct journal
    finish,   \* the locals of finish_end_transaction
    home,     \* the group whose blocks are being written in their places
    disk,     \* the journal on the disk
    fs,       \* the metadata blocks in their places
    redo,     \* what replay_journal has still to write
    setup,
    hist,     \* history: the groups submitted that a mount may find
    applied,  \* history: how many of them have taken effect
    acked,    \* history: the last group a return of journal_end_transaction or
              \* journal_flush has vouched for, by the path it took
    budget    \* groups, crashes and failures so far

vars == <<mode, thread, jnl, finish, home, disk, fs, redo, setup, hist, applied, acked, budget>>
history == <<hist, applied, acked>>

-----------------------------------------------------------------------------
\* A group: its number, its sequence number and the blocks it lists; a
\* killed block keeps its room.
Group(id, seq) == [id |-> id, seq |-> seq, list |-> << >>]

Listed(tr)  == {tr.list[i].block : i \in {k \in DOMAIN tr.list : tr.list[k].live}}
Headers(tr) == IF tr.list = << >> THEN 1 ELSE (Len(tr.list) + PerHeader - 1) \div PerHeader
Total(tr)   == Headers(tr) + Len(tr.list)

\* The journal holds block list headers, each followed by the blocks it
\* lists.  The header of a block that was killed has no checksum.
ListHeader(tr, k) ==
    LET first == (k - 1) * PerHeader + 1
        last  == IF k * PerHeader < Len(tr.list) THEN k * PerHeader ELSE Len(tr.list)
    IN  [kind |-> "list", seq |-> tr.seq, first |-> k = 1, id |-> tr.id,
         list |-> SubSeq(tr.list, first, last)]

Data(tr, e) == [kind |-> "data", block |-> e.block, id |-> tr.id]

\* The units of a group in the order finish_end_transaction writes them.
Layout(tr) ==
    [i \in 1..Total(tr) |->
        LET k == (i - 1) \div (PerHeader + 1) + 1
            n == (i - 1) % (PerHeader + 1)
        IN  IF n = 0 THEN ListHeader(tr, k) ELSE Data(tr, tr.list[(k - 1) * PerHeader + n])]

JournalHeader(start, end, seq) == [kind |-> "jhdr", start |-> start, end |-> end, seq |-> seq]

NoJournal ==
    [owner |-> None, nested |-> 0, active |-> None, cur |-> None,
     start |-> 1, end |-> 1, activeStart |-> 1, oldStart |-> [i \in 1..OldStarts |-> None],
     completed |-> {}, seq |-> 0, saved |-> 0, delayed |-> FALSE,
     flushing |-> FALSE, asyncIO |-> FALSE, writing |-> FALSE, headerFailed |-> FALSE,
     aborted |-> FALSE, invalid |-> FALSE]

Idle     == [pc |-> "idle", call |-> "none", io |-> FALSE, tr |-> None, want |-> 0]
NoFinish == [step |-> "none", tr |-> None, by |-> None, start |-> 1, written |-> 0]
NoHome   == [tr |-> None, start |-> 1, end |-> 1, left |-> {}]
NoRedo   == [left |-> {}, value |-> << >>, end |-> 1]

\* journal_create.
Init ==
    /\ mode = "up"
    /\ thread = [t \in Threads |-> Idle]
    /\ jnl = NoJournal
    /\ finish = NoFinish
    /\ home = NoHome
    /\ disk = [now |-> [u \in 0..(Size - 1) |-> IF u = 0 THEN JournalHeader(1, 1, 0)
                                                ELSE [kind |-> "junk"]],
               old |-> [u \in 0..(Size - 1) |-> {}]]
    /\ fs = [b \in Blocks |-> 0]
    /\ redo = NoRedo
    /\ setup \in Setups
    /\ hist = << >>
    /\ applied = 0
    /\ acked = [end |-> 0, flush |-> 0, empty |-> 0, failed |-> 0]
    /\ budget = [groups |-> 0, crashes |-> 0, failures |-> 0]

-----------------------------------------------------------------------------
\* do_journal_io: a unit is written, at once or into the disk's cache.
Written(d, unit, x) ==
    [now |-> [d.now EXCEPT ![unit] = x],
     old |-> IF setup.cached THEN [d.old EXCEPT ![unit] = @ \cup {d.now[unit]}] ELSE d.old]

\* DKIOCSYNCHRONIZE, which succeeds.  The code goes on if it does not, and on a
\* disk that caches HeaderDescribesLog is then lost.
Synchronized(d) == [d EXCEPT !.old = [u \in 0..(Size - 1) |-> {}]]

\* Faulty variant: the new start may stay in the disk's cache.
StartWrittenLazily(d, h) == Written(d, 0, h)

\* write_journal_header, when it moves the start: the header is on the disk
\* before any later write to the journal.
StartWritten(d, h) == Synchronized(Written(d, 0, h))

\* and when it moves the end: what the header speaks of is there before it.
EndWritten(d, h) == Written(Synchronized(d), 0, h)

HeaderNow == JournalHeader(jnl.start, jnl.end, jnl.saved)

-----------------------------------------------------------------------------
\* replay_journal over what the disk holds; table is what co_buf stands for.
BadTransaction(s) ==
    IF s.txn = 0 \/ s.retries = 3
    THEN [s EXCEPT !.result = "bad"]
    ELSE [s EXCEPT !.retries = @ + 1, !.start = s.first, !.end = s.txn, !.past = FALSE,
                   !.last = 0, !.table = [b \in Blocks |-> None]]

\* The blocks of a list header match their checksums.
Intact(units, at, h) ==
    \A i \in DOMAIN h.list :
        h.list[i].live =>
            units[UnitAt(at, i)] = [kind |-> "data", block |-> h.list[i].block, id |-> h.id]

\* add_block for each of them; what is put in place later is what was compared.
Coalesced(table, h) ==
    [b \in Blocks |->
        IF \E i \in DOMAIN h.list : h.list[i].live /\ h.list[i].block = b THEN h.id ELSE table[b]]

ReplayOne(units, s) ==
    LET h    == units[s.start]
        next == Place(Advance(s.start, 1 + Len(h.list)))
        here == [s EXCEPT !.last = h.seq, !.txn = IF h.first THEN s.start ELSE @]
    IN  IF h.kind # "list"
        THEN IF s.past /\ s.uncharted
             THEN [s EXCEPT !.past = FALSE, !.end = s.start]
             ELSE IF s.start = s.first THEN [s EXCEPT !.result = "bad"]
             ELSE BadTransaction(s)
        ELSE IF s.last # 0 /\ h.seq # s.last /\ h.seq # s.last + 1
        THEN IF s.past
             THEN [s EXCEPT !.txn = s.start, !.end = s.start, !.past = FALSE]
             ELSE BadTransaction([s EXCEPT !.txn = s.start, !.end = s.start])
        ELSE IF ~Intact(units, s.start, h) THEN BadTransaction(here)
        ELSE [here EXCEPT !.table = Coalesced(@, h), !.start = next,
                          !.uncharted = @ \/ next = s.end]

\* The locals of replay_journal.
Replays ==
    [result : {"running", "done", "empty", "bad"}, start : Units, end : Units,
     first : Units, txn : 0..(Size - 1), last : Nat, past : BOOLEAN, uncharted : BOOLEAN,
     retries : 0..3, table : [Blocks -> Nat \cup {None}]]

ReplayFrom(units, beginning) ==
    LET Loop[s \in Replays] ==
            IF s.result # "running" THEN s
            ELSE IF ~s.past /\ s.start = s.end THEN [s EXCEPT !.result = "done"]
            ELSE Loop[ReplayOne(units, s)]
    IN  Loop[beginning]

Beginning(units) ==
    LET start == Place(units[0].start)
        end   == Place(units[0].end)
    IN  [result |-> IF start = end THEN "empty" ELSE "running",
         start |-> start, end |-> end, first |-> start, txn |-> 0, last |-> 0,
         past |-> TRUE, uncharted |-> FALSE, retries |-> 0,
         table |-> [b \in Blocks |-> None]]

Replay(units) == ReplayFrom(units, Beginning(units))

\* The metadata after a replay; None if the mount is refused.
Recovered(units, blocks) ==
    LET Redone[r \in Replays] ==
            IF r.result = "bad" THEN None
            ELSE [b \in Blocks |-> IF r.table[b] = None THEN blocks[b] ELSE r.table[b]]
    IN  Redone[Replay(units)]

-----------------------------------------------------------------------------
At(t, pc)     == mode = "up" /\ thread[t].pc = pc
Goto(t, pc)   == thread' = [thread EXCEPT ![t].pc = pc]
Return(t)     == thread' = [thread EXCEPT ![t] = Idle]

\* A write to the journal, or what is to be written, fails.  During journal_close, whose end_transaction
\* keeps the lock, a failing flush would wait for its own thread: left out.
CanFail == budget.failures < setup.failures /\ \A t \in Threads : thread[t].call # "close"
Failed  == budget' = [budget EXCEPT !.failures = @ + 1]

\* journal_start_transaction.  The journal may become invalid while the
\* thread waits for the lock.
StartCalled(t) ==
    /\ At(t, "idle")
    /\ "start" \in setup.calls[t]
    /\ ~jnl.invalid
    /\ Goto(t, "start")
    /\ UNCHANGED <<mode, jnl, finish, home, disk, fs, redo, setup, history, budget>>

\* A buffered group is continued; else journal_allocate_transaction.
Start(t) ==
    /\ At(t, "start")
    /\ jnl.owner = None
    /\ Goto(t, "tr")
    /\ \/ /\ jnl.cur # None
          /\ jnl' = [jnl EXCEPT !.owner = t, !.nested = 1, !.active = jnl.cur, !.cur = None]
          /\ UNCHANGED budget
       \/ /\ jnl.cur = None
          /\ budget.groups < setup.groups
          /\ budget' = [budget EXCEPT !.groups = @ + 1]
          /\ jnl' = [jnl EXCEPT !.owner = t, !.nested = 1, !.seq = @ + 1,
                                !.active = Group(budget'.groups, jnl.seq + 1)]
    /\ UNCHANGED <<mode, finish, home, disk, fs, redo, setup, history>>

StartNested(t) ==
    /\ At(t, "tr")
    /\ ~jnl.invalid
    /\ "nest" \in setup.calls[t] /\ jnl.nested = 1
    /\ jnl' = [jnl EXCEPT !.nested = @ + 1]
    /\ UNCHANGED <<mode, thread, finish, home, disk, fs, redo, setup, history, budget>>

\* journal_modify_block_start and journal_modify_block_end, for a block that
\* is not yet part of the group.  A group as large as the journal is a panic.
ModifyBlock(t, b) ==
    /\ At(t, "tr")
    /\ ~jnl.invalid
    /\ b \notin Listed(jnl.active)
    /\ Len(jnl.active.list) < setup.blocks
    /\ Total(jnl.active) + 1 < Size - 1
    /\ jnl' = [jnl EXCEPT !.active.list = Append(@, [block |-> b, live |-> TRUE])]
    /\ UNCHANGED <<mode, thread, finish, home, disk, fs, redo, setup, history, budget>>

\* journal_modify_block_end cannot get a reference to the vnode of the block.
ModifyBlockFails(t) ==
    /\ At(t, "tr")
    /\ ~jnl.invalid
    /\ CanFail
    /\ Failed
    /\ jnl' = [jnl EXCEPT !.invalid = TRUE]
    /\ UNCHANGED <<mode, thread, finish, home, disk, fs, redo, setup, history>>

\* journal_kill_block.
Without(tr, b) ==
    [tr EXCEPT !.list = [i \in DOMAIN tr.list |->
        [tr.list[i] EXCEPT !.live = @ /\ tr.list[i].block # b]]]

KillBlock(t, b) ==
    /\ At(t, "tr")
    /\ "kill" \in setup.calls[t]
    /\ ~jnl.invalid
    /\ b \in Listed(jnl.active)
    /\ KillsAll \/ Listed(jnl.active) # {b}
    /\ jnl' = [jnl EXCEPT !.active = Without(@, b)]
    /\ UNCHANGED <<mode, thread, finish, home, disk, fs, redo, setup, history, budget>>

\* end_transaction keeps the group for the next transaction.
Kept(tr, force) == tr.list = << >> \/ (~force /\ Len(tr.list) < FlushAt)

\* The outermost journal_end_transaction, whose group may ask for an immediate
\* flush.
EndTransaction(t, force) ==
    /\ At(t, "tr")
    /\ force => "force" \in setup.calls[t]
    /\ jnl.nested = 1
    /\ \/ /\ jnl.invalid
          /\ jnl' = [jnl EXCEPT !.nested = 0, !.active = None, !.owner = None]
          /\ Return(t)
       \/ /\ ~jnl.invalid
          /\ Kept(jnl.active, force)
          /\ jnl' = [jnl EXCEPT !.nested = 0, !.active = None, !.cur = jnl.active, !.owner = None]
          /\ Return(t)
       \/ /\ ~jnl.invalid
          /\ ~Kept(jnl.active, force)
          /\ jnl' = [jnl EXCEPT !.nested = 0, !.active = None]
          /\ thread' = [thread EXCEPT ![t] = [pc |-> "end", call |-> "end", io |-> force,
                                              tr |-> jnl.active, want |-> 0]]
    /\ UNCHANGED <<mode, finish, home, disk, fs, redo, setup, history, budget>>

EndNested(t) ==
    /\ At(t, "tr")
    /\ jnl.nested > 1
    /\ jnl' = [jnl EXCEPT !.nested = @ - 1]
    /\ UNCHANGED <<mode, thread, finish, home, disk, fs, redo, setup, history, budget>>

-----------------------------------------------------------------------------
\* Where a thread goes when its end_transaction returns.
Resume(th) ==
    CASE th.call = "end"   -> Idle
      [] th.call = "flush" -> [th EXCEPT !.pc = "drain", !.tr = None]
      [] th.call = "close" -> [th EXCEPT !.pc = "settle", !.tr = None]

\* end_transaction once it has the condition flushing.  The flush it waited
\* for may have failed.
BeginFlush(t) ==
    /\ At(t, "end")
    /\ ~jnl.flushing
    /\ \/ /\ jnl.invalid \/ jnl.aborted
          /\ jnl' = [jnl EXCEPT !.owner = IF thread[t].call = "close" THEN t ELSE None]
          /\ thread' = [thread EXCEPT ![t] = Resume(@)]
       \/ /\ ~jnl.invalid /\ ~jnl.aborted
          /\ jnl' = [jnl EXCEPT !.flushing = TRUE, !.saved = jnl.seq, !.delayed = FALSE]
          /\ Goto(t, "room")
    /\ UNCHANGED <<mode, finish, home, disk, fs, redo, setup, history, budget>>

HasRoom(tr) == FreeSpace(jnl.start, jnl.end) > Total(tr) /\ jnl.oldStart[1] = None

\* The entries of old_start that are in use.
Entries == {i \in 1..OldStarts : jnl.oldStart[i] # None}

\* check_free_space consumes the first entry, once its group is in place.
BumpStart(t) ==
    /\ At(t, "room")
    /\ ~HasRoom(thread[t].tr)
    /\ \E i \in Entries :
        /\ \A k \in Entries : i <= k
        /\ ~jnl.oldStart[i].busy
        /\ LET start == jnl.oldStart[i].at
           IN  jnl' = [jnl EXCEPT !.start = start, !.oldStart[i] = None,
                           !.delayed = @ \/ FreeSpace(start, jnl.end) > Total(thread[t].tr)]
    /\ UNCHANGED <<mode, thread, finish, home, disk, fs, redo, setup, history, budget>>

\* When there is none, everything before active_start can go.
BumpToActive(t) ==
    /\ At(t, "room")
    /\ ~HasRoom(thread[t].tr)
    /\ Entries = {}
    /\ jnl' = [jnl EXCEPT !.start = jnl.activeStart, !.delayed = TRUE]
    /\ UNCHANGED <<mode, thread, finish, home, disk, fs, redo, setup, history, budget>>

\* The rest of end_transaction: a header with the new start is sent off, the
\* group takes its place, its blocks are copied, and the lock is dropped
\* (except by journal_close).
TakePlace(t) ==
    LET th == thread[t]
    IN  /\ At(t, "room")
        /\ HasRoom(th.tr)
        /\ jnl' = [jnl EXCEPT
                !.writing = jnl.delayed,
                !.headerFailed = jnl.delayed /\ @,
                !.oldStart = [i \in 1..OldStarts |->
                    IF i < OldStarts THEN jnl.oldStart[i + 1] ELSE [at |-> jnl.end, busy |-> TRUE]],
                !.owner = IF th.call = "close" THEN t ELSE None]
        /\ finish' = [step |-> "log", tr |-> th.tr, by |-> IF th.io \/ th.call # "end" THEN t ELSE None,
                      start |-> jnl.end, written |-> 0]
        /\ hist' = Append(hist, [id |-> th.tr.id, blocks |-> Listed(th.tr)])
        /\ IF th.call = "end" /\ ~th.io THEN Return(t) ELSE Goto(t, "sync")
        /\ UNCHANGED <<mode, home, disk, fs, redo, setup, applied, acked, budget>>
-----------------------------------------------------------------------------
\* write_header_thread.
WriteStart ==
    /\ mode = "up"
    /\ jnl.writing
    /\ disk' = StartWritten(disk, HeaderNow)
    /\ jnl' = [jnl EXCEPT !.writing = FALSE, !.headerFailed = FALSE]
    /\ UNCHANGED <<mode, thread, finish, home, fs, redo, setup, history, budget>>

WriteStartFails ==
    /\ mode = "up"
    /\ jnl.writing
    /\ CanFail
    /\ Failed
    /\ jnl' = [jnl EXCEPT !.writing = FALSE, !.headerFailed = TRUE, !.invalid = TRUE]
    /\ UNCHANGED <<mode, thread, finish, home, disk, fs, redo, setup, history>>

\* The group can be read back: all of it that counts is there.
Legible(units) ==
    \A k \in 1..Headers(finish.tr) :
        LET at == UnitAt(finish.start, (k - 1) * (PerHeader + 1))
        IN  /\ units[at] = ListHeader(finish.tr, k)
            /\ Intact(units, at, ListHeader(finish.tr, k))

\* finish_end_transaction waits for that header, and writes the group.  If the
\* journal is not empty, a mount would find the group as soon as it is legible.
WriteLog ==
    LET n == finish.written
        d == Written(disk, UnitAt(finish.start, n), Layout(finish.tr)[n + 1])
    IN  /\ mode = "up"
        /\ finish.step = "log"
        /\ ~jnl.writing
        /\ ~jnl.headerFailed
        /\ n < Total(finish.tr)
        /\ disk' = d
        /\ finish' = [finish EXCEPT !.written = n + 1]
        /\ applied' = IF Place(d.now[0].start) # Place(d.now[0].end) /\ Legible(d.now)
                      THEN Len(hist) ELSE applied
        /\ UNCHANGED <<mode, thread, jnl, home, fs, redo, setup, hist, acked, budget>>

\* bad_journal: that header, a write of the group, or, before the wait for that
\* header, finding the place of a block that is listed.
WriteLogFails ==
    /\ mode = "up"
    /\ finish.step = "log"
    /\ finish' = [finish EXCEPT !.step = "abort"]
    /\ \/ /\ ~jnl.writing
          /\ jnl.headerFailed
          /\ UNCHANGED budget
       \/ /\ jnl.writing => finish.written % (PerHeader + 1) = 0
          /\ ~jnl.headerFailed
          /\ CanFail
          /\ Failed
    /\ UNCHANGED <<mode, thread, jnl, home, disk, fs, redo, setup, history>>

\* Faulty variant: the end is not wrapped.
LogEndUnwrapped == finish.start + Total(finish.tr)

LogEnd == Advance(finish.start, Total(finish.tr))

\* The group is all there: the header gets its end.
Commit ==
    /\ mode = "up"
    /\ finish.step = "log"
    /\ finish.written = Total(finish.tr)
    /\ jnl' = [jnl EXCEPT !.end = LogEnd]
    /\ disk' = EndWritten(disk, JournalHeader(jnl.start, LogEnd, jnl.saved))
    /\ finish' = [finish EXCEPT !.step = "home"]
    /\ applied' = Len(hist)
    /\ UNCHANGED <<mode, thread, home, fs, redo, setup, hist, acked, budget>>

CommitFails ==
    /\ mode = "up"
    /\ finish.step = "log"
    /\ finish.written = Total(finish.tr)
    /\ CanFail
    /\ Failed
    /\ jnl' = [jnl EXCEPT !.end = LogEnd, !.invalid = TRUE]
    /\ finish' = [finish EXCEPT !.step = "abort"]
    /\ UNCHANGED <<mode, thread, home, disk, fs, redo, setup, history>>

\* finish_end_transaction returns to a thread that waits for it.
Awaited(by) ==
    thread' = IF by = None THEN thread ELSE [thread EXCEPT ![by] = Resume(@)]

Vouch(how, id) == acked' = [acked EXCEPT ![how] = IF id > @ THEN id ELSE @]

\* Once the last group is in place, the blocks of this one are sent off.
SendHome ==
    /\ mode = "up"
    /\ finish.step = "home"
    /\ ~jnl.asyncIO
    /\ home' = IF Listed(finish.tr) = {} THEN home
               ELSE [tr |-> finish.tr, start |-> finish.start, end |-> jnl.end,
                     left |-> Listed(finish.tr)]
    /\ jnl' = [jnl EXCEPT !.flushing = FALSE, !.asyncIO = Listed(finish.tr) # {}]
    /\ Awaited(finish.by)
    /\ IF finish.by # None /\ thread[finish.by].call = "end"
       THEN Vouch("end", finish.tr.id) ELSE UNCHANGED acked
    /\ finish' = NoFinish
    /\ UNCHANGED <<mode, disk, fs, redo, setup, hist, applied, budget>>

\* Faulty variant: the condition is kept while the lock is asked for.
AbortHoldingFlushing ==
    /\ mode = "up"
    /\ finish.step = "abort"
    /\ jnl' = [jnl EXCEPT !.aborted = TRUE]
    /\ finish' = [finish EXCEPT !.step = "invalidate"]
    /\ UNCHANGED <<mode, thread, home, disk, fs, redo, setup, history, budget>>

\* bad_journal: the condition is dropped before the lock is asked for.
Abort ==
    /\ mode = "up"
    /\ finish.step = "abort"
    /\ jnl' = [jnl EXCEPT !.aborted = TRUE, !.flushing = FALSE]
    /\ finish' = [finish EXCEPT !.step = "invalidate"]
    /\ UNCHANGED <<mode, thread, home, disk, fs, redo, setup, history, budget>>

Invalidate ==
    /\ mode = "up"
    /\ finish.step = "invalidate"
    /\ jnl.owner = None
    /\ jnl' = [jnl EXCEPT !.invalid = TRUE,
                    !.oldStart[OldStarts] = IF @ = None THEN @ ELSE [@ EXCEPT !.busy = FALSE]]
    /\ Awaited(finish.by)
    /\ finish' = NoFinish
    /\ UNCHANGED <<mode, home, disk, fs, redo, setup, history, budget>>

-----------------------------------------------------------------------------
\* buffer_flushed_callback: the groups whose ranges follow on from
\* active_start are let go with it.
RECURSIVE Coalesce(_, _)
Coalesce(a, ranges) ==
    IF \E r \in ranges : r.start = a
    THEN LET r == CHOOSE x \in ranges : x.start = a IN Coalesce(r.end, ranges \ {r})
    ELSE [active |-> a, ranges |-> ranges]

\* Faulty variant: the mark of the group stays.
InPlaceUnmarked(j) ==
    LET c == Coalesce(j.activeStart, j.completed \cup {[start |-> home.start, end |-> home.end]})
    IN  IF j.invalid THEN j
        ELSE [j EXCEPT
                !.oldStart = [i \in 1..OldStarts |->
                    IF j.oldStart[i] # None /\ j.oldStart[i].at = home.start
                    THEN j.oldStart[i] ELSE j.oldStart[i]],
                !.activeStart = c.active,
                !.completed = c.ranges]

InPlace(j) ==
    LET c == Coalesce(j.activeStart, j.completed \cup {[start |-> home.start, end |-> home.end]})
    IN  IF j.invalid THEN j
        ELSE [j EXCEPT
                !.oldStart = [i \in 1..OldStarts |->
                    IF j.oldStart[i] # None /\ j.oldStart[i].at = home.start
                    THEN [j.oldStart[i] EXCEPT !.busy = FALSE] ELSE j.oldStart[i]],
                !.activeStart = c.active,
                !.completed = c.ranges]

\* A block reaches its place; the last one completes the group.
WriteHome(b) ==
    /\ mode = "up"
    /\ b \in home.left
    /\ fs' = [fs EXCEPT ![b] = home.tr.id]
    /\ IF home.left = {b}
       THEN jnl' = [InPlace(jnl) EXCEPT !.asyncIO = FALSE] /\ home' = NoHome
       ELSE home' = [home EXCEPT !.left = @ \ {b}] /\ UNCHANGED jnl
    /\ UNCHANGED <<mode, thread, finish, disk, redo, setup, history, budget>>

-----------------------------------------------------------------------------
\* journal_flush by a thread with no transaction open; io is JOURNAL_WAIT_FOR_IO.
FlushCalled(t, io) ==
    /\ At(t, "idle")
    /\ "flush" \in setup.calls[t] /\ (io => "wait" \in setup.calls[t])
    /\ ~jnl.invalid
    /\ thread' = [thread EXCEPT ![t] = [Idle EXCEPT !.pc = "flush", !.call = "flush", !.io = io]]
    /\ UNCHANGED <<mode, jnl, finish, home, disk, fs, redo, setup, history, budget>>

\* and by the owner of an open transaction, who waits with the lock.
FlushInside(t, io) ==
    /\ At(t, "tr")
    /\ "flush" \in setup.calls[t] /\ (io => "wait" \in setup.calls[t])
    /\ ~jnl.invalid
    /\ thread' = [thread EXCEPT ![t].pc = "inside", ![t].io = io]
    /\ UNCHANGED <<mode, jnl, finish, home, disk, fs, redo, setup, history, budget>>

FlushedInside(t) ==
    /\ At(t, "inside")
    /\ ~jnl.flushing
    /\ thread[t].io => ~jnl.asyncIO
    /\ thread' = [thread EXCEPT ![t].pc = "tr", ![t].io = FALSE]
    /\ UNCHANGED <<mode, jnl, finish, home, disk, fs, redo, setup, history, budget>>

\* The newest group with something in it.
Newest ==
    IF jnl.cur # None /\ jnl.cur.list # << >> THEN jnl.cur.id
    ELSE IF hist = << >> THEN 0 ELSE hist[Len(hist)].id

Flush(t) ==
    /\ At(t, "flush")
    /\ jnl.owner = None
    /\ \/ /\ jnl.cur = None
          /\ thread' = [thread EXCEPT ![t].pc = "wait", ![t].want = Newest]
          /\ UNCHANGED jnl
       \/ /\ jnl.cur # None
          /\ jnl' = [jnl EXCEPT !.owner = t, !.cur = None]
          /\ thread' = [thread EXCEPT ![t].pc = "quiet", ![t].want = Newest, ![t].tr = jnl.cur]
    /\ UNCHANGED <<mode, finish, home, disk, fs, redo, setup, history, budget>>

\* With JOURNAL_WAIT_FOR_IO it waits for the groups before; then end_transaction.
FlushGroup(t) ==
    LET th == thread[t]
    IN  /\ At(t, "quiet")
        /\ th.io => ~jnl.flushing /\ ~jnl.asyncIO
        /\ \/ /\ Kept(th.tr, TRUE)
              /\ jnl' = [jnl EXCEPT !.cur = th.tr, !.owner = None]
              /\ thread' = [thread EXCEPT ![t].pc = "drain", ![t].tr = None, ![t].call = "empty"]
           \/ /\ ~Kept(th.tr, TRUE)
              /\ Goto(t, "end")
              /\ UNCHANGED jnl
        /\ UNCHANGED <<mode, finish, home, disk, fs, redo, setup, history, budget>>

\* Faulty variant: a flush under way is not waited for.
FlushDoesNotWait(t) ==
    /\ At(t, "wait")
    /\ Goto(t, "drain")
    /\ UNCHANGED <<mode, jnl, finish, home, disk, fs, redo, setup, history, budget>>

\* Nothing to flush: it waits for a flush that may be under way.
FlushWaits(t) ==
    /\ At(t, "wait")
    /\ ~jnl.flushing
    /\ Goto(t, "drain")
    /\ UNCHANGED <<mode, jnl, finish, home, disk, fs, redo, setup, history, budget>>

\* The end of journal_flush, which returns 0.
FlushReturns(t) ==
    LET th == thread[t]
    IN  /\ At(t, "drain")
        /\ th.io => ~jnl.asyncIO
        /\ Vouch(IF jnl.aborted \/ jnl.invalid THEN "failed" ELSE th.call, th.want)
        /\ Return(t)
        /\ UNCHANGED <<mode, jnl, finish, home, disk, fs, redo, setup, hist, applied, budget>>
-----------------------------------------------------------------------------
\* journal_close, when the volume is no longer used, and not before a flush that
\* was aborted has marked the journal invalid.
CloseCalled(t) ==
    /\ "close" \in setup.calls[t]
    /\ \A u \in Threads : At(u, "idle")
    /\ finish.step # "invalidate"
    /\ jnl' = [jnl EXCEPT !.owner = t]
    /\ thread' = [thread EXCEPT ![t].pc = "close", ![t].call = "close"]
    /\ UNCHANGED <<mode, finish, home, disk, fs, redo, setup, history, budget>>

\* A buffered group has blocks to be written.
Waits == IF jnl.cur = None THEN FALSE ELSE ~Kept(jnl.cur, TRUE)

CloseFlushes(t) ==
    /\ At(t, "close")
    /\ ~jnl.flushing
    /\ jnl' = [jnl EXCEPT !.cur = None]
    /\ thread' = [thread EXCEPT
            ![t].pc = CASE jnl.invalid -> "closed"
                        [] ~jnl.invalid /\ Waits -> "end"
                        [] OTHER -> "settle",
            ![t].tr = IF ~jnl.invalid /\ Waits THEN jnl.cur ELSE None]
    /\ UNCHANGED <<mode, finish, home, disk, fs, redo, setup, history, budget>>

\* The journal is empty when all of it is in place; after 5000 looks the wait
\* for that is given up.
CloseSettles(t) ==
    /\ At(t, "settle")
    /\ ~jnl.flushing
    /\ jnl' = [jnl EXCEPT !.start = jnl.activeStart]
    /\ disk' = StartWritten(disk, JournalHeader(jnl.activeStart, jnl.end, jnl.seq))
    /\ Goto(t, "closed")
    /\ UNCHANGED <<mode, finish, home, fs, redo, setup, history, budget>>

Shut ==
    /\ thread' = [t \in Threads |-> Idle]
    /\ jnl' = NoJournal
    /\ finish' = NoFinish
    /\ home' = NoHome
    /\ redo' = NoRedo
    /\ mode' = "down"

Close(t) ==
    /\ At(t, "closed")
    /\ ~jnl.asyncIO
    /\ Shut
    /\ UNCHANGED <<disk, fs, setup, history, budget>>

-----------------------------------------------------------------------------
\* The machine stops.  What a disk that caches then holds is left to
\* HeaderDescribesLog.
Crash ==
    /\ mode # "down"
    /\ ~setup.cached
    /\ budget.crashes < setup.crashes
    /\ budget' = [budget EXCEPT !.crashes = @ + 1]
    /\ Shut
    /\ hist' = SubSeq(hist, 1, applied)
    /\ UNCHANGED <<disk, fs, setup, applied, acked>>

\* journal_open reads the journal.
Fresh(start) ==
    [NoJournal EXCEPT !.start = start, !.end = start, !.activeStart = start,
                      !.seq = disk.now[0].seq]

Open ==
    LET r == Replay(disk.now)
    IN  /\ mode = "down"
        /\ mode' = CASE r.result = "bad" -> "refused" [] r.result = "done" -> "replay"
                     [] r.result = "empty" -> "up"
        /\ jnl' = IF r.result = "empty" THEN Fresh(r.start) ELSE jnl
        /\ redo' = IF r.result = "done"
                   THEN [left |-> {b \in Blocks : r.table[b] # None}, value |-> r.table, end |-> r.start]
                   ELSE redo
        /\ UNCHANGED <<thread, finish, home, disk, fs, setup, history, budget>>

\* replay_journal puts a block in its place (update_fs_block).
RedoBlock(b) ==
    /\ mode = "replay"
    /\ b \in redo.left
    /\ fs' = [fs EXCEPT ![b] = redo.value[b]]
    /\ redo' = [redo EXCEPT !.left = @ \ {b}]
    /\ UNCHANGED <<mode, thread, jnl, finish, home, disk, setup, history, budget>>

\* Faulty variant: the journal is emptied before the blocks are in place.
OpenedEarly ==
    /\ mode = "replay"
    /\ disk' = StartWritten(disk, JournalHeader(redo.end, redo.end, disk.now[0].seq))
    /\ jnl' = Fresh(redo.end)
    /\ redo' = NoRedo
    /\ mode' = "up"
    /\ UNCHANGED <<thread, finish, home, fs, setup, history, budget>>

\* and empties the journal.  The sequence number is the header's.
Opened ==
    /\ mode = "replay"
    /\ redo.left = {}
    /\ disk' = StartWritten(disk, JournalHeader(redo.end, redo.end, disk.now[0].seq))
    /\ jnl' = Fresh(redo.end)
    /\ redo' = NoRedo
    /\ mode' = "up"
    /\ UNCHANGED <<thread, finish, home, fs, setup, history, budget>>

-----------------------------------------------------------------------------
ThreadNext(t) ==
    \/ StartCalled(t) \/ Start(t) \/ StartNested(t) \/ EndNested(t)
    \/ \E b \in Blocks : ModifyBlock(t, b) \/ KillBlock(t, b)
    \/ ModifyBlockFails(t)
    \/ \E force \in BOOLEAN : EndTransaction(t, force)
    \/ BeginFlush(t) \/ BumpStart(t) \/ BumpToActive(t) \/ TakePlace(t)
    \/ \E io \in BOOLEAN : FlushCalled(t, io) \/ FlushInside(t, io)
    \/ FlushedInside(t) \/ Flush(t) \/ FlushGroup(t) \/ FlushWaits(t) \/ FlushReturns(t)
    \/ CloseCalled(t) \/ CloseFlushes(t) \/ CloseSettles(t) \/ Close(t)

WritesNext ==
    \/ WriteStart \/ WriteStartFails \/ WriteLog \/ WriteLogFails
    \/ Commit \/ CommitFails \/ SendHome \/ Abort \/ Invalidate
    \/ \E b \in Blocks : WriteHome(b) \/ RedoBlock(b)
    \/ Open \/ Opened

Next ==
    \/ \E t \in Threads : ThreadNext(t)
    \/ WritesNext
    \/ Crash

Spec == Init /\ [][Next]_vars

\* The kernel runs its threads, and the disk answers.  No thread is made to
\* call the journal, and a transaction that is open need not end.
FairSpec ==
    /\ Spec
    /\ WF_vars(WritesNext)
    /\ \A t \in Threads :
        WF_vars(BeginFlush(t) \/ BumpStart(t) \/ TakePlace(t)
                \/ (BumpToActive(t) /\ jnl.start # jnl.activeStart))

-----------------------------------------------------------------------------
\* The lock has an owner among the threads or none, and the three offsets of
\* struct journal stay in the range that end_transaction panics outside of.
TypeOK ==
    /\ mode \in {"up", "down", "replay", "refused"}
    /\ jnl.owner \in Threads \cup {None}
    /\ jnl.start \in Offsets /\ jnl.end \in Offsets /\ jnl.activeStart \in Offsets
    /\ fs \in [Blocks -> 0..setup.groups]
    /\ applied \in 0..Len(hist)

\* Whichever journal header the disk keeps, if the machine stops now, the log
\* from its start to its end is on the platter and can be replayed to the end.
\* This is what write_journal_header's two flushes are for: the one before a
\* header that moves the end, and the one after a header that moves the start,
\* before a later group reuses the space.
HeaderDescribesLog ==
    \A h \in {disk.now[0]} \cup disk.old[0] :
        LET units == [disk.now EXCEPT ![0] = h]
            r     == ReplayFrom(units, [Beginning(units) EXCEPT !.past = FALSE])
            n     == IF Place(h.start) <= Place(h.end) THEN Place(h.end) - Place(h.start)
                     ELSE Size - 1 - (Place(h.start) - Place(h.end))
        IN  /\ r.result \in {"empty", "done"} /\ r.retries = 0
            /\ \A i \in 0..(n - 1) : disk.old[UnitAt(h.start, i)] = {}

\* What a mount would find, and the groups it would not.
Promised ==
    IF setup.cached THEN [meta |-> [b \in Blocks |-> 0], pending |-> << >>]
    ELSE [meta |-> Recovered(disk.now, fs), pending |-> SubSeq(hist, applied + 1, Len(hist))]

Journal == INSTANCE AtomicTransactions WITH state <- Promised

\* On a disk that writes through, the journal keeps its promise: at every moment,
\* between any two writes of a flush, of a replay or of a close, a mount would
\* find the effect of the first groups submitted, each of them whole, and would
\* not be refused; a crash loses only groups that had not taken effect.
IsAtomic == Journal!Spec

\* The last group that has taken effect.
Safe == IF applied = 0 THEN 0 ELSE hist[applied].id

\* When journal_end_transaction returns 0 for a group it was asked to flush at
\* once, or journal_flush returns 0 having written a group or waited for the one
\* under way, and the journal has not been aborted, every group up to then has
\* taken effect, and no later crash takes it back.
Durable ==
    /\ acked.end <= Safe
    /\ acked.flush <= Safe

\* As long as the journal is valid, a mark in old_start stands for a group that
\* is being flushed or written in its place, so that check_free_space, which
\* waits for the mark to go with the lock and the condition flushing in its
\* hands, waits for something that will happen, and never panics.  And a group
\* that is being written in its place has its mark, or buffer_flushed_callback
\* would panic.
MarkedIsLive ==
    ~jnl.invalid =>
        /\ \A i \in Entries : jnl.oldStart[i].busy =>
            \/ finish.step # "none" /\ finish.start = jnl.oldStart[i].at
            \/ home.left # {} /\ home.start = jnl.oldStart[i].at
        /\ home.left # {} =>
            \E i \in Entries : jnl.oldStart[i].busy /\ jnl.oldStart[i].at = home.start

\* journal_flush, when it returns 0, has seen to it that the groups in flight are
\* on the disk, as its comment says.  The code waits for them only if there is no
\* buffered group; if there is one with nothing in it, it returns at once.
FlushVouches == acked.empty <= Safe

\* A flush that began comes to an end: the threads that hold the lock while they
\* wait for flushing, the flush that takes the lock to mark the journal invalid,
\* and the writes of the group before it never wait for each other.
FlushingEnds == jnl.flushing ~> ~jnl.flushing
=============================================================================
