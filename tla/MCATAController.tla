------------------------- MODULE MCATAController -------------------------
EXTENDS ATAController, FiniteSets, TLC

Ask(op, immediate, polled, data, chunks) ==
    [op |-> op, immediate |-> immediate, polled |-> polled, data |-> data, chunks |-> chunks]

DMA         == Ask("io", FALSE, FALSE, "dma", 0)
Poll(d, n)  == Ask("io", FALSE, TRUE, d, n)
Flush       == Ask("flush", FALSE, FALSE, "none", 0)
Reset       == Ask("reset", FALSE, FALSE, "none", 0)

\* Every operation, three of them immediate.
Everything ==
    {DMA, Ask("io", TRUE, FALSE, "write", 1), Ask("register", TRUE, FALSE, "none", 0), Reset,
     Ask("reset", TRUE, FALSE, "none", 0),
     Flush, Ask("other", FALSE, FALSE, "none", 0)}

\* Two commands at once, or a flush and two transfers: what a flush finds in
\* the queue has come while the bus was busy with another command.  No thread
\* call of the timer is under way then.
TwoOrFlush ==
    LET Out == {c \in Commands : client[c] # "idle"}
    IN  Cardinality(Out) > 2 =>
            /\ started + waiting = 0
            /\ \E f \in Out : req[f] = Flush /\ \A c \in Out \ {f} : req[c] = DMA

\* Interrupt-driven and polled transfers.
Transfers == {DMA, Ask("io", FALSE, FALSE, "read", 2), Poll("read", 1), Poll("write", 2)}

\* Any two of them at once, or three: a command is queued behind a polled one
\* only if both have come while the bus was busy with a third, and so the
\* completion of the polled one dispatches it.  Two DMA commands and a polled
\* write, or one and two; no thread call of the timer is under way then.
Nested ==
    LET Out == {c \in Commands : client[c] # "idle"}
        Interrupting == {c \in Out : req[c] = DMA}
    IN  /\ started + waiting <= 1
        /\ Cardinality(Out) = 3 =>
            /\ started + waiting = 0
            /\ Cardinality(Interrupting) \in 1 .. 2
            /\ \A c \in Out \ Interrupting : req[c] = Poll("write", 2)

\* Resets, and the commands a driver answers them with.
Completing == {Reset, Ask("io", TRUE, FALSE, "write", 1)}

Symmetry == Permutations(Commands)
==========================================================================
