---------------------------- MODULE BlockDevice ----------------------------
(***************************************************************************)
(* What a block storage device promises its callers, as                    *)
(* IOBlockStorageDevice describes it: requests take effect one at a time,  *)
(* the reply says how many blocks were moved, and what was written before  *)
(* a successful synchronize survives a loss of power.                      *)
(***************************************************************************)
EXTENDS Integers

CONSTANTS
    Callers,
    Blocks,       \* the block numbers of the largest device
    Requests,
    MaxTransfer,  \* the blocks of one command
    None

VARIABLES
    size,      \* the blocks of the device that is there; 0 for none
    medium,    \* what a read returns
    durable,   \* what is sure to survive
    request,   \* the request of each caller, or None
    reply      \* the reply that the step just taken gave, if it did

vars == <<size, medium, durable, request, reply>>

NoReply == [to |-> None, status |-> "none", actual |-> 0, data |-> << >>]

Init ==
    /\ size = 0
    /\ medium = [b \in Blocks |-> None]
    /\ durable = medium
    /\ request = [t \in Callers |-> None]
    /\ reply = NoReply

Attach ==
    /\ size = 0
    /\ size' \in Nat \ {0}
    /\ reply' = NoReply
    /\ UNCHANGED <<medium, durable, request>>

Submit(t) ==
    /\ size > 0
    /\ request[t] = None
    /\ \E r \in Requests : request' = [request EXCEPT ![t] = r]
    /\ reply' = NoReply
    /\ UNCHANGED <<size, medium, durable>>

Answer(t, status, actual, data) ==
    /\ reply' = [to |-> t, status |-> status, actual |-> actual, data |-> data]
    /\ request' = [request EXCEPT ![t] = None]
    /\ UNCHANGED size

\* The status of a transfer of which n blocks were moved.
Outcome(r, n) == IF n = r.nblks THEN "ok" ELSE "error"

Fits(r) == r.nblks > 0 /\ r.block + r.nblks <= size

\* The buffer block that belongs to block b of the device.
Data(r, b) == <<r.tag, b - r.block>>

\* A request fails before it has moved anything.
Refuse(t) ==
    /\ request[t] # None
    /\ \E e \in {"badargument", "error"} : Answer(t, e, 0, << >>)
    /\ UNCHANGED <<medium, durable>>

\* The first n blocks are written; if that is not all, some of the command
\* that failed may be, and the status says so.
Write(t) ==
    LET r == request[t]
    IN  /\ r # None
        /\ r.op = "write"
        /\ Fits(r)
        /\ \E n \in 0..r.nblks :
            LET first == r.block + n
                tail  == {b \in first..(first + MaxTransfer - 1) : b < r.block + r.nblks}
            IN  /\ Answer(t, Outcome(r, n), n, << >>)
                /\ \E torn \in SUBSET tail :
                    LET written == (r.block..(first - 1)) \cup torn
                        Put(m)  == [b \in Blocks |-> IF b \in written THEN Data(r, b) ELSE m[b]]
                    IN  /\ medium' = Put(medium)
                        /\ durable' \in {durable, Put(durable)}

\* The first n blocks of the buffer are those of the device.
Read(t) ==
    LET r == request[t]
    IN  /\ r # None
        /\ r.op = "read"
        /\ Fits(r)
        /\ \E n \in 0..r.nblks :
            Answer(t, Outcome(r, n), n, [i \in 1..n |-> medium[r.block + i - 1]])
        /\ UNCHANGED <<medium, durable>>

Synchronize(t) ==
    /\ request[t] # None
    /\ request[t].op = "sync"
    /\ durable' = medium
    /\ Answer(t, "ok", 0, << >>)
    /\ UNCHANGED medium

\* Power is lost.  Each block holds what it held for sure, what was written
\* last, or what a write under way was to put there.
Lose ==
    /\ DOMAIN medium' = Blocks
    /\ \A b \in Blocks :
        \/ medium'[b] \in {medium[b], durable[b]}
        \/ \E t \in Callers : /\ request[t] # None
                              /\ request[t].op = "write"
                              /\ medium'[b] = Data(request[t], b)
    /\ durable' = medium'
    /\ size' = 0
    /\ request' = [t \in Callers |-> None]
    /\ reply' = NoReply

\* Something happens that callers do not see.
Proceed ==
    /\ reply' = NoReply
    /\ UNCHANGED <<size, medium, durable, request>>

Next ==
    \/ Attach
    \/ Proceed
    \/ \E t \in Callers : Submit(t) \/ Refuse(t) \/ Write(t) \/ Read(t) \/ Synchronize(t)
    \/ Lose

Spec == Init /\ [][Next]_vars
=============================================================================
