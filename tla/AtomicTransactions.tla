------------------------ MODULE AtomicTransactions ------------------------
(***************************************************************************)
(* What a journal promises.  Each transaction overwrites some blocks of    *)
(* the volume's metadata.  The transactions take effect whole, one after   *)
(* the other, and a crash loses only those that have not taken effect.     *)
(***************************************************************************)
EXTENDS Naturals, Sequences

CONSTANTS Blocks

VARIABLES
    state   \* meta: the metadata a mount would find, for each block who wrote it;
            \* pending: the transactions submitted that have no effect yet

Overwritten(m, tr) == [b \in Blocks |-> IF b \in tr.blocks THEN tr.id ELSE m[b]]

Init == state = [meta |-> [b \in Blocks |-> 0], pending |-> << >>]

Submit(s, t) ==
    /\ Len(t.pending) = Len(s.pending) + 1
    /\ s.pending = SubSeq(t.pending, 1, Len(s.pending))
    /\ t.meta = s.meta

TakeEffect(s, t) ==
    /\ s.pending # << >>
    /\ t = [meta |-> Overwritten(s.meta, Head(s.pending)), pending |-> Tail(s.pending)]

Lose(s, t) == t = [s EXCEPT !.pending = << >>]

Step(s, t) == Submit(s, t) \/ TakeEffect(s, t) \/ Lose(s, t)

Next == Step(state, state')

Spec == Init /\ [][Next]_state
=============================================================================
