---------------------------- MODULE MCHFSJournal ----------------------------
EXTENDS HFSJournal, TLC

CONSTANTS t1, t2, b1, b2

MCThreads == {t1, t2}
MCBlocks  == {b1, b2}

Setup(one, two, cached, groups, blocks, crashes, failures) ==
    [calls |-> (t1 :> one) @@ (t2 :> two), cached |-> cached,
     groups |-> groups, blocks |-> blocks, crashes |-> crashes, failures |-> failures]

\* A flusher beside a writer, with a crash and with a failing write; a writer
\* that nests and flushes; one that closes and mounts again; two writers; one
\* that kills, with a crash, or with groups so large that two do not fit; and
\* one above a disk that caches.
MCSetups ==
    {Setup({"start"}, {"flush"}, FALSE, 2, 2, 1, 0),
     Setup({"start"}, {"flush", "wait"}, FALSE, 1, 2, 0, 1),
     Setup({"start", "nest", "flush", "wait"}, {}, FALSE, 2, 2, 0, 0),
     Setup({"start", "close"}, {}, FALSE, 3, 2, 1, 0),
     Setup({"start"}, {"start", "force"}, FALSE, 2, 2, 1, 1),
     Setup({"start", "kill"}, {}, FALSE, 2, 2, 1, 0),
     Setup({"start", "kill"}, {}, FALSE, 2, 3, 0, 1),
     Setup({"start", "kill"}, {}, TRUE, 3, 2, 0, 0)}

\* A writer, and a thread that flushes.
FlushSetups == {Setup({"start"}, {"flush"}, FALSE, 2, 2, 0, 0)}
=============================================================================
