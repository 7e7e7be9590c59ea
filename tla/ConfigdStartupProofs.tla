------------------------ MODULE ConfigdStartupProofs ------------------------
(* The wait for an interface keeps its deadline, for every deadline, delay *)
(* and lateness of the sleeps.                                             *)
EXTENDS ConfigdStartup, TLAPS

\* The strengthening: a sleep lasts at least as long as it was asked to, so the
\* clock is never behind the time slept.
WaitInv ==
    /\ elapsed \in Nat
    /\ slept \in Nat
    /\ delay \in DelayStep..MaxDelay
    /\ clock \in BOOLEAN
    /\ slept <= elapsed
    /\ slept <= Deadline

\* A turn of the loop of wait_for_ipconfiguration_interface_readiness.
LEMMA SleepKeepsDeadline ==
    ASSUME WaitInv, Sleep
    PROVE  WaitInv'
  <1> USE StartupAssumption
  <1> DEFINE s == LowerOf(delay, Remaining)
  <1>1. Remaining \in Int /\ Remaining > 0 /\ Remaining <= Deadline - slept
    <2>1. CASE clock
      BY <2>1 DEF WaitInv, Remaining, Sleep
    <2>2. CASE ~clock
      BY <2>2 DEF WaitInv, Remaining, Sleep
    <2> QED BY <2>1, <2>2
  <1>2. s \in Nat /\ s <= Remaining
    BY <1>1 DEF WaitInv, LowerOf
  <1>3. slept' = slept + s
    BY DEF Sleep
  <1>4. PICK late \in 0..MaxOversleep : elapsed' = elapsed + s + late
    BY DEF Sleep
  <1>5. delay' \in DelayStep..MaxDelay
    BY DEF Sleep, WaitInv, LowerOf
  <1>6. clock' \in BOOLEAN
    BY DEF Sleep, WaitInv
  <1> HIDE DEF s
  <1>7. slept' \in Nat /\ elapsed' \in Nat /\ slept' <= elapsed' /\ slept' <= Deadline
    BY <1>1, <1>2, <1>3, <1>4 DEF WaitInv
  <1> QED BY <1>5, <1>6, <1>7 DEF WaitInv

\* wait_for_ipconfiguration_interface_readiness never sleeps for longer than
\* its deadline in total, whatever the deadline, the step and the limit of the
\* delay, and however late the sleeps return.
THEOREM WaitIsBounded == Spec => []WaitKeepsDeadline
  <1>1. Init => WaitInv
    <2> SUFFICES ASSUME Init PROVE WaitInv
      OBVIOUS
    <2>1. clock \in BOOLEAN
      BY DEF Init
    <2>2. elapsed = 0 /\ slept = 0 /\ delay = DelayStep
      BY DEF Init
    <2> QED BY <2>1, <2>2, StartupAssumption DEF WaitInv
  <1>2. WaitInv /\ [Next]_vars => WaitInv'
    <2> SUFFICES ASSUME WaitInv, [Next]_vars PROVE WaitInv'
      OBVIOUS
    <2>1. CASE Sleep
      BY <2>1, SleepKeepsDeadline
    <2>2. CASE UNCHANGED <<elapsed, slept, delay>> /\ (UNCHANGED clock \/ clock' \in BOOLEAN)
      BY <2>2 DEF WaitInv
    <2>3. CASE UNCHANGED vars
      BY <2>2, <2>3 DEF vars, waitVars
    <2>4. CASE MainThread /\ ~Sleep
      BY <2>2, <2>4 DEF MainThread, CreateStore, CheckIn, Fork, CopyBundle, StartServerThread,
                   Preflight, LoadPlugin, StopWaiting, Prime, waitVars
    <2>5. CASE RunLoopReturns \/ ServerReturns \/ ServerThreadReturns \/ Serve
                 \/ InterfaceAttaches \/ (\E h \in Helper : HelperOpens(h))
      BY <2>2, <2>5 DEF RunLoopReturns, ServerReturns, ServerThreadReturns, Serve,
                   InterfaceAttaches, HelperOpens, waitVars
    <2> QED BY <2>1, <2>3, <2>4, <2>5 DEF Next
  <1>3. WaitInv => WaitKeepsDeadline
    BY DEF WaitInv, WaitKeepsDeadline
  <1> QED BY <1>1, <1>2, <1>3, PTL DEF Spec
=============================================================================
