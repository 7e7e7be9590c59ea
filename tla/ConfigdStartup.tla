--------------------------- MODULE ConfigdStartup ---------------------------
(***************************************************************************)
(* How configd comes up: main and start_ipconfiguration_plugin of          *)
(* userland/configd/panthera_configd.c.                                    *)
(*                                                                         *)
(* The main thread loads the preferences, takes its service port, forks    *)
(* the helpers the environment asks for and then either serves requests    *)
(* itself or, with PANTHERA_CONFIGD_IPCONFIGURATION, starts a server       *)
(* thread, becomes a client of its own service, loads the plug-in, waits   *)
(* for an Ethernet interface and enters a run loop.  Requests wait in the  *)
(* service port until a thread serves it.                                  *)
(***************************************************************************)
EXTENDS Integers, Sequences, FiniteSets

CONSTANTS
    Deadline,      \* deadline_ns of the wait for an interface, 30 s
    DelayStep,     \* step_ns and the first delay, 10 ms
    MaxDelay,      \* max_delay_ns, 250 ms
    MaxOversleep   \* bound: by how much a sleep may last too long

ASSUME StartupAssumption ==
    /\ Deadline \in Nat
    /\ DelayStep \in Nat \ {0}
    /\ MaxDelay \in Nat /\ DelayStep <= MaxDelay
    /\ MaxOversleep \in Nat

Helper == {"publisher", "selftest", "monitor"}
Main   == "main"

VARIABLES
    env,         \* the helpers and the plug-in the environment asks for
    pc,          \* where the main thread is
    code,        \* the exit status, once pc = "exited"
    thread,      \* the server thread: "none", "serving", "returned"
    requests,    \* clients whose open request waits in the service port
    helpers,     \* state of each helper: "none", "forked", "waiting", "served"
    interface,   \* an Ethernet interface is there
    clock,       \* has_monotonic
    elapsed,     \* time since the wait began, on the monotonic clock
    slept,       \* time the wait has asked nanosleep for
    delay        \* delay_ns

waitVars == <<clock, elapsed, slept, delay>>
vars == <<env, pc, code, thread, requests, helpers, interface, waitVars>>

-----------------------------------------------------------------------------
Init ==
    /\ env \in SUBSET (Helper \cup {"ipconfiguration"})
    /\ pc = "create"
    /\ code = 0
    /\ thread = "none"
    /\ requests = {}
    /\ helpers = [h \in Helper |-> "none"]
    /\ interface \in BOOLEAN
    /\ clock = FALSE
    /\ elapsed = 0
    /\ slept = 0
    /\ delay = DelayStep

Goto(l) == pc' = l /\ UNCHANGED code
Exit(n) == pc' = "exited" /\ code' = n

\* g_store and the mutexes, then load_setup_preferences, whose absence is no
\* error.
CreateStore ==
    /\ pc = "create"
    /\ Goto("checkin") \/ Exit(1)
    /\ UNCHANGED <<env, thread, requests, helpers, interface, waitVars>>

\* bootstrap_check_in, the port set and its first member: any may fail.
CheckIn ==
    /\ pc = "checkin"
    /\ Goto("publisher") \/ Exit(2)
    /\ UNCHANGED <<env, thread, requests, helpers, interface, waitVars>>

AfterHelper ==
    [publisher |-> "selftest", selftest |-> "monitor",
     monitor |-> IF "ipconfiguration" \in env THEN "bundle" ELSE "serve"]

\* start_network_state_publisher, start_dynamic_store_self_test and
\* start_kernel_event_monitor_child: a fork that fails is only logged.
Fork(h) ==
    /\ pc = h
    /\ Goto(AfterHelper[h])
    /\ \/ h \in env /\ helpers' = [helpers EXCEPT ![h] = "forked"]
       \/ UNCHANGED helpers
    /\ UNCHANGED <<env, thread, requests, interface, waitVars>>

\* copy_ipconfiguration_bundle
CopyBundle ==
    /\ pc = "bundle"
    /\ Goto("thread") \/ Exit(6)
    /\ UNCHANGED <<env, thread, requests, helpers, interface, waitVars>>

\* Faulty variant: the plug-in is set up before the server thread.
StartThreadLater ==
    /\ pc = "thread"
    /\ Goto("preflight")
    /\ requests' = requests \cup {Main}
    /\ UNCHANGED <<env, thread, helpers, interface, waitVars>>

\* start_configd_server_thread; the main thread then sends its own open
\* request and waits for the answer.
StartServerThread ==
    /\ pc = "thread"
    /\ \/ /\ thread' = "serving"
          /\ Goto("preflight")
          /\ requests' = requests \cup {Main}
       \/ Exit(4) /\ UNCHANGED <<thread, requests>>
    /\ UNCHANGED <<env, helpers, interface, waitVars>>

\* The store reference is made or not; either way the plug-in is loaded.
Preflight ==
    /\ pc = "preflight"
    /\ Main \notin requests
    /\ Goto("dlopen")
    /\ UNCHANGED <<env, thread, requests, helpers, interface, waitVars>>

\* dlopen, dlsym, then load and start of the plug-in.
LoadPlugin ==
    /\ pc = "dlopen"
    /\ \/ /\ Goto("wait")
          /\ clock' \in BOOLEAN
       \/ (Exit(7) \/ Exit(8)) /\ UNCHANGED clock
    /\ UNCHANGED <<env, thread, requests, helpers, interface, elapsed, slept, delay>>

LowerOf(a, b) == IF a < b THEN a ELSE b

\* How much of the deadline is left, on the clock or by the sleeps done.
Remaining == Deadline - IF clock THEN elapsed ELSE slept

\* wait_for_ipconfiguration_interface_readiness, the ways out of its loop: an
\* interface, a clock that fails, the deadline.
StopWaiting ==
    /\ pc = "wait"
    /\ interface \/ clock \/ Remaining <= 0
    /\ Goto("prime")
    /\ UNCHANGED <<env, thread, requests, helpers, interface, waitVars>>

\* Faulty variant: the sleep is not cut to what remains.
SleepWhole ==
    /\ pc = "wait"
    /\ ~interface
    /\ Remaining > 0
    /\ slept' = slept + delay
    /\ \E late \in 0..MaxOversleep : elapsed' = elapsed + delay + late
    /\ delay' = LowerOf(delay + DelayStep, MaxDelay)
    /\ UNCHANGED <<env, pc, code, thread, requests, helpers, interface, clock>>

\* Faulty variant: the delay grows for ever.
SleepLonger ==
    /\ pc = "wait"
    /\ ~interface
    /\ Remaining > 0
    /\ LET s == LowerOf(delay, Remaining)
       IN  /\ slept' = slept + s
           /\ \E late \in 0..MaxOversleep : elapsed' = elapsed + s + late
    /\ delay' = delay + DelayStep
    /\ UNCHANGED <<env, pc, code, thread, requests, helpers, interface, clock>>

\* Faulty variant: without the clock, the time slept is not added up.
SleepUncounted ==
    /\ pc = "wait"
    /\ ~interface
    /\ Remaining > 0
    /\ IF clock
       THEN /\ slept' = slept + LowerOf(delay, Remaining)
            /\ elapsed' = elapsed + LowerOf(delay, Remaining)
       ELSE UNCHANGED <<slept, elapsed>>
    /\ delay' = LowerOf(delay + DelayStep, MaxDelay)
    /\ UNCHANGED <<env, pc, code, thread, requests, helpers, interface, clock>>

\* One turn of the loop: sleep for the delay or for what remains, if that is
\* less; a sleep may last too long, and one cut short by a signal is resumed.
Sleep ==
    /\ pc = "wait"
    /\ ~interface
    /\ Remaining > 0
    /\ LET s == LowerOf(delay, Remaining)
       IN  /\ slept' = slept + s
           /\ \E late \in 0..MaxOversleep : elapsed' = elapsed + s + late
    /\ delay' = LowerOf(delay + DelayStep, MaxDelay)
    /\ UNCHANGED <<env, pc, code, thread, requests, helpers, interface, clock>>

\* The plug-in's prime, then CFRunLoopRun, which may return.
Prime ==
    /\ pc = "prime"
    /\ Goto("runloop")
    /\ UNCHANGED <<env, thread, requests, helpers, interface, waitVars>>

RunLoopReturns ==
    /\ pc = "runloop"
    /\ Exit(5)
    /\ UNCHANGED <<env, thread, requests, helpers, interface, waitVars>>

\* mach_msg_server gives up on the main thread.
ServerReturns ==
    /\ pc = "serve"
    /\ Exit(0) \/ Exit(3)
    /\ UNCHANGED <<env, thread, requests, helpers, interface, waitVars>>

\* configd_server_thread: mach_msg_server gives up on a receive error and the
\* thread ends.  Nobody is told: the process lives on, and what waits in the
\* service port stays there.
ServerThreadReturns ==
    /\ thread = "serving"
    /\ pc # "exited"
    /\ thread' = "returned"
    /\ UNCHANGED <<env, pc, code, requests, helpers, interface, waitVars>>

MainThread ==
    \/ CreateStore \/ CheckIn \/ (\E h \in Helper : Fork(h))
    \/ CopyBundle \/ StartServerThread \/ Preflight \/ LoadPlugin
    \/ StopWaiting \/ Sleep \/ Prime

-----------------------------------------------------------------------------
(* The other actors                                                        *)

\* A helper opens the store: its request waits in the service port.
HelperOpens(h) ==
    /\ helpers[h] = "forked"
    /\ pc # "exited"
    /\ helpers' = [helpers EXCEPT ![h] = "waiting"]
    /\ requests' = requests \cup {h}
    /\ UNCHANGED <<env, pc, code, thread, interface, waitVars>>

\* mach_msg_server answers a request, on the server thread or on main.
Serve ==
    /\ thread = "serving" \/ pc = "serve"
    /\ pc # "exited"
    /\ \E c \in requests :
         /\ requests' = requests \ {c}
         /\ helpers' = [h \in Helper |-> IF h = c THEN "served" ELSE helpers[h]]
    /\ UNCHANGED <<env, pc, code, thread, interface, waitVars>>

\* The driver attaches an Ethernet interface: is_dhcp_ethernet_interface.
InterfaceAttaches ==
    /\ ~interface
    /\ interface' = TRUE
    /\ UNCHANGED <<env, pc, code, thread, requests, helpers, waitVars>>

Next ==
    \/ MainThread \/ RunLoopReturns \/ ServerReturns \/ ServerThreadReturns
    \/ (\E h \in Helper : HelperOpens(h)) \/ Serve \/ InterfaceAttaches

Spec == Init /\ [][Next]_vars

\* The threads of configd and its helpers are scheduled.
Fairness ==
    /\ WF_vars(MainThread)
    /\ WF_vars(Serve)
    /\ \A h \in Helper : WF_vars(HelperOpens(h))

LiveSpec == Spec /\ Fairness

-----------------------------------------------------------------------------
\* Every variable keeps its shape.
TypeOK ==
    /\ env \subseteq Helper \cup {"ipconfiguration"}
    /\ pc \in Helper \cup {"create", "checkin", "bundle", "thread", "preflight", "dlopen",
                           "wait", "prime", "runloop", "serve", "exited"}
    /\ code \in 0..8
    /\ thread \in {"none", "serving", "returned"}
    /\ requests \subseteq Helper \cup {Main}
    /\ helpers \in [Helper -> {"none", "forked", "waiting", "served"}]
    /\ interface \in BOOLEAN
    /\ clock \in BOOLEAN
    /\ elapsed \in Nat
    /\ slept \in Nat
    /\ delay \in DelayStep..MaxDelay

\* wait_for_ipconfiguration_interface_readiness never sleeps for longer than
\* its deadline in total, with the monotonic clock or by its own count, however
\* late the sleeps return and however the growing delay divides the deadline.
WaitKeepsDeadline == slept <= Deadline

\* A client whose request waits in the service port is not left there by the
\* start-up: configd comes to serve it or exits, unless the server thread of
\* start_ipconfiguration_plugin has ended on a receive error.  The main
\* thread's own open request is one of them.
RequestsAreServed ==
    \A c \in Helper \cup {Main} :
        c \in requests ~> (c \notin requests \/ pc = "exited" \/ thread = "returned")

\* main gets somewhere: it serves, sits in the run loop, or exits.  The one
\* place where it may stay for ever is SCDynamicStoreCreate, when the server
\* thread has ended before it answered main's own request.
StartupEnds ==
    <>\/ pc \in {"serve", "runloop", "exited"}
      \/ pc = "preflight" /\ Main \in requests /\ thread = "returned"

=============================================================================
