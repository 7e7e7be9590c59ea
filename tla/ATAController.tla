--------------------------- MODULE ATAController ---------------------------
(***************************************************************************)
(* One ATA channel: IOATAController of IOATAFamily-261 with the overrides  *)
(* of AppleIntelPIIXPATA, its ATATimerEventSource, the callers that wait   *)
(* in ATADeviceNub::executeCommand, and one device of the ATA protocol.    *)
(*                                                                         *)
(* Everything the controller does happens behind its command gate, in one  *)
(* call chain at a time: completeIO calls dispatchNext, which may issue a  *)
(* command that completes at once, and so on.  stack holds what the chain  *)
(* inside the gate has still to do, the next step first; the gate is free  *)
(* when it is empty.  The device, the interrupt filter and the timer's     *)
(* thread call do not need the gate and run between any two steps.         *)
(*                                                                         *)
(* The immediate gate is open whenever the queue is locked and the bus     *)
(* free, so it is left out, and so is the packet protocol.                 *)
(***************************************************************************)
EXTENDS Integers, Sequences, FiniteSets

CONSTANTS
    Commands,     \* command objects of the drivers
    None,
    Requests,     \* what the drivers may ask for
    Filtered,     \* the interrupt line may be shared: it is not a legacy IRQ
    GiveUp,       \* the device may stay busy for longer than a polled wait
    MaxCallouts,  \* bound: event callouts inside one another
    MaxFlight     \* bound: thread calls of the timer at either side of its test

Request ==
    [op        : {"io", "register", "reset", "flush", "other"},
     immediate : BOOLEAN,                            \* mATAFlagImmediate
     polled    : BOOLEAN,                            \* mATAFlagUseNoIRQ
     data      : {"none", "read", "write", "dma"},   \* the data phase
     chunks    : Nat]                                \* PIO blocks to move

\* allocCommand
Blank == [op |-> "other", immediate |-> FALSE, polled |-> FALSE, data |-> "none", chunks |-> 0]

ASSUME ControllerAssumption ==
    /\ None \notin Commands
    /\ Requests \subseteq Request
    /\ Filtered \in BOOLEAN
    /\ GiveUp \in BOOLEAN
    /\ MaxCallouts \in Nat
    /\ MaxFlight \in Nat

Error == {"ok", "timeout", "device", "offline", "busy", "state", "opcode", "flushed"}

Saved == [locked : BOOLEAN, busy : BOOLEAN, cmd : Commands \cup {None}]

\* What the call chain inside the gate may have to do next.
Frame ==
    [at : {"interrupt", "dispatch", "select", "selected", "enter", "issue", "first", "poll",
           "data", "status", "leave", "reset", "flush"}]
        \cup [at : {"complete"}, err : Error]
        \cup [at : {"callback", "signal"}, cmd : Commands]
        \cup [at : {"callout"}, saved : Saved, waits : Commands \cup {None}]

At(l)         == [at |-> l]
Complete(e)   == [at |-> "complete", err |-> e]
Callback(c)   == [at |-> "callback", cmd |-> c]
Signal(c)     == [at |-> "signal", cmd |-> c]
Callout(s, c) == [at |-> "callout", saved |-> s, waits |-> c]

VARIABLES
    stack,      \* what the call chain inside the gate has still to do
    queue,      \* _commandQueue
    locked,     \* _queueState = kQueueLocked
    busy,       \* _busState = kBusBusy
    current,    \* _currentCommand
    req,        \* the request in each command
    state,      \* state of each command
    left,       \* PIO blocks each command has still to move
    result,     \* result of each command
    client,     \* who has each command: "idle", "waiting", "signalled"
    syncer,     \* the command points to a syncer or to a completion function
    enabled,    \* the timer event source is enabled
    armed,      \* its thread call is due
    expired,    \* hasExpired
    started,    \* thread calls that have not yet tested enabled
    waiting,    \* thread calls that have, and wait for the gate
    dev,        \* the device: command, phase, blocks left, no interrupt due, ERR, INTRQ
    nien,       \* nIEN: the device does not drive INTRQ
    latch,      \* IDEINTS of the bus-master status register
    edge,       \* an interrupt is on its way to the CPU
    masked,     \* _intSrc is disabled
    filtering,  \* interruptFilter has found the latch set and is about to clear it
    pending,    \* the work loop has an interrupt to handle
    served      \* history: the device has finished the command

busVars    == <<queue, locked, busy, current>>
cmdVars    == <<req, state, left, result, client, syncer>>
timerVars  == <<enabled, armed, expired, started, waiting>>
deviceVars == <<dev, nien>>
irqVars    == <<latch, edge, masked, filtering, pending>>
histVars   == <<served>>
vars == <<stack, busVars, cmdVars, timerVars, deviceVars, irqVars, histVars>>

-----------------------------------------------------------------------------
Init ==
    /\ stack = << >>
    /\ queue = << >>
    /\ locked = FALSE
    /\ busy = FALSE
    /\ current = None
    /\ req = [c \in Commands |-> Blank]
    /\ state = [c \in Commands |-> "initial"]
    /\ left = [c \in Commands |-> 0]
    /\ result = [c \in Commands |-> "ok"]
    /\ client = [c \in Commands |-> "idle"]
    /\ syncer = [c \in Commands |-> FALSE]
    /\ enabled = FALSE
    /\ armed = FALSE
    /\ expired = FALSE
    /\ started = 0
    /\ waiting = 0
    /\ dev = [cmd |-> None, phase |-> "idle", left |-> 0, quiet |-> FALSE, err |-> FALSE, intrq |-> FALSE]
    /\ nien = FALSE
    /\ latch = FALSE
    /\ edge = FALSE
    /\ masked = FALSE
    /\ filtering = FALSE
    /\ pending = FALSE
    /\ served = [c \in Commands |-> FALSE]

Running(l) == stack # << >> /\ Head(stack).at = l

\* The step on top is done and these come next.
Then(frames) == stack' = frames \o Tail(stack)

SetState(s) == state' = [state EXCEPT ![current] = s]

-----------------------------------------------------------------------------
(* The timer                                                               *)

\* startTimer for the current command: disable, cancelTimeout, enable,
\* setTimeoutMS.  A thread call that runs already is not stopped.
StartTimer ==
    /\ enabled' = TRUE
    /\ armed' = TRUE
    /\ expired' = FALSE
    /\ UNCHANGED <<started, waiting>>

\* The time is up and the kernel starts the thread call.
TimerDue ==
    /\ armed
    /\ started < MaxFlight
    /\ armed' = FALSE
    /\ started' = started + 1
    /\ UNCHANGED <<stack, busVars, cmdVars, enabled, expired, waiting, deviceVars, irqVars, served>>

\* myTimeout up to its closeGate: hasExpired is set, enabled is tested.
TimerExpires ==
    /\ started > 0
    /\ started' = started - 1
    /\ expired' = TRUE
    /\ waiting' = IF enabled /\ waiting < MaxFlight THEN waiting + 1 ELSE waiting
    /\ UNCHANGED <<stack, busVars, cmdVars, enabled, armed, deviceVars, irqVars, histVars>>

\* Faulty variant: the current command is failed without asking for one.
HandleTimeoutUnchecked ==
    /\ stack = << >>
    /\ waiting > 0
    /\ waiting' = waiting - 1
    /\ SetState("complete")
    /\ stack' = <<Complete("timeout")>>
    /\ UNCHANGED <<busVars, req, left, result, client, syncer, enabled, armed, expired, started,
                   deviceVars, irqVars, histVars>>

\* myTimeout behind the gate: timeoutOccured, handleTimeout.
HandleTimeout ==
    /\ stack = << >>
    /\ waiting > 0
    /\ waiting' = waiting - 1
    /\ \/ /\ current # None
          /\ SetState("complete")
          /\ stack' = <<Complete("timeout")>>
       \/ /\ current = None
          /\ stack' = <<At("dispatch")>>
          /\ UNCHANGED state
    /\ UNCHANGED <<busVars, req, left, result, client, syncer, enabled, armed, expired, started,
                   deviceVars, irqVars, histVars>>

-----------------------------------------------------------------------------
(* The device and its interrupt                                            *)

\* INTRQ rises: the PIIX latches it, and the CPU is interrupted unless the
\* source is disabled.
Edge ==
    /\ latch' = TRUE
    /\ edge' = (edge \/ ~masked)

\* The device raises INTRQ, which is seen unless it was high or nIEN is set.
Raise(d) ==
    /\ dev' = [d EXCEPT !.intrq = TRUE]
    /\ IF nien \/ dev.intrq THEN UNCHANGED <<latch, edge>> ELSE Edge

Serves == [c \in Commands |-> served[c] \/ c = dev.cmd]

\* A block is ready, or wanted: DRQ.
DeviceWantsData ==
    /\ dev.phase = "busy"
    /\ dev.left > 0
    /\ LET d == [dev EXCEPT !.phase = "drq", !.quiet = FALSE]
       IN  IF dev.quiet THEN dev' = d /\ UNCHANGED <<latch, edge>> ELSE Raise(d)
    /\ UNCHANGED <<stack, busVars, cmdVars, timerVars, nien, masked, filtering, pending, histVars>>

\* The command is done, or has failed at some block.
DeviceFinishes ==
    /\ dev.phase = "busy"
    /\ \E e \in BOOLEAN :
        /\ dev.left > 0 => e
        /\ Raise([dev EXCEPT !.phase = "idle", !.left = 0, !.quiet = FALSE, !.err = e])
    /\ served' = Serves
    /\ UNCHANGED <<stack, busVars, cmdVars, timerVars, nien, masked, filtering, pending>>

\* With nIEN set the line floats, and a false edge may be latched.
LineFloats ==
    /\ nien
    /\ Edge
    /\ UNCHANGED <<stack, busVars, cmdVars, timerVars, deviceVars, masked, filtering, pending,
                   histVars>>

\* The CPU takes the interrupt.  interruptFilter, where there is one, goes on
\* only if the latch is set ...
InterruptFilter ==
    /\ edge
    /\ ~masked
    /\ ~filtering
    /\ edge' = FALSE
    /\ filtering' = (Filtered /\ latch)
    /\ pending' = (pending \/ ~Filtered)
    /\ UNCHANGED <<stack, busVars, cmdVars, timerVars, deviceVars, latch, masked, histVars>>

\* ... and then clears it and wakes the work loop.
FilterAccepts ==
    /\ filtering
    /\ filtering' = FALSE
    /\ latch' = FALSE
    /\ pending' = TRUE
    /\ UNCHANGED <<stack, busVars, cmdVars, timerVars, deviceVars, edge, masked, histVars>>

\* asyncIO: what the state of the current command asks for.
AsyncIO ==
    CASE state[current] = "started" -> <<At("issue")>>
      [] state[current] = "data"    -> <<At("data")>>
      [] state[current] = "status"  -> <<At("status")>>
      [] OTHER                      -> <<Complete("state")>>

\* interruptOccurred clears the latch ...
InterruptOccurred ==
    /\ stack = << >>
    /\ pending
    /\ pending' = FALSE
    /\ latch' = FALSE
    /\ stack' = <<At("interrupt")>>
    /\ UNCHANGED <<busVars, cmdVars, timerVars, deviceVars, edge, masked, filtering, histVars>>

\* ... and handleDeviceInterrupt reads the status register, which drops INTRQ.
HandleDeviceInterrupt ==
    /\ Running("interrupt")
    /\ dev' = [dev EXCEPT !.intrq = FALSE]
    /\ Then(IF current = None THEN << >> ELSE AsyncIO)
    /\ UNCHANGED <<busVars, cmdVars, timerVars, nien, irqVars, histVars>>

-----------------------------------------------------------------------------
(* The callers                                                             *)

\* What executeCommand sets in a command before it enters the gate.
Prepare(c, r) ==
    /\ client[c] = "idle"
    /\ client' = [client EXCEPT ![c] = "waiting"]
    /\ syncer' = [syncer EXCEPT ![c] = TRUE]
    /\ req' = [req EXCEPT ![c] = r]
    /\ state' = [state EXCEPT ![c] = "initial"]
    /\ left' = [left EXCEPT ![c] = r.chunks]
    /\ UNCHANGED <<result, histVars>>

\* enqueueCommand
Enqueue(c, r) == queue' = IF r.immediate THEN <<c>> \o queue ELSE Append(queue, c)

\* executeCommand, handleCommand
Submit(c) ==
    /\ stack = << >>
    /\ \E r \in Requests : Prepare(c, r) /\ Enqueue(c, r)
    /\ stack' = <<At("dispatch")>>
    /\ UNCHANGED <<locked, busy, current, timerVars, deviceVars, irqVars>>

\* The caller wakes, takes the result and frees its command.
Free(c) ==
    /\ client[c] = "signalled"
    /\ client' = [client EXCEPT ![c] = "idle"]
    /\ req' = [req EXCEPT ![c] = Blank]
    /\ state' = [state EXCEPT ![c] = "initial"]
    /\ left' = [left EXCEPT ![c] = 0]
    /\ result' = [result EXCEPT ![c] = "ok"]
    /\ served' = [served EXCEPT ![c] = FALSE]
    /\ dev' = IF dev.cmd = c THEN [dev EXCEPT !.cmd = None] ELSE dev
    /\ UNCHANGED <<busVars, syncer, timerVars, nien, irqVars>>

\* A driver that executes its command in a callout wakes there, not here.
Return(c) ==
    /\ \A i \in DOMAIN stack : stack[i].at = "callout" => stack[i].waits # c
    /\ Free(c)
    /\ UNCHANGED stack

-----------------------------------------------------------------------------
(* The chain inside the gate                                               *)

busCanDispatch ==
    /\ ~busy
    /\ locked => queue # << >> /\ req[Head(queue)].immediate

\* dispatchNext, with nothing to do
DispatchNothing ==
    /\ Running("dispatch")
    /\ \/ ~busCanDispatch /\ UNCHANGED current
       \/ busCanDispatch /\ queue = << >> /\ current' = None
    /\ Then(<< >>)
    /\ UNCHANGED <<queue, locked, busy, cmdVars, timerVars, deviceVars, irqVars, histVars>>

\* The handlers of dispatchNext's switch.
Handler(op) ==
    CASE op = "io"       -> <<At("select")>>
      [] op = "register" -> <<At("select")>>
      [] op = "reset"    -> <<At("reset")>>
      [] op = "flush"    -> <<At("flush")>>
      [] OTHER           -> <<Complete("opcode")>>

\* Faulty variant: commands of a callout are not forced to poll.
DispatchUnpolled ==
    /\ Running("dispatch")
    /\ busCanDispatch
    /\ queue # << >>
    /\ current' = Head(queue)
    /\ state' = [state EXCEPT ![Head(queue)] = "started"]
    /\ Then(Handler(req[Head(queue)].op))
    /\ queue' = Tail(queue)
    /\ busy' = TRUE
    /\ UNCHANGED <<locked, req, left, result, client, syncer, timerVars, deviceVars, irqVars, histVars>>

\* dispatchNext: the command at the head becomes the current one.
DispatchNext ==
    /\ Running("dispatch")
    /\ busCanDispatch
    /\ queue # << >>
    /\ LET c == Head(queue)
       IN  /\ current' = c
           /\ state' = [state EXCEPT ![c] = "started"]
           /\ req' = [req EXCEPT ![c].polled = @ \/ (locked /\ req[c].immediate)]
           /\ Then(Handler(req[c].op))
    /\ queue' = Tail(queue)
    /\ busy' = TRUE
    /\ UNCHANGED <<locked, left, result, client, syncer, timerVars, deviceVars, irqVars, histVars>>

\* selectDevice of the PIIX driver, up to the base class's wait
SelectDevice ==
    /\ Running("select")
    /\ masked' = TRUE
    /\ Then(<<At("selected")>>)
    /\ UNCHANGED <<busVars, cmdVars, timerVars, deviceVars, latch, edge, filtering, pending,
                   histVars>>

\* The device is free.  nIEN is cleared while the source is disabled.
\* The register access is done at once; a command is started.
Selected ==
    /\ Running("selected")
    /\ dev.phase # "busy"
    /\ nien' = FALSE
    /\ latch' = FALSE
    /\ masked' = FALSE
    /\ \/ /\ req[current].op = "register"
          /\ Then(<<Complete("ok")>>)
          /\ UNCHANGED <<state, timerVars, histVars>>
       \/ /\ req[current].op = "io"
          /\ SetState("started")
          /\ StartTimer
          /\ Then(IF req[current].polled
                  THEN <<At("enter"), At("issue"), At("leave")>>
                  ELSE <<At("issue")>>)
          /\ UNCHANGED served
    /\ UNCHANGED <<busVars, req, left, result, client, syncer, dev, edge, filtering, pending>>

\* Faulty variant of SelectFails: the driver returns on an error with the
\* interrupt source disabled.
SelectFailsMasked ==
    /\ Running("selected")
    /\ dev.phase # "idle"
    /\ dev' = [dev EXCEPT !.intrq = FALSE]
    /\ SetState("complete")
    /\ Then(<<Complete("busy")>>)
    /\ UNCHANGED <<busVars, req, left, result, client, syncer, timerVars, nien, irqVars, histVars>>

\* Faulty variant of SelectFails: no timer for an interrupt-driven command.
SelectFailsUntimed ==
    /\ Running("selected")
    /\ dev.phase # "idle"
    /\ dev' = [dev EXCEPT !.intrq = FALSE]
    /\ latch' = FALSE
    /\ masked' = FALSE
    /\ SetState("complete")
    /\ Then(IF req[current].polled THEN <<Complete("offline")>> ELSE << >>)
    /\ UNCHANGED <<busVars, req, left, result, client, syncer, timerVars, nien, edge, filtering,
                   pending, histVars>>

\* The wait has run out or DRQ is set; the status read clears INTRQ.  An
\* interrupt-driven command is left to the timer, to unwind the stack.
SelectFails ==
    /\ Running("selected")
    /\ dev.phase # "idle"
    /\ dev' = [dev EXCEPT !.intrq = FALSE]
    /\ latch' = FALSE
    /\ masked' = FALSE
    /\ SetState("complete")
    /\ \/ /\ req[current].op = "register"
          /\ Then(<<Complete("busy")>>)
          /\ UNCHANGED <<timerVars, histVars>>
       \/ /\ req[current].op = "io"
          /\ req[current].polled
          /\ Then(<<Complete("offline")>>)
          /\ UNCHANGED <<timerVars, histVars>>
       \/ /\ req[current].op = "io"
          /\ ~req[current].polled
          /\ StartTimer
          /\ Then(<< >>)
          /\ UNCHANGED served
    /\ UNCHANGED <<busVars, req, left, result, client, syncer, nien, edge, filtering, pending>>

\* synchronousIO masks the interrupt and sets nIEN ...
EnterPolling ==
    /\ Running("enter")
    /\ masked' = TRUE
    /\ nien' = TRUE
    /\ Then(<< >>)
    /\ UNCHANGED <<busVars, cmdVars, timerVars, dev, latch, edge, filtering, pending, histVars>>

\* ... and undoes it after completeIO, with all that completeIO dispatched.
LeavePolling ==
    /\ Running("leave")
    /\ nien' = FALSE
    /\ edge' = (edge \/ (nien /\ dev.intrq /\ ~masked))
    /\ latch' = FALSE
    /\ masked' = FALSE
    /\ Then(<< >>)
    /\ UNCHANGED <<busVars, cmdVars, timerVars, dev, filtering, pending, histVars>>

\* synchronousIO reads the status register before it completes.
Acknowledge(d) == IF req[current].polled THEN [d EXCEPT !.intrq = FALSE] ELSE d

\* asyncCommand: the task file is written, which drops INTRQ.
IssueCommand ==
    /\ Running("issue")
    /\ LET r == req[current]
           pio == r.data \in {"read", "write"}
       IN  /\ dev' = [cmd |-> current, phase |-> "busy", left |-> IF pio THEN r.chunks ELSE 0,
                      quiet |-> r.data = "write", err |-> FALSE, intrq |-> FALSE]
           /\ SetState(IF pio THEN "data" ELSE "status")
           /\ Then(IF r.data = "write" THEN <<At("first")>>
                   ELSE IF r.polled THEN <<At("poll")>> ELSE << >>)
    /\ UNCHANGED <<busVars, req, left, result, client, syncer, timerVars, nien, irqVars, histVars>>

\* startDMA fails: the buffer does not fit the PRD table.
IssueFails ==
    /\ Running("issue")
    /\ req[current].data = "dma"
    /\ SetState("complete")
    /\ dev' = Acknowledge(dev)
    /\ Then(<<Complete("device")>>)
    /\ UNCHANGED <<busVars, req, left, result, client, syncer, timerVars, nien, irqVars, histVars>>

\* synchronousIO's wait for BSY = 0, which does not look at the timer
PollStatus ==
    /\ Running("poll")
    /\ dev.phase # "busy" \/ GiveUp
    /\ Then(<<At(IF state[current] = "data" THEN "data" ELSE "status")>>)
    /\ UNCHANGED <<busVars, cmdVars, timerVars, deviceVars, irqVars, histVars>>

\* What follows a transfer: "first" is asyncCommand's call of asyncData,
\* "data" that of asyncIO or of synchronousIO's loop.
AfterTransfer(l, more) ==
    LET r == req[current]
    IN  CASE l = "first" /\ r.polled  -> <<At("poll")>>
          [] l = "data" /\ r.polled   -> <<At(IF more THEN "data" ELSE "status")>>
          [] l = "data" /\ ~r.polled /\ ~more /\ r.data = "read" -> <<At("status")>>
          [] OTHER                    -> << >>

\* Faulty variant: a block is moved without waiting for DRQ.
TransferUnready(l) ==
    /\ Running(l)
    /\ ~expired
    /\ LET more == left[current] > 1
       IN  /\ left' = [left EXCEPT ![current] = IF more THEN @ - 1 ELSE 0]
           /\ SetState(IF more THEN "data" ELSE "status")
           /\ Then(AfterTransfer(l, more))
    /\ UNCHANGED <<busVars, req, result, client, syncer, timerVars, deviceVars, irqVars, histVars>>

\* asyncData: DRQ is up and one block is moved.
TransferBlock(l) ==
    /\ Running(l)
    /\ dev.phase = "drq"
    /\ ~expired
    /\ LET more == left[current] > 1
           last == req[current].data = "read" /\ dev.left = 1
       IN  /\ left' = [left EXCEPT ![current] = IF more THEN @ - 1 ELSE 0]
           /\ SetState(IF more THEN "data" ELSE "status")
           /\ Then(AfterTransfer(l, more))
           /\ dev' = [dev EXCEPT !.left = @ - 1, !.phase = IF last THEN "idle" ELSE "busy"]
           /\ served' = IF last THEN Serves ELSE served
    /\ UNCHANGED <<busVars, req, result, client, syncer, timerVars, nien, irqVars>>

\* asyncData: BSY = 0 and ERR = 1, or the timer has expired.
TransferFails(l) ==
    /\ Running(l)
    /\ \/ expired /\ Then(<<Complete("timeout")>>)
       \/ ~expired /\ dev.phase = "idle" /\ dev.err /\ Then(<<Complete("device")>>)
    /\ SetState("complete")
    /\ dev' = Acknowledge(dev)
    /\ UNCHANGED <<busVars, req, left, result, client, syncer, timerVars, nien, irqVars, histVars>>

\* Faulty variant: what the device says is taken for the error code.
AsyncStatusRaw ==
    /\ Running("status")
    /\ SetState("complete")
    /\ dev' = Acknowledge(dev)
    /\ Then(<<Complete(dev.phase)>>)
    /\ UNCHANGED <<busVars, req, left, result, client, syncer, timerVars, nien, irqVars, histVars>>

\* asyncStatus: the ERR bit of the alternate status, BSY or not
AsyncStatus ==
    /\ Running("status")
    /\ SetState("complete")
    /\ dev' = Acknowledge(dev)
    /\ Then(<<Complete(IF dev.err THEN "device" ELSE "ok")>>)
    /\ UNCHANGED <<busVars, req, left, result, client, syncer, timerVars, nien, irqVars, histVars>>

\* Faulty variant: the next command is not dispatched.
CompleteAndStop ==
    /\ Running("complete")
    /\ SetState("done")
    /\ result' = [result EXCEPT ![current] = Head(stack).err]
    /\ current' = None
    /\ busy' = FALSE
    /\ enabled' = FALSE
    /\ armed' = FALSE
    /\ expired' = FALSE
    /\ Then(<<Callback(current)>>)
    /\ UNCHANGED <<queue, locked, req, left, client, syncer, started, waiting, deviceVars,
                   irqVars, served>>

\* completeIO: the timer is stopped, the bus freed, the caller told, and the
\* next command dispatched, all before the chain returns.
CompleteIO ==
    /\ Running("complete")
    /\ IF current = None
       THEN Then(<< >>) /\ UNCHANGED <<busy, current, state, result, enabled, armed, expired>>
       ELSE /\ SetState("done")
            /\ result' = [result EXCEPT ![current] = Head(stack).err]
            /\ current' = None
            /\ busy' = FALSE
            /\ enabled' = FALSE
            /\ armed' = FALSE
            /\ expired' = FALSE
            /\ Then(<<Callback(current), At("dispatch")>>)
    /\ UNCHANGED <<queue, locked, req, left, client, syncer, started, waiting, deviceVars,
                   irqVars, served>>

\* Faulty variant, the order before the patch: the caller is signalled while
\* the command is still to be written.
ExecuteCallbackSignalFirst ==
    /\ Running("callback")
    /\ LET c == Head(stack).cmd
       IN  /\ client' = [client EXCEPT ![c] = "signalled"]
           /\ syncer' = [syncer EXCEPT ![c] = FALSE]
           /\ Then(<<Signal(c)>>)
    /\ UNCHANGED <<busVars, req, state, left, result, timerVars, deviceVars, irqVars, histVars>>

\* executeCallback clears the completion function or the syncer in the command ...
ExecuteCallback ==
    /\ Running("callback")
    /\ LET c == Head(stack).cmd
       IN  /\ syncer' = [syncer EXCEPT ![c] = FALSE]
           /\ Then(IF syncer[c] THEN <<Signal(c)>> ELSE << >>)
    /\ UNCHANGED <<busVars, req, state, left, result, client, timerVars, deviceVars, irqVars,
                   histVars>>

\* ... and calls or signals it last.  The one completion function, of getDeviceID,
\* signals its caller too: either may free the command from now on.
SignalCaller ==
    /\ Running("signal")
    /\ client' = [client EXCEPT ![Head(stack).cmd] = "signalled"]
    /\ Then(<< >>)
    /\ UNCHANGED <<busVars, req, state, left, result, syncer, timerVars, deviceVars, irqVars,
                   histVars>>

-----------------------------------------------------------------------------
(* Bus reset, event callouts, queue flush                                  *)

Depth == Cardinality({i \in DOMAIN stack : stack[i].at = "callout"})

\* handleBusReset: softResetBus, then executeEventCallouts, then completion.
\* For the callouts the queue is locked for all but immediate commands and the
\* bus freed; what was there is kept in the frame.
BusReset ==
    /\ Running("reset")
    /\ \E e \in {"ok", "timeout"} :
        /\ Then(<<Callout([locked |-> locked, busy |-> busy, cmd |-> current], None), Complete(e)>>)
        /\ dev' = [cmd |-> None, phase |-> IF e = "ok" THEN "idle" ELSE "busy", left |-> 0,
                   quiet |-> FALSE, err |-> FALSE, intrq |-> FALSE]
    /\ nien' = FALSE
    /\ locked' = TRUE
    /\ busy' = FALSE
    /\ current' = None
    /\ UNCHANGED <<queue, cmdVars, timerVars, irqVars, histVars>>

\* A driver that was called out to executes an immediate command on this
\* thread, re-entering the gate, and waits for it there.
NotifyEvent(c) ==
    /\ Running("callout")
    /\ Head(stack).waits = None
    /\ \E r \in Requests :
        /\ r.immediate
        /\ r.op = "reset" => Depth < MaxCallouts
        /\ Prepare(c, r)
        /\ Enqueue(c, r)
    /\ Then(<<At("dispatch"), Callout(Head(stack).saved, c)>>)
    /\ UNCHANGED <<locked, busy, current, timerVars, deviceVars, irqVars>>

\* The driver's wait is over.
CalloutWakes ==
    /\ Running("callout")
    /\ Head(stack).waits # None
    /\ Free(Head(stack).waits)
    /\ Then(<<Callout(Head(stack).saved, None)>>)

\* executeEventCallouts restores what it has saved.
EndCallouts ==
    /\ Running("callout")
    /\ Head(stack).waits = None
    /\ LET old == Head(stack).saved
       IN  locked' = old.locked /\ busy' = old.busy /\ current' = old.cmd
    /\ Then(<< >>)
    /\ UNCHANGED <<queue, cmdVars, timerVars, deviceVars, irqVars, histVars>>

\* handleQueueFlush fails every queued command.  The queue is locked for the
\* loop, which nothing can see: the bus is busy.  The flush command itself
\* is never completed.
FlushOne ==
    /\ Running("flush")
    /\ queue # << >>
    /\ queue' = Tail(queue)
    /\ result' = [result EXCEPT ![Head(queue)] = "flushed"]
    /\ Then(<<Callback(Head(queue)), At("flush")>>)
    /\ UNCHANGED <<locked, busy, current, req, state, left, client, syncer, timerVars, deviceVars,
                   irqVars, histVars>>

FlushDone ==
    /\ Running("flush")
    /\ queue = << >>
    /\ Then(<< >>)
    /\ UNCHANGED <<busVars, cmdVars, timerVars, deviceVars, irqVars, histVars>>

-----------------------------------------------------------------------------
\* What the thread inside the gate does next.
Step ==
    \/ HandleDeviceInterrupt
    \/ DispatchNothing \/ DispatchNext
    \/ SelectDevice \/ Selected \/ SelectFails
    \/ EnterPolling \/ LeavePolling \/ PollStatus
    \/ IssueCommand \/ IssueFails
    \/ \E l \in {"first", "data"} : TransferBlock(l) \/ TransferFails(l)
    \/ AsyncStatus \/ CompleteIO
    \/ ExecuteCallback \/ SignalCaller
    \/ BusReset \/ CalloutWakes \/ EndCallouts
    \/ FlushOne \/ FlushDone

Next ==
    \/ Step
    \/ \E c \in Commands : Submit(c) \/ Return(c) \/ NotifyEvent(c)
    \/ InterruptFilter \/ FilterAccepts \/ InterruptOccurred
    \/ TimerDue \/ TimerExpires \/ HandleTimeout
    \/ DeviceWantsData \/ DeviceFinishes \/ LineFloats

Spec == Init /\ [][Next]_vars

\* The thread in the gate goes on, time passes, the CPU takes interrupts and
\* runs thread calls.  The work loop and the timer's thread call contend for
\* the gate with the callers, and get it if they ask again and again.  The
\* device may fall silent, and a driver need not submit anything; one that is
\* called out to returns after finitely many commands.
FairSpec ==
    /\ Spec
    /\ WF_vars(Step) /\ SF_vars(EndCallouts)
    /\ WF_vars(TimerDue) /\ WF_vars(TimerExpires) /\ SF_vars(HandleTimeout)
    /\ WF_vars(InterruptFilter) /\ WF_vars(FilterAccepts) /\ SF_vars(InterruptOccurred)

-----------------------------------------------------------------------------
(* Correctness                                                             *)

Device ==
    [cmd : Commands \cup {None}, phase : {"idle", "busy", "drq"}, left : Nat,
     quiet : BOOLEAN, err : BOOLEAN, intrq : BOOLEAN]

\* Every variable has its type.
TypeOK ==
    /\ stack \in Seq(Frame)
    /\ queue \in Seq(Commands)
    /\ locked \in BOOLEAN
    /\ busy \in BOOLEAN
    /\ current \in Commands \cup {None}
    /\ req \in [Commands -> Request]
    /\ state \in [Commands -> {"initial", "started", "data", "status", "complete", "done"}]
    /\ left \in [Commands -> Nat]
    /\ result \in [Commands -> Error]
    /\ client \in [Commands -> {"idle", "waiting", "signalled"}]
    /\ syncer \in [Commands -> BOOLEAN]
    /\ enabled \in BOOLEAN
    /\ armed \in BOOLEAN
    /\ expired \in BOOLEAN
    /\ started \in Nat
    /\ waiting \in Nat
    /\ dev \in Device
    /\ nien \in BOOLEAN
    /\ latch \in BOOLEAN
    /\ edge \in BOOLEAN
    /\ masked \in BOOLEAN
    /\ filtering \in BOOLEAN
    /\ pending \in BOOLEAN
    /\ served \in [Commands -> BOOLEAN]

\* The frame holds the command: it will touch it, or put it back.
Holds(f, c) ==
    \/ f.at \in {"callback", "signal"} /\ f.cmd = c
    \/ f.at = "callout" /\ f.saved.cmd = c

\* Where the controller has a command.
Places(c) ==
    {<<"queue", i>> : i \in {j \in DOMAIN queue : queue[j] = c}}
        \cup {<<"stack", i>> : i \in {j \in DOMAIN stack : Holds(stack[j], c)}}
        \cup {<<"current", i>> : i \in {j \in {0} : current = c}}

\* A caller waits exactly for the commands that the controller has, and the
\* controller has each in one place: on the queue, as the current command,
\* put aside by an event callout, or about to be completed.  So no command is
\* lost between dispatchNext, completeIO and the callouts, none is completed
\* twice, and none is touched after executeCallback has handed it back and its
\* caller may have freed it.
Accounted ==
    \A c \in Commands :
        /\ client[c] = "waiting" <=> Places(c) # {}
        /\ \A p, q \in Places(c) : p = q

\* completeIO of the PIIX driver reads the flags of the current command before
\* the base class asks whether there is one, so there must be one whenever a
\* chain gets to completeIO, whatever was nested inside that chain.
CompletesACommand == Running("complete") => current # None

\* A driver that executes an immediate command in an event callout sleeps with
\* the gate closed, so its command must be complete when the chain gets back to
\* the driver: nobody else could complete it.
CalloutsDoNotBlock ==
    Running("callout") /\ Head(stack).waits # None => client[Head(stack).waits] = "signalled"

\* However selectDevice, synchronousIO and what they dispatch are nested, the
\* gate is never left with the interrupt source disabled or nIEN set: the next
\* interrupt-driven command would never be heard of.
InterruptsRestored == stack = << >> => ~masked /\ ~nien

\* A PIO read that is reported a success, polled or interrupt-driven, has been
\* finished by the device: asyncData takes a block only while the device offers
\* one, whichever late or false interrupt, expired timer or given-up wait has
\* brought the chain there.  Other commands have no such guarantee: asyncStatus
\* looks at ERR, BSY or not.
ReadsAreComplete ==
    \A c \in Commands :
        client[c] = "signalled" /\ req[c].op = "io" /\ req[c].data = "read" /\ result[c] = "ok" =>
            served[c] /\ left[c] = 0

\* The gate is never left with a command on the bus that only its interrupt
\* could complete.  That interrupt may be lost, as when synchronousIO clears the
\* latch after a command that its completion has dispatched, and none comes when
\* the device could not be selected; the timer of the command is still to go off.
NeverStranded ==
    stack = << >> /\ current # None /\ req[current].op = "io" =>
        enabled /\ (armed \/ started > 0 \/ waiting > 0)

\* Every caller gets its command back: whether the device answers, fails or
\* falls silent, an interrupt or the timer completes what was issued, and each
\* completion dispatches the next command.
EveryCommandCompletes ==
    \A c \in Commands : client[c] = "waiting" ~> client[c] = "signalled"

=============================================================================
