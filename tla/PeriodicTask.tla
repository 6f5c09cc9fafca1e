----------------------------- MODULE PeriodicTask -----------------------------
(***************************************************************************)
(* PeriodicTask (src/rallyci/common/periodictask.py): start() schedules   *)
(* _run with loop.call_later and keeps the handle in self._handler; _run  *)
(* calls the method and schedules itself again; stop() cancels           *)
(* self._handler.  Timer callbacks run atomically on the event loop; the  *)
(* owner's start/stop calls happen between callbacks, or from inside the  *)
(* method.  Handles are numbered in the order call_later makes them.      *)
(*                                                                         *)
(* `started` is a ghost: the owner's view, set by start() and cleared by  *)
(* stop().  With CallerMisuse FALSE the owner starts only a stopped task   *)
(* and stops only a started one, never from the method; MethodMayRaise    *)
(* lets the method raise.                                                  *)
(***************************************************************************)
EXTENDS Naturals

CONSTANTS
    MaxFires,        \* method calls explored
    MaxCalls,        \* start/stop calls the owner makes
    CallerMisuse,    \* the owner may start twice, stop twice, or call from method
    MethodMayRaise   \* the method may raise

ASSUME PeriodicAssumption ==
    /\ MaxFires \in Nat /\ MaxCalls \in Nat
    /\ CallerMisuse \in BOOLEAN /\ MethodMayRaise \in BOOLEAN

VARIABLES
    pending,   \* handles scheduled with call_later and not cancelled or run
    handler,   \* self._handler (0: not set yet)
    next,      \* the number the next call_later handle gets
    rpc,       \* "none", or "method" while _run's self.run() executes
    started,   \* ghost: the owner has started and not stopped the task
    fired,     \* calls of the method
    calls      \* owner calls of start and stop

vars == <<pending, handler, next, rpc, started, fired, calls>>

TypeOK ==
    /\ pending \subseteq Nat /\ handler \in Nat /\ next \in Nat /\ next > 0
    /\ rpc \in {"none", "method"}
    /\ started \in BOOLEAN
    /\ fired \in 0..MaxFires /\ calls \in 0..MaxCalls

Init ==
    /\ pending = {} /\ handler = 0 /\ next = 1
    /\ rpc = "none" /\ started = FALSE
    /\ fired = 0 /\ calls = 0

\* call_later(interval, _run): a new handle, kept in self._handler.
Schedule == /\ pending' = pending \cup {next}
            /\ handler' = next
            /\ next' = next + 1

\* stop(): self._handler.cancel(); a handle that already ran is a no-op.
Cancel == pending' = pending \ {handler}

\* Mutant: start() calls call_later without keeping the handle.
StartUnkept ==
    /\ rpc = "none" /\ calls < MaxCalls /\ (CallerMisuse \/ ~started)
    /\ pending' = pending \cup {next} /\ next' = next + 1
    /\ started' = TRUE /\ calls' = calls + 1
    /\ UNCHANGED <<handler, rpc, fired>>

\* start(), called by the owner between callbacks.
Start ==
    /\ rpc = "none" /\ calls < MaxCalls /\ (CallerMisuse \/ ~started)
    /\ Schedule
    /\ started' = TRUE /\ calls' = calls + 1
    /\ UNCHANGED <<rpc, fired>>

\* Mutant: stop() forgets to cancel the handle.
StopKeepsTimer ==
    /\ rpc = "none" /\ calls < MaxCalls /\ handler # 0
    /\ (CallerMisuse \/ started)
    /\ started' = FALSE /\ calls' = calls + 1
    /\ UNCHANGED <<pending, handler, next, rpc, fired>>

\* stop(), called by the owner between callbacks (before any start() it
\* raises AttributeError and changes nothing, so it is left out).
Stop ==
    /\ rpc = "none" /\ calls < MaxCalls /\ handler # 0
    /\ (CallerMisuse \/ started)
    /\ Cancel
    /\ started' = FALSE /\ calls' = calls + 1
    /\ UNCHANGED <<handler, next, rpc, fired>>

\* Mutant: runs are not counted against MaxFires.
FireUnbounded(h) ==
    /\ rpc = "none" /\ h \in pending
    /\ pending' = pending \ {h}
    /\ rpc' = "method" /\ fired' = fired + 1
    /\ UNCHANGED <<handler, next, started, calls>>

\* The loop runs a due handle: _run starts and calls self.run(), the method.
Fire(h) ==
    /\ rpc = "none" /\ h \in pending /\ fired < MaxFires
    /\ pending' = pending \ {h}
    /\ rpc' = "method" /\ fired' = fired + 1
    /\ UNCHANGED <<handler, next, started, calls>>

\* Mutant: _run does not schedule itself again.
ResumeNoResched ==
    /\ rpc = "method"
    /\ rpc' = "none"
    /\ UNCHANGED <<pending, handler, next, started, fired, calls>>

\* The method returns; _run schedules itself again.
Resched ==
    /\ rpc = "method"
    /\ Schedule
    /\ rpc' = "none"
    /\ UNCHANGED <<started, fired, calls>>

\* The method raises: _run ends before its call_later, and the loop logs
\* the exception.
MethodRaises ==
    /\ rpc = "method" /\ MethodMayRaise
    /\ rpc' = "none"
    /\ UNCHANGED <<pending, handler, next, started, fired, calls>>

\* The method itself calls stop() on its task.
MethodStops ==
    /\ rpc = "method" /\ CallerMisuse /\ calls < MaxCalls /\ handler # 0
    /\ Cancel
    /\ started' = FALSE /\ calls' = calls + 1
    /\ UNCHANGED <<handler, next, rpc, fired>>

\* The method itself calls start() on its task.
MethodStarts ==
    /\ rpc = "method" /\ CallerMisuse /\ calls < MaxCalls
    /\ Schedule
    /\ started' = TRUE /\ calls' = calls + 1
    /\ UNCHANGED <<rpc, fired>>

\* The bounds are reached: no more calls, no more runs.
Finished ==
    /\ rpc = "none" /\ calls = MaxCalls
    /\ pending = {} \/ fired = MaxFires
    /\ UNCHANGED vars

\* The event loop's own steps.
Loop == (\E h \in pending : Fire(h)) \/ Resched \/ MethodRaises

Next ==
    \/ Start \/ Stop \/ MethodStops \/ MethodStarts
    \/ Loop
    \/ Finished

(* The loop runs every due timer and every callback to its end.           *)
Spec == Init /\ [][Next]_vars /\ WF_vars(Loop)

-----------------------------------------------------------------------------
(* Properties                                                               *)

(* The handle self._handler refers to is the only live one, and the task  *)
(* runs only while started: so stop() cancels the whole timer chain.      *)
TickInv ==
    /\ pending \subseteq {handler}
    /\ rpc # "none" => pending = {} /\ started
    /\ pending # {} => started

(* PeriodicTask implements Ticker: the method is called only between     *)
(* start() and stop(), with `on` the owner's view.                        *)
T == INSTANCE Ticker WITH on <- started
TickerSafety == T!Spec

(* A started task keeps calling its method until stopped: a timer chain   *)
(* is alive whenever the owner has started the task.                      *)
KeepsTicking ==
    \A n \in 0..(MaxFires - 1) :
        started /\ fired = n ~> fired > n \/ ~started
===============================================================================
