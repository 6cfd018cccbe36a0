--------------------------- MODULE ServerLifecycle ---------------------------
(***************************************************************************)
(* Starting and stopping a ThriftServer (src/python/server.rs) and the       *)
(* wrapper's serve_forever (python/thriftrs2/loader.py).                     *)
(*                                                                         *)
(* serve() spawns an accept loop in a thread of its own.  The loops of one   *)
(* server object share the flag `running' and a Notify that stores no        *)
(* permit: notify_waiters() reaches the Notified futures that exist at that *)
(* moment, and each iteration of the loop makes a new one.  serve(), stop() *)
(* and is_running() hold the GIL; the loops do not.                         *)
(***************************************************************************)
EXTENDS Integers, FiniteSets

CONSTANTS
    Serves,     \* invocations of serve() on one server object
    Forever,    \* those made by the wrapper's serve_forever
    Ports,
    PortOf,     \* the port each invocation listens on
    MaxConns    \* bound: connections that arrive in a behaviour

ASSUME LifecycleAssumption ==
    /\ Forever \subseteq Serves
    /\ PortOf \in [Serves -> Ports]
    /\ MaxConns \in Nat

VARIABLES
    running,    \* AtomicBool running
    caller,     \* the Python side of each invocation
    loop,       \* the accept loop it started
    woken,      \* the loop's pending futures: a shutdown or Ctrl+C was received
    backlog,    \* connections that wait to be accepted by each loop
    stopping,   \* stop() has cleared the flag and not notified yet
    asked,      \* ghost: loops that were alive when stop() cleared the flag
    conns       \* connections so far

vars == <<running, caller, loop, woken, backlog, stopping, asked, conns>>

CallerStates == {"idle", "refused", "polling", "watching", "returned"}

(* unbound: before bind; bound: the flag is not set yet; between: no future  *)
(* exists; selecting: at select!; leaving: out of the loop, the flag not     *)
(* cleared yet; cleared: the listener not dropped yet.                       *)
LoopStates == {"none", "unbound", "bound", "between", "selecting", "leaving",
               "cleared", "ended", "failed"}

Gone      == {"none", "ended", "failed"}
Accepting == {"between", "selecting"}
\* Mutant of Listening: the listener is dropped before the flag is cleared.
ListeningUntilLeft == {"bound", "between", "selecting"}

Listening == {"bound", "between", "selecting", "leaving", "cleared"}

TypeOK ==
    /\ running \in BOOLEAN
    /\ caller \in [Serves -> CallerStates]
    /\ loop \in [Serves -> LoopStates]
    /\ woken \in [Serves -> BOOLEAN]
    /\ backlog \in [Serves -> Nat]
    /\ stopping \in BOOLEAN
    /\ asked \subseteq Serves
    /\ conns \in 0..MaxConns

Init ==
    /\ running = FALSE
    /\ caller = [s \in Serves |-> "idle"]
    /\ loop = [s \in Serves |-> "none"]
    /\ woken = [s \in Serves |-> FALSE]
    /\ backlog = [s \in Serves |-> 0]
    /\ stopping = FALSE
    /\ asked = {}
    /\ conns = 0

-----------------------------------------------------------------------------
(* Python threads.  stop() holds the GIL between its two halves.            *)

CallerGoes(s, state) == caller' = [caller EXCEPT ![s] = state]
LoopGoes(s, state)   == loop' = [loop EXCEPT ![s] = state]

(* serve(): the test of the flag and the spawn are one step for Python; the *)
(* flag is set by the loop, later.                                          *)
Serve(s) ==
    /\ ~stopping /\ caller[s] = "idle"
    /\ IF running
       THEN CallerGoes(s, "refused") /\ UNCHANGED loop
       ELSE /\ CallerGoes(s, IF s \in Forever THEN "polling" ELSE "returned")
            /\ LoopGoes(s, "unbound")
    /\ UNCHANGED <<running, woken, backlog, stopping, asked, conns>>

(* serve_forever: wait until the flag is seen set, then until it is seen     *)
(* cleared.                                                                 *)
SeesStarted(s) ==
    /\ ~stopping /\ caller[s] = "polling" /\ running
    /\ CallerGoes(s, "watching")
    /\ UNCHANGED <<running, loop, woken, backlog, stopping, asked, conns>>

SeesStopped(s) ==
    /\ ~stopping /\ caller[s] = "watching" /\ ~running
    /\ CallerGoes(s, "returned")
    /\ UNCHANGED <<running, loop, woken, backlog, stopping, asked, conns>>

StopClears ==
    /\ ~stopping
    /\ stopping' = TRUE
    /\ running' = FALSE
    /\ asked' = asked \cup {s \in Serves : loop[s] \notin Gone}
    /\ UNCHANGED <<caller, loop, woken, backlog, conns>>

\* Mutant of StopNotifies: the loops are not notified.
StopNotifiesNobody ==
    /\ stopping
    /\ stopping' = FALSE
    /\ UNCHANGED <<running, caller, loop, woken, backlog, asked, conns>>

StopNotifies ==
    /\ stopping
    /\ stopping' = FALSE
    /\ woken' = [s \in Serves |-> woken[s] \/ loop[s] = "selecting"]
    /\ UNCHANGED <<running, caller, loop, backlog, asked, conns>>

Stop == StopClears \/ StopNotifies

-----------------------------------------------------------------------------
(* The accept loops.                                                        *)

(* Only one listener per port (external: the operating system).             *)
Bind(s) ==
    /\ loop[s] = "unbound"
    /\ \A t \in Serves : PortOf[t] = PortOf[s] => loop[t] \notin Listening
    /\ LoopGoes(s, "bound")
    /\ UNCHANGED <<running, caller, woken, backlog, stopping, asked, conns>>

(* The port is taken, by another loop or another process: a message is       *)
(* printed and the thread ends.                                             *)
BindFails(s) ==
    /\ loop[s] = "unbound"
    /\ LoopGoes(s, "failed")
    /\ UNCHANGED <<running, caller, woken, backlog, stopping, asked, conns>>

\* Mutant of SetRunning: nobody sets the flag.
SetRunningNot(s) ==
    /\ loop[s] = "bound"
    /\ LoopGoes(s, "between")
    /\ UNCHANGED <<running, caller, woken, backlog, stopping, asked, conns>>

SetRunning(s) ==
    /\ loop[s] = "bound"
    /\ running' = TRUE
    /\ LoopGoes(s, "between")
    /\ UNCHANGED <<caller, woken, backlog, stopping, asked, conns>>

(* select! makes its futures: from now on a notification is received.       *)
Select(s) ==
    /\ loop[s] = "between"
    /\ LoopGoes(s, "selecting")
    /\ woken' = [woken EXCEPT ![s] = FALSE]
    /\ UNCHANGED <<running, caller, backlog, stopping, asked, conns>>

\* Mutant of Accept: it does not wait for a connection.
AcceptUnchecked(s) ==
    /\ loop[s] = "selecting"
    /\ backlog' = [backlog EXCEPT ![s] = @ - 1]
    /\ LoopGoes(s, "between")
    /\ UNCHANGED <<running, caller, woken, stopping, asked, conns>>

(* The accept branch wins, also over a shutdown that is ready: select! picks *)
(* at random.  The other futures are dropped, with what they received.  The  *)
(* connection goes to a task of its own, or accept() failed; the loop        *)
(* continues either way.                                                    *)
Accept(s) ==
    /\ loop[s] = "selecting" /\ backlog[s] > 0
    /\ backlog' = [backlog EXCEPT ![s] = @ - 1]
    /\ woken' = [woken EXCEPT ![s] = FALSE]
    /\ LoopGoes(s, "between")
    /\ UNCHANGED <<running, caller, stopping, asked, conns>>

Leave(s) ==
    /\ loop[s] = "selecting" /\ woken[s]
    /\ woken' = [woken EXCEPT ![s] = FALSE]
    /\ LoopGoes(s, "leaving")
    /\ UNCHANGED <<running, caller, backlog, stopping, asked, conns>>

\* Mutant of ClearFlag: the flag is left set.
ClearFlagNot(s) ==
    /\ loop[s] = "leaving"
    /\ LoopGoes(s, "cleared")
    /\ UNCHANGED <<running, caller, woken, backlog, stopping, asked, conns>>

ClearFlag(s) ==
    /\ loop[s] = "leaving"
    /\ running' = FALSE
    /\ LoopGoes(s, "cleared")
    /\ UNCHANGED <<caller, woken, backlog, stopping, asked, conns>>

(* accept_loop returns: the listener is dropped with the connections nobody  *)
(* accepted, then the runtime with the connection tasks.                    *)
DropListener(s) ==
    /\ loop[s] = "cleared"
    /\ LoopGoes(s, "ended")
    /\ backlog' = [backlog EXCEPT ![s] = 0]
    /\ UNCHANGED <<running, caller, woken, stopping, asked, conns>>

-----------------------------------------------------------------------------
(* The environment.                                                         *)

Connect(s) ==
    /\ conns < MaxConns /\ loop[s] \in Listening
    /\ conns' = conns + 1
    /\ backlog' = [backlog EXCEPT ![s] = @ + 1]
    /\ UNCHANGED <<running, caller, loop, woken, stopping, asked>>

(* SIGINT reaches the loops whose ctrl_c() future was polled.               *)
CtrlC ==
    /\ \E W \in SUBSET {s \in Serves : loop[s] = "selecting"} :
         /\ W # {}
         /\ woken' = [s \in Serves |-> woken[s] \/ s \in W]
    /\ UNCHANGED <<running, caller, loop, backlog, stopping, asked, conns>>

-----------------------------------------------------------------------------
Polls(s) == SeesStarted(s) \/ SeesStopped(s)

LoopStep(s) ==
    \/ Bind(s)
    \/ BindFails(s)
    \/ SetRunning(s)
    \/ Select(s)
    \/ Accept(s)
    \/ Leave(s)
    \/ ClearFlag(s)
    \/ DropListener(s)

Next ==
    \/ \E s \in Serves : Serve(s) \/ Polls(s) \/ LoopStep(s) \/ Connect(s)
    \/ Stop
    \/ CtrlC

(* The runtime polls a loop that can go on, the wrapper's event loop polls   *)
(* its coroutines, and a stop() that has begun goes on.                     *)
Fairness ==
    /\ \A s \in Serves : WF_vars(LoopStep(s)) /\ WF_vars(Polls(s))
    /\ WF_vars(StopNotifies)

Spec == Init /\ [][Next]_vars
FairSpec == Spec /\ Fairness

-----------------------------------------------------------------------------
(* is_running() is never true without a loop that has set the flag and has   *)
(* not cleared it: a server that is gone is not reported as running.        *)
NoGhostServer ==
    running => \E s \in Serves : loop[s] \in {"between", "selecting", "leaving"}

(* Where all invocations use one port, a loop that accepts connections and   *)
(* was not told to stop is reported as running: a loop that is late to       *)
(* clear the flag still owns the port, so it cannot clear the flag of its    *)
(* successor.                                                               *)
RunningWhileAccepting ==
    \A s \in Serves : loop[s] \in Accepting /\ s \notin asked => running

(* Called over and over, stop() ends every loop, although each call may be   *)
(* missed by a loop that is between two iterations.                         *)
RepeatedStopEnds ==
    []<><<StopNotifies>>_vars =>
        \A s \in Serves : loop[s] = "unbound" ~> loop[s] \in Gone

(* serve_forever gets past its first loop, unless the bind failed or stop()  *)
(* or Ctrl+C came first.                                                    *)
ServeForeverStarts ==
    \A s \in Forever :
        caller[s] = "polling" ~>
            caller[s] # "polling" \/ s \in asked \/ loop[s] \in Gone

(* "Prevent starting multiple servers concurrently."                        *)
OneServer == Cardinality({s \in Serves : loop[s] \in Accepting}) <= 1

(* stop() "will notify the accept loop to exit".                            *)
StopEnds == \A s \in Serves : s \in asked ~> loop[s] \in Gone
=============================================================================
