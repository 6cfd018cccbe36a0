----------------------------- MODULE InProcess -----------------------------
(***************************************************************************)
(* The blocking client and the server it talks to in one Python process:    *)
(* ThriftRpc with the GIL.  A call lets go of the GIL before it waits for    *)
(* the client's mutex, and gets it back after it has released the mutex.     *)
(* open(), close() and is_open() wait for the mutex with the GIL in hand,    *)
(* and the server needs the GIL for its handlers.                           *)
(***************************************************************************)
EXTENDS ThriftRpc

VARIABLES
    gil,        \* "free", or which of open, close and is_open has it and
                \*   waits for the client's mutex
    returned    \* the calls that are over and have the GIL again

locks == <<gil, returned>>
processVars == <<vars, locks>>

ProcessTypeOK ==
    /\ TypeOK
    /\ gil \in {"free", "open", "close", "is_open"}
    /\ returned \subseteq Calls

ProcessInit == Init /\ gil = "free" /\ returned = {}

(* A stretch of code without the GIL, and one that has it from beginning to  *)
(* end and waits for nothing in between.                                    *)
Detached(Step) == Step /\ UNCHANGED locks
Attached(Step) == gil = "free" /\ Step /\ UNCHANGED locks

-----------------------------------------------------------------------------
(* call(): serialised with the GIL; the mutex, the frame and the reply        *)
(* without it.                                                              *)
EnterCall(c) == Attached(StartCall(c))

\* Mutant of Exchange: py.detach is forgotten.
ExchangeAttached(c) == Attached(CallStep(c))

Exchange(c) == Detached(CallStep(c))

(* The thread gets the GIL again, and the caller its result.                  *)
ReturnCall(c) ==
    /\ pc[c] = "done" /\ c \notin returned /\ gil = "free"
    /\ returned' = returned \cup {c}
    /\ UNCHANGED <<vars, gil>>

(* open() connects without the GIL.                                         *)
Connect == Detached(Dial)

(* open(), behind its connect, close() and is_open() before the mutex ...     *)
WaitForMutex ==
    /\ gil = "free"
    /\ gil' \in {"close", "is_open"} \cup (IF dialled = {} THEN {} ELSE {"open"})
    /\ UNCHANGED <<vars, returned>>

(* ... and when they have it.                                                *)
GetMutex ==
    /\ gil # "free" /\ lock = NoCall
    /\ \/ gil = "open" /\ \E g \in dialled : StoreConn(g)
       \/ gil = "close" /\ Close
       \/ gil = "close" /\ conn = 0 /\ UNCHANGED vars
       \/ gil = "is_open" /\ UNCHANGED vars
    /\ gil' = "free"
    /\ UNCHANGED returned

(* What the connection task does in Rust alone, and what it needs Python for: *)
(* to convert the arguments, to run the handler, to convert its result.  A    *)
(* task that waits for the GIL occupies its worker.                          *)
RustStep(g) ==
    Detached(AcceptConn(g) \/ DecodeFails(g) \/ UnknownMethod(g) \/ NoHandler(g) \/ PeerClosed(g))

HandlerStep(g) == Attached(ArgsRejected(g) \/ InvokeHandler(g) \/ FinishHandler(g))

ServerGone(g) == Detached(Shutdown(g))

ProcessNext ==
    \/ \E c \in Calls : EnterCall(c) \/ Exchange(c) \/ ReturnCall(c)
    \/ Connect
    \/ WaitForMutex
    \/ GetMutex
    \/ \E g \in Conns : RustStep(g) \/ HandlerStep(g) \/ ServerGone(g)

(* A thread that can go on does, and so does a task.  The GIL is asked for     *)
(* again and again by others, so a thread that waits for it needs more: the   *)
(* interpreter makes a thread that gives it up let another one have it.       *)
Fairness ==
    /\ \A c \in Calls : WF_processVars(Exchange(c)) /\ SF_processVars(ReturnCall(c))
    /\ WF_processVars(GetMutex)
    /\ \A g \in Conns : WF_processVars(RustStep(g)) /\ SF_processVars(HandlerStep(g))

ProcessSpec == ProcessInit /\ [][ProcessNext]_processVars /\ Fairness

-----------------------------------------------------------------------------
(* The circle: a thread has the GIL and waits for the mutex, a call has the   *)
(* mutex and waits for its reply, the handler that makes the reply waits for  *)
(* the GIL.                                                                 *)
NeedsPython(c) == MethodOf[c] \in (Served \cap Registered) \ Undecodable

Circle ==
    /\ gil # "free" /\ lock # NoCall
    /\ \E i \in 1 .. Len(sent[gen[lock]]) :
         LET c == sent[gen[lock]][i] IN
         NeedsPython(c) /\ verdict[c] \in {"none", "started"}

(* A call that is ready to be sent comes back to its caller: with a reply,    *)
(* with None for a oneway, or with an error, whatever is unknown, undecodable, *)
(* broken off or shut down; or else the process stands in that circle, and in  *)
(* no other one.                                                            *)
CallsEnd == \A c \in Calls : pc[c] = "ready" ~> (c \in returned \/ Circle)
=============================================================================
