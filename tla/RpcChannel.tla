----------------------------- MODULE RpcChannel -----------------------------
(***************************************************************************)
(* What one thriftrs2 client and the server's connection tasks share: the  *)
(* calls the Python program makes, the client's connection slot behind its *)
(* mutex, and per TCP connection the frames sent, the replies written and  *)
(* the state of the server task.                                           *)
(*                                                                         *)
(* Both directions of a connection are kept as immutable queues: `sent'    *)
(* and `rep' only grow, and cursors say how much was flushed, taken by the *)
(* server and read by the client.  A frame is named by the call that built *)
(* it; its method, message type and seq_id are those of the call.          *)
(***************************************************************************)
EXTENDS Integers, Sequences

CONSTANTS
    Calls,          \* invocations of client.call(...)
    Methods,        \* methods of the IDL service the client was built from
    MethodOf,       \* the method each call names
    Oneway,         \* methods declared `oneway'
    Served,         \* methods of the service definition the server has
    Registered,     \* methods with a handler (register_handler)
    AsyncHandlers,  \* registered handlers for which iscoroutinefunction holds
    Throws,         \* methods that declare a `throws' exception
    Undecodable,    \* methods whose argument struct the server cannot decode
    Cancellable,    \* TRUE: AsyncThriftClient, whose awaitables can be cancelled
    MaxConns,       \* bound: connections opened in a behaviour
    SeqSpace,       \* number of seq_id values (2^32 in the code)
    NoCall          \* the mutex is free; no reply was received

ASSUME RpcAssumption ==
    /\ MethodOf \in [Calls -> Methods]
    /\ Oneway \subseteq Methods
    /\ Served \subseteq Methods
    /\ Registered \subseteq Methods
    /\ AsyncHandlers \subseteq Registered
    /\ Throws \subseteq Methods
    /\ Undecodable \subseteq Methods
    /\ Cancellable \in BOOLEAN
    /\ MaxConns \in Nat
    /\ SeqSpace \in Nat \ {0}
    /\ NoCall \notin Calls

VARIABLES
    pc,       \* where each call is
    seq,      \* the seq_id each call took
    gen,      \* the connection a call's frame was written to (0: none yet)
    res,      \* how each call ended, as its Python caller sees it
    from,     \* ghost: the call whose request the received reply answers
    seqId,    \* AtomicI32 seq_id of the client
    lock,     \* the call that holds the client's connection mutex
    conn,     \* the client's Option<Connection> (0: None)
    dialled,  \* connections established by open() but not stored yet
    opened,   \* how many connections were established
    sent,     \* frames written to each connection's BufWriter
    flushed,  \* how many of them left the BufWriter for the socket
    taken,    \* how many of them the server task has read
    rep,      \* replies the server wrote on each connection
    got,      \* how many of them the client has read
    srv,      \* the server task of each connection
    verdict   \* ghost: what the server did with each call's request

callVars   == <<pc, seq, gen, res, from>>
clientVars == <<seqId, lock, conn, dialled, opened>>
wireVars   == <<sent, flushed, taken, rep, got>>
serverVars == <<srv, verdict>>
vars == <<callVars, clientVars, wireVars, serverVars>>

Conns == 1..MaxConns

IsOneway(c) == MethodOf[c] \in Oneway

\* How a call can end: a decoded reply, None for a oneway, or a Python error.
ReplyKinds  == {"value", "declared", "appex"}
LocalEnds   == {"none", "badargs", "notopen", "ioerror", "cancelled"}
Results     == ReplyKinds \cup LocalEnds \cup {"pending"}

CallStates  == {"idle", "ready", "sending", "receiving", "done"}
TaskStates  == {"backlog", "reading", "handling", "closed"}
Verdicts    == {"none", "rejected", "started", "value", "declared", "error"}

Reply == [call : Calls, kind : ReplyKinds]

\* The client dropped its end: the connection is neither stored nor about to be.
ClientGone(g) == g <= opened /\ g # conn /\ g \notin dialled

\* The request the server task of g is working on.
Cur(g) == sent[g][taken[g]]

TypeOK ==
    /\ pc \in [Calls -> CallStates]
    /\ seq \in [Calls -> 0..(SeqSpace - 1)]
    /\ gen \in [Calls -> 0..MaxConns]
    /\ res \in [Calls -> Results]
    /\ from \in [Calls -> Calls \cup {NoCall}]
    /\ seqId \in 0..(SeqSpace - 1)
    /\ lock \in Calls \cup {NoCall}
    /\ conn \in 0..opened
    /\ dialled \subseteq 1..opened
    /\ opened \in 0..MaxConns
    /\ sent \in [Conns -> Seq(Calls)]
    /\ flushed \in [Conns -> Nat]
    /\ taken \in [Conns -> Nat]
    /\ rep \in [Conns -> Seq(Reply)]
    /\ got \in [Conns -> Nat]
    /\ srv \in [Conns -> TaskStates]
    /\ verdict \in [Calls -> Verdicts]

Init ==
    /\ pc = [c \in Calls |-> "idle"]
    /\ seq = [c \in Calls |-> 0]
    /\ gen = [c \in Calls |-> 0]
    /\ res = [c \in Calls |-> "pending"]
    /\ from = [c \in Calls |-> NoCall]
    /\ seqId = 0
    /\ lock = NoCall
    /\ conn = 0
    /\ dialled = {}
    /\ opened = 0
    /\ sent = [g \in Conns |-> <<>>]
    /\ flushed = [g \in Conns |-> 0]
    /\ taken = [g \in Conns |-> 0]
    /\ rep = [g \in Conns |-> <<>>]
    /\ got = [g \in Conns |-> 0]
    /\ srv = [g \in Conns |-> "backlog"]
    /\ verdict = [c \in Calls |-> "none"]
=============================================================================
