------------------------------ MODULE ThriftRpc ------------------------------
(***************************************************************************)
(* One client and the server's connection tasks together: what a Python     *)
(* caller can rely on when several threads, or several coroutines, share a   *)
(* client, connections are replaced and the server goes away.               *)
(***************************************************************************)
EXTENDS RpcClient, RpcServerConn, FiniteSets

Next == ClientNext \/ ServerNext

Spec == Init /\ [][Next]_vars

-----------------------------------------------------------------------------
\* A oneway request the server answers all the same.
Stray(c) ==
    IsOneway(c) /\ MethodOf[c] \in Served \ (Undecodable \cup Registered)

(* A call was cancelled after its frame was written to g, or a oneway call  *)
(* without a handler was written to it.                                     *)
Poisoned(g) == \E c \in Calls : gen[c] = g /\ (res[c] = "cancelled" \/ Stray(c))

(* A call holds the mutex exactly while its frame is being sent or its      *)
(* reply awaited, and then its connection is the stored one: open and close *)
(* cannot pull a connection from under a call, and two calls never talk on  *)
(* a connection at a time.                                                  *)
OneCallAtATime ==
    /\ \A c \in Calls : pc[c] \in {"sending", "receiving"} <=> lock = c
    /\ lock # NoCall => conn # 0 /\ gen[lock] = conn

(* Nothing compares seq_ids, so correlation rests on the mutex and on one   *)
(* reply per two-way request: on a connection that is not poisoned each     *)
(* caller gets the reply to its own request.                                *)
OwnReplyUnlessPoisoned ==
    \A c \in Calls : from[c] \in {NoCall, c} \/ Poisoned(gen[c])

(* The same without exception, where nothing can poison a connection.       *)
OwnReply == \A c \in Calls : from[c] \in {NoCall, c}

(* "concurrent gather() calls on a single client must serialise at the      *)
(* connection level": on a connection the server has not closed, at most    *)
(* one two-way request waits for the client to read its reply.              *)
ReplyRead(c) == \E k \in 1..got[gen[c]] : rep[gen[c]][k].call = c

Unanswered(g) ==
    {c \in Calls : gen[c] = g /\ ~IsOneway(c) /\ ~ReplyRead(c)}

Serialised ==
    \A g \in Conns : srv[g] # "closed" => Cardinality(Unanswered(g)) <= 1

(* Even when it is not its own, a reply comes from the call's own           *)
(* connection and from a request sent no later: reopening the client leaves *)
(* every stale reply behind.                                                *)
Before(d, c) ==
    \E i, j \in 1..Len(sent[gen[c]]) :
        i <= j /\ sent[gen[c]][i] = d /\ sent[gen[c]][j] = c

StaleFromSameConn ==
    \A c \in Calls : from[c] # NoCall => gen[from[c]] = gen[c] /\ Before(from[c], c)

(* A foreign reply carries another seq_id than the call that receives it:   *)
(* the comparison the client leaves out would have caught it.               *)
StaleIsDetectable ==
    \A c \in Calls : from[c] \notin {NoCall, c} => seq[from[c]] # seq[c]

(* A connection's requests are served in the order they were written: none  *)
(* is looked at before the handlers of those ahead of it have ended.        *)
ServedInOrder ==
    \A g \in Conns : \A i, j \in 1..Len(sent[g]) :
        i < j /\ verdict[sent[g][j]] # "none"
            => verdict[sent[g][i]] \notin {"none", "started"}

(* A handler runs at most once per call, and what it did is never revised:  *)
(* neither client retries, neither server task handles a frame twice.       *)
RunsAtMostOnce ==
    [][\A c \in Calls : verdict'[c] # verdict[c] =>
         \/ verdict[c] = "none" /\ verdict'[c] \in {"rejected", "started"}
         \/ verdict[c] = "started" /\ verdict'[c] \in {"value", "declared", "error"}]_vars

(* A declared exception raised by a handler reaches the caller as one:      *)
(* "Declared exceptions can be returned over RPC when a handler raises".    *)
DeclaredDelivered ==
    \A c \in Calls :
        from[c] # NoCall /\ verdict[from[c]] = "declared" => res[c] = "declared"

-----------------------------------------------------------------------------
(* The client, its connections and the server implement AtMostOnceCall.     *)
statusBar ==
    [c \in Calls |-> IF pc[c] \in {"idle", "done"} THEN pc[c] ELSE "pending"]

Promise == INSTANCE AtMostOnceCall WITH
    OnewayCalls <- {c \in Calls : IsOneway(c)},
    status <- statusBar, served <- verdict, outcome <- res

(* Each call is served at most once, its reply is the outcome of its own    *)
(* execution, and a refused call is never executed.                         *)
ImplementsAtMostOnce == Promise!AbsSpec
=============================================================================
