--------------------------- MODULE RpcServerConn ---------------------------
(***************************************************************************)
(* The server task of one connection: accept_loop spawns it, then           *)
(* handle_connection reads a request, answers it and reads the next, one    *)
(* at a time (src/python/server.rs).                                        *)
(***************************************************************************)
EXTENDS RpcChannel

(* What a handler can do: return a value, raise an exception the IDL        *)
(* declares, or fail (any other exception, a value of the wrong type).      *)
HandlerOutcomes(m) ==
    {"value", "error"} \cup (IF m \in Throws THEN {"declared"} ELSE {})

\* Mutant of ReplyKind: an exception never matches the method's `throws'.
ReplyKindUndeclared(m, outcome) == IF outcome = "value" THEN "value" ELSE "appex"

(* A declared exception is recognised only where the handler is called: an  *)
(* `async def' handler raises when its coroutine is awaited, and that error *)
(* becomes an application exception.                                        *)
ReplyKind(m, outcome) ==
    CASE outcome = "value"    -> "value"
      [] outcome = "declared" -> IF m \in AsyncHandlers THEN "appex" ELSE "declared"
      [] OTHER                -> "appex"

AcceptConn(g) ==
    /\ g <= opened /\ srv[g] = "backlog"
    /\ srv' = [srv EXCEPT ![g] = "reading"]
    /\ UNCHANGED <<callVars, clientVars, wireVars, verdict>>

(* send_response_async: the reply is written, or the write fails (the peer  *)
(* is gone, the runtime is shut down) and the task ends.                    *)
SendResponse(g, c, kind) ==
    \/ /\ rep' = [rep EXCEPT ![g] = Append(@, [call |-> c, kind |-> kind])]
       /\ srv' = [srv EXCEPT ![g] = "reading"]
    \/ /\ srv' = [srv EXCEPT ![g] = "closed"]
       /\ UNCHANGED rep

\* Mutant of Respond: no test for oneway.
RespondAlways(g, c, kind) == SendResponse(g, c, kind)

(* The end of the request loop: oneway requests get no response.            *)
Respond(g, c, kind) ==
    IF IsOneway(c)
    THEN srv' = [srv EXCEPT ![g] = "reading"] /\ UNCHANGED rep
    ELSE SendResponse(g, c, kind)

(* recv_request_frame_async returns the next frame.                         *)
Requested(g) == sent[g][taken[g] + 1]

TakesRequest(g) ==
    /\ srv[g] = "reading" /\ taken[g] < flushed[g]
    /\ taken' = [taken EXCEPT ![g] = @ + 1]

(* decode_request fails: `?' leaves the loop and the connection closes      *)
(* without an answer.                                                       *)
DecodeFails(g) ==
    /\ TakesRequest(g)
    /\ MethodOf[Requested(g)] \in Served \cap Undecodable
    /\ srv' = [srv EXCEPT ![g] = "closed"]
    /\ UNCHANGED <<callVars, clientVars, sent, flushed, rep, got, verdict>>

UnknownMethod(g) ==
    /\ TakesRequest(g)
    /\ MethodOf[Requested(g)] \notin Served
    /\ verdict' = [verdict EXCEPT ![Requested(g)] = "rejected"]
    /\ Respond(g, Requested(g), "appex")
    /\ UNCHANGED <<callVars, clientVars, sent, flushed, got>>

(* No handler: the application exception is sent whatever the message type, *)
(* and `continue' skips the test for oneway.                                *)
NoHandler(g) ==
    /\ TakesRequest(g)
    /\ MethodOf[Requested(g)] \in Served \ (Undecodable \cup Registered)
    /\ verdict' = [verdict EXCEPT ![Requested(g)] = "rejected"]
    /\ SendResponse(g, Requested(g), "appex")
    /\ UNCHANGED <<callVars, clientVars, sent, flushed, got>>

HasHandler(g) ==
    MethodOf[Requested(g)] \in (Served \cap Registered) \ Undecodable

(* A decoded argument does not convert to Python: the handler is not called. *)
ArgsRejected(g) ==
    /\ TakesRequest(g)
    /\ HasHandler(g)
    /\ verdict' = [verdict EXCEPT ![Requested(g)] = "rejected"]
    /\ Respond(g, Requested(g), "appex")
    /\ UNCHANGED <<callVars, clientVars, sent, flushed, got>>

\* Mutant of InvokeHandler: the next request is read while the handler runs.
InvokeHandlerSpawned(g) ==
    /\ TakesRequest(g)
    /\ HasHandler(g)
    /\ verdict' = [verdict EXCEPT ![Requested(g)] = "started"]
    /\ UNCHANGED <<callVars, clientVars, sent, flushed, rep, got, srv>>

InvokeHandler(g) ==
    /\ TakesRequest(g)
    /\ HasHandler(g)
    /\ verdict' = [verdict EXCEPT ![Requested(g)] = "started"]
    /\ srv' = [srv EXCEPT ![g] = "handling"]
    /\ UNCHANGED <<callVars, clientVars, sent, flushed, rep, got>>

\* Mutant of FinishHandler: a handler that failed is called again.
FinishHandlerRetries(g) ==
    /\ srv[g] = "handling"
    /\ \E outcome \in HandlerOutcomes(MethodOf[Cur(g)]) :
         /\ verdict' = [verdict EXCEPT ![Cur(g)] = outcome]
         /\ IF outcome = "error"
            THEN UNCHANGED <<srv, rep>>
            ELSE Respond(g, Cur(g), ReplyKind(MethodOf[Cur(g)], outcome))
    /\ UNCHANGED <<callVars, clientVars, sent, flushed, taken, got>>

(* The handler returns or raises; the reply body, or the exception reply    *)
(* that replaces it, answers the request.                                   *)
FinishHandler(g) ==
    /\ srv[g] = "handling"
    /\ \E outcome \in HandlerOutcomes(MethodOf[Cur(g)]) :
         /\ verdict' = [verdict EXCEPT ![Cur(g)] = outcome]
         /\ Respond(g, Cur(g), ReplyKind(MethodOf[Cur(g)], outcome))
    /\ UNCHANGED <<callVars, clientVars, sent, flushed, taken, got>>

(* The peer closed: end of file, or a reset that loses what was unread.     *)
PeerClosed(g) ==
    /\ srv[g] = "reading" /\ ClientGone(g)
    /\ srv' = [srv EXCEPT ![g] = "closed"]
    /\ UNCHANGED <<callVars, clientVars, wireVars, verdict>>

(* The accept loop ended and the runtime is dropped: the listener with its  *)
(* backlog, and each task that is at an await point.  A sync handler runs   *)
(* to its end on its worker thread.                                         *)
Shutdown(g) ==
    /\ g <= opened
    /\ \/ srv[g] \in {"backlog", "reading"}
       \/ srv[g] = "handling" /\ MethodOf[Cur(g)] \in AsyncHandlers
    /\ srv' = [srv EXCEPT ![g] = "closed"]
    /\ UNCHANGED <<callVars, clientVars, wireVars, verdict>>

TaskStep(g) ==
    \/ AcceptConn(g)
    \/ DecodeFails(g)
    \/ UnknownMethod(g)
    \/ NoHandler(g)
    \/ ArgsRejected(g)
    \/ InvokeHandler(g)
    \/ FinishHandler(g)
    \/ PeerClosed(g)

ServerNext == \E g \in Conns : TaskStep(g) \/ Shutdown(g)
=============================================================================
