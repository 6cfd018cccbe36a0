-------------------------- MODULE ThriftRpc_proofs --------------------------
(***************************************************************************)
(* Proofs about ThriftRpc, for any set of calls, methods and connections,    *)
(* with or without cancellation.  The invariant of RpcInvariant is proved    *)
(* layer by layer.                                                          *)
(***************************************************************************)
EXTENDS RpcInvariant, TLAPS

USE RpcAssumption DEF RpcAssumption

-----------------------------------------------------------------------------
(* Facts the layers share.                                                  *)

LEMMA ModRange == \A n \in Nat, m \in Nat \ {0} : n % m \in 0..(m - 1)
OBVIOUS

(* A call past the mutex holds it and talks on the stored connection.       *)
LEMMA HolderOnConn ==
    ASSUME Layer1, NEW c \in Calls, pc[c] \in {"sending", "receiving"}
    PROVE  lock = c /\ gen[c] = conn /\ conn \in Conns
BY DEF Layer1, TypeOK, MutexInv, OneCallAtATime, Conns

(* The reply at the client's cursor, if there is one.                       *)
LEMMA NextReply ==
    ASSUME Layer1, NEW g \in Conns, got[g] < Len(rep[g])
    PROVE  got[g] + 1 \in 1..Len(rep[g]) /\ rep[g][got[g] + 1] \in Reply
<1>1. rep[g] \in Seq(Reply) /\ got[g] \in Nat /\ Len(rep[g]) \in Nat
    BY DEF Layer1, TypeOK
<1>2. got[g] + 1 \in 1..Len(rep[g])
    BY <1>1
<1>. QED
    BY <1>1, <1>2

(* The request at the server's cursor, if there is one.                     *)
LEMMA NextRequest ==
    ASSUME Layer1, NEW g \in Conns, taken[g] < flushed[g]
    PROVE  taken[g] + 1 \in OnWire(g) /\ Requested(g) \in Calls
<1>1. /\ sent[g] \in Seq(Calls) /\ Len(sent[g]) \in Nat
      /\ taken[g] \in Nat /\ flushed[g] \in Nat /\ flushed[g] <= Len(sent[g])
    BY DEF Layer1, TypeOK, CursorInv, Cursors
<1>2. taken[g] + 1 \in OnWire(g)
    BY <1>1 DEF OnWire
<1>. QED
    BY <1>1, <1>2 DEF OnWire, Requested

(* The request a handler works on.                                          *)
LEMMA CurrentRequest ==
    ASSUME Layer1, NEW g \in Conns, srv[g] = "handling"
    PROVE  taken[g] \in OnWire(g) /\ Cur(g) \in Calls
<1>1. /\ sent[g] \in Seq(Calls) /\ Len(sent[g]) \in Nat
      /\ taken[g] \in Nat /\ flushed[g] \in Nat
      /\ taken[g] > 0 /\ taken[g] <= flushed[g] /\ flushed[g] <= Len(sent[g])
    BY DEF Layer1, TypeOK, CursorInv, Cursors
<1>2. taken[g] \in OnWire(g)
    BY <1>1 DEF OnWire
<1>. QED
    BY <1>1, <1>2 DEF OnWire, Cur

-----------------------------------------------------------------------------
(* Layer 1: types, the mutex and the cursors.                               *)

LEMMA Layer1Init == Init => Layer1
BY DEF Init, Layer1, TypeOK, MutexInv, OneCallAtATime, CursorInv, Cursors, CallStates,
       Results, ReplyKinds, LocalEnds, TaskStates, Verdicts, Conns

LEMMA ClientTypes == Layer1 /\ ClientNext => TypeOK'
<1> SUFFICES ASSUME Layer1, ClientNext PROVE TypeOK'
    OBVIOUS
<1> USE DEF Layer1, TypeOK, Ends, callVars, wireVars, serverVars
<1>1. ASSUME NEW c \in Calls, StartCall(c) PROVE TypeOK'
    <2> USE <1>1 DEF StartCall
    <2>1. seq' \in [Calls -> 0..(SeqSpace - 1)] /\ seqId' \in 0..(SeqSpace - 1)
        BY ModRange
    <2>2. pc' \in [Calls -> CallStates] /\ res' \in [Calls -> Results]
        BY DEF CallStates, Results, LocalEnds
    <2>3. UNCHANGED <<gen, from, lock, conn, dialled, opened,
                      sent, flushed, taken, rep, got, srv, verdict>>
        OBVIOUS
    <2>. QED  BY <2>1, <2>2, <2>3
<1>2. ASSUME NEW c \in Calls, CallNotOpen(c) PROVE TypeOK'
    <2> USE <1>2 DEF CallNotOpen
    <2>1. pc' \in [Calls -> CallStates] /\ res' \in [Calls -> Results]
        BY DEF CallStates, Results, LocalEnds
    <2>2. UNCHANGED <<seq, gen, from, seqId, lock, conn, dialled, opened,
                      sent, flushed, taken, rep, got, srv, verdict>>
        BY DEF clientVars
    <2>. QED  BY <2>1, <2>2
<1>3. ASSUME NEW c \in Calls, WriteFrame(c) PROVE TypeOK'
    <2> USE <1>3 DEF WriteFrame
    <2>1. sent' \in [Conns -> Seq(Calls)]
        <3>1. conn \in Conns
            BY DEF Conns
        <3>2. Append(sent[conn], c) \in Seq(Calls)
            BY <3>1
        <3>. QED  BY <3>2
    <2>2. gen' \in [Calls -> 0..MaxConns]
        OBVIOUS
    <2>3. pc' \in [Calls -> CallStates] /\ lock' \in Calls \cup {NoCall}
        BY DEF CallStates
    <2>4. UNCHANGED <<seq, res, from, seqId, conn, dialled, opened,
                      flushed, taken, rep, got, srv, verdict>>
        OBVIOUS
    <2>. QED  BY <2>1, <2>2, <2>3, <2>4
<1>4. ASSUME NEW c \in Calls, Flush(c) PROVE TypeOK'
    <2> USE <1>4 DEF Flush
    <2>1. gen[c] \in Conns /\ Len(sent[gen[c]]) \in Nat
        BY HolderOnConn
    <2>2. flushed' \in [Conns -> Nat]
        BY <2>1
    <2>3. pc' \in [Calls -> CallStates] /\ lock' \in Calls \cup {NoCall}
          /\ res' \in [Calls -> Results]
        BY DEF CallStates, Results, LocalEnds
    <2>4. UNCHANGED <<seq, gen, from, seqId, conn, dialled, opened,
                      sent, taken, rep, got, srv, verdict>>
        OBVIOUS
    <2>. QED  BY <2>2, <2>3, <2>4
<1>5. ASSUME NEW c \in Calls, FlushFails(c) PROVE TypeOK'
    <2> USE <1>5 DEF FlushFails
    <2>1. pc' \in [Calls -> CallStates] /\ lock' \in Calls \cup {NoCall}
          /\ res' \in [Calls -> Results]
        BY DEF CallStates, Results, LocalEnds
    <2>2. UNCHANGED <<seq, gen, from, seqId, conn, dialled, opened,
                      sent, flushed, taken, rep, got, srv, verdict>>
        OBVIOUS
    <2>. QED  BY <2>1, <2>2
<1>6. ASSUME NEW c \in Calls, ReceiveReply(c) PROVE TypeOK'
    <2> USE <1>6 DEF ReceiveReply
    <2>1. gen[c] \in Conns
        BY HolderOnConn
    <2>2. rep[gen[c]][got[gen[c]] + 1] \in Reply /\ got[gen[c]] \in Nat
        BY <2>1, NextReply
    <2>3. got' \in [Conns -> Nat]
        BY <2>1, <2>2
    <2>4. from' \in [Calls -> Calls \cup {NoCall}]
        BY <2>2 DEF Reply
    <2>5. pc' \in [Calls -> CallStates] /\ lock' \in Calls \cup {NoCall}
          /\ res' \in [Calls -> Results]
        BY <2>2 DEF CallStates, Results, Reply
    <2>6. UNCHANGED <<seq, gen, seqId, conn, dialled, opened,
                      sent, flushed, taken, rep, srv, verdict>>
        OBVIOUS
    <2>. QED  BY <2>3, <2>4, <2>5, <2>6
<1>7. ASSUME NEW c \in Calls, ReceiveFails(c) PROVE TypeOK'
    <2> USE <1>7 DEF ReceiveFails
    <2>1. got' \in [Conns -> Nat]
        BY HolderOnConn
    <2>2. pc' \in [Calls -> CallStates] /\ lock' \in Calls \cup {NoCall}
          /\ res' \in [Calls -> Results]
        BY DEF CallStates, Results, LocalEnds
    <2>3. UNCHANGED <<seq, gen, from, seqId, conn, dialled, opened,
                      sent, flushed, taken, rep, srv, verdict>>
        OBVIOUS
    <2>. QED  BY <2>1, <2>2, <2>3
<1>8. ASSUME NEW c \in Calls, CancelCall(c) PROVE TypeOK'
    <2> USE <1>8 DEF CancelCall
    <2>1. pc' \in [Calls -> CallStates] /\ lock' \in Calls \cup {NoCall}
          /\ res' \in [Calls -> Results]
        BY DEF CallStates, Results, LocalEnds
    <2>2. UNCHANGED <<seq, gen, from, seqId, conn, dialled, opened,
                      sent, flushed, taken, rep, got, srv, verdict>>
        OBVIOUS
    <2>. QED  BY <2>1, <2>2
<1>9. ASSUME Dial PROVE TypeOK'
    <2> USE <1>9 DEF Dial
    <2>1. conn' \in 0..opened'
        OBVIOUS
    <2>2. dialled' \subseteq 1..opened' /\ opened' \in 0..MaxConns
        OBVIOUS
    <2>3. UNCHANGED <<pc, seq, gen, res, from, seqId, lock,
                      sent, flushed, taken, rep, got, srv, verdict>>
        OBVIOUS
    <2>. QED  BY <2>1, <2>2, <2>3
<1>10. ASSUME NEW g \in Conns, StoreConn(g) PROVE TypeOK'
    <2> USE <1>10 DEF StoreConn
    <2>1. conn' \in 0..opened'
        OBVIOUS
    <2>2. dialled' \subseteq 1..opened' /\ opened' \in 0..MaxConns
        OBVIOUS
    <2>3. UNCHANGED <<pc, seq, gen, res, from, seqId, lock,
                      sent, flushed, taken, rep, got, srv, verdict>>
        OBVIOUS
    <2>. QED  BY <2>1, <2>2, <2>3
<1>11. ASSUME NEW g \in Conns, CancelOpen(g) PROVE TypeOK'
    <2> USE <1>11 DEF CancelOpen
    <2>1. conn' \in 0..opened'
        OBVIOUS
    <2>2. dialled' \subseteq 1..opened' /\ opened' \in 0..MaxConns
        OBVIOUS
    <2>3. UNCHANGED <<pc, seq, gen, res, from, seqId, lock,
                      sent, flushed, taken, rep, got, srv, verdict>>
        OBVIOUS
    <2>. QED  BY <2>1, <2>2, <2>3
<1>12. ASSUME Close PROVE TypeOK'
    <2> USE <1>12 DEF Close
    <2>1. conn' \in 0..opened'
        OBVIOUS
    <2>2. dialled' \subseteq 1..opened' /\ opened' \in 0..MaxConns
        OBVIOUS
    <2>3. UNCHANGED <<pc, seq, gen, res, from, seqId, lock,
                      sent, flushed, taken, rep, got, srv, verdict>>
        OBVIOUS
    <2>. QED  BY <2>1, <2>2, <2>3
<1>. QED
    BY <1>1, <1>2, <1>3, <1>4, <1>5, <1>6, <1>7, <1>8, <1>9, <1>10, <1>11, <1>12
       DEF ClientNext, CallStep

(* Answering a request writes at most one reply and leaves the task reading  *)
(* or closed.                                                               *)
LEMMA SendTypes ==
    ASSUME Layer1, NEW g \in Conns, NEW c \in Calls, NEW kind \in ReplyKinds,
           SendResponse(g, c, kind)
    PROVE  rep' \in [Conns -> Seq(Reply)] /\ srv' \in [Conns -> TaskStates]
<1>1. [call |-> c, kind |-> kind] \in Reply
    BY DEF Reply
<1>2. rep[g] \in Seq(Reply)
    BY DEF Layer1, TypeOK
<1>3. Append(rep[g], [call |-> c, kind |-> kind]) \in Seq(Reply)
    BY <1>1, <1>2
<1>4. rep' \in [Conns -> Seq(Reply)]
    <2>1. \/ rep' = [rep EXCEPT ![g] = Append(rep[g], [call |-> c, kind |-> kind])]
          \/ rep' = rep
        BY DEF SendResponse
    <2>. QED  BY <2>1, <1>3 DEF Layer1, TypeOK
<1>5. srv' \in [Conns -> TaskStates]
    BY DEF Layer1, TypeOK, SendResponse, TaskStates
<1>. QED
    BY <1>4, <1>5

LEMMA RespondTypes ==
    ASSUME Layer1, NEW g \in Conns, NEW c \in Calls, NEW kind \in ReplyKinds,
           Respond(g, c, kind)
    PROVE  rep' \in [Conns -> Seq(Reply)] /\ srv' \in [Conns -> TaskStates]
BY SendTypes DEF Layer1, TypeOK, Respond, TaskStates

LEMMA ServerTypes == Layer1 /\ ServerNext => TypeOK'
<1> SUFFICES ASSUME Layer1, NEW g \in Conns, TaskStep(g) \/ Shutdown(g)
             PROVE  TypeOK'
    BY DEF ServerNext
<1> USE DEF Layer1, TypeOK, callVars, clientVars
<1>1. ASSUME \/ AcceptConn(g) \/ PeerClosed(g) \/ Shutdown(g)
      PROVE  TypeOK'
    <2>1. srv' \in [Conns -> TaskStates]
        BY <1>1 DEF AcceptConn, PeerClosed, Shutdown, TaskStates
    <2>2. UNCHANGED <<callVars, clientVars, wireVars, verdict>>
        BY <1>1 DEF AcceptConn, PeerClosed, Shutdown
    <2>. QED  BY <2>1, <2>2 DEF wireVars
<1>2. ASSUME DecodeFails(g) PROVE TypeOK'
    <2> USE <1>2 DEF DecodeFails, TakesRequest
    <2>1. taken' \in [Conns -> Nat] /\ srv' \in [Conns -> TaskStates]
        BY DEF TaskStates
    <2>2. UNCHANGED <<callVars, clientVars, sent, flushed, rep, got, verdict>>
        OBVIOUS
    <2>. QED  BY <2>1, <2>2
<1>3. ASSUME UnknownMethod(g) PROVE TypeOK'
    <2> USE <1>3 DEF UnknownMethod, TakesRequest
    <2>1. Requested(g) \in Calls
        BY NextRequest
    <2>2. taken' \in [Conns -> Nat]
        OBVIOUS
    <2>5. verdict' \in [Calls -> Verdicts]
        BY DEF Verdicts
    <2>3. rep' \in [Conns -> Seq(Reply)] /\ srv' \in [Conns -> TaskStates]
        BY <2>1, RespondTypes DEF ReplyKinds
    <2>4. UNCHANGED <<callVars, clientVars, sent, flushed, got>>
        OBVIOUS
    <2>. QED  BY <2>2, <2>3, <2>4, <2>5
<1>4. ASSUME NoHandler(g) PROVE TypeOK'
    <2> USE <1>4 DEF NoHandler, TakesRequest
    <2>1. Requested(g) \in Calls
        BY NextRequest
    <2>2. taken' \in [Conns -> Nat]
        OBVIOUS
    <2>5. verdict' \in [Calls -> Verdicts]
        BY DEF Verdicts
    <2>3. rep' \in [Conns -> Seq(Reply)] /\ srv' \in [Conns -> TaskStates]
        BY <2>1, SendTypes DEF ReplyKinds
    <2>4. UNCHANGED <<callVars, clientVars, sent, flushed, got>>
        OBVIOUS
    <2>. QED  BY <2>2, <2>3, <2>4, <2>5
<1>5. ASSUME ArgsRejected(g) PROVE TypeOK'
    <2> USE <1>5 DEF ArgsRejected, TakesRequest
    <2>1. Requested(g) \in Calls
        BY NextRequest
    <2>2. taken' \in [Conns -> Nat]
        OBVIOUS
    <2>5. verdict' \in [Calls -> Verdicts]
        BY DEF Verdicts
    <2>3. rep' \in [Conns -> Seq(Reply)] /\ srv' \in [Conns -> TaskStates]
        BY <2>1, RespondTypes DEF ReplyKinds
    <2>4. UNCHANGED <<callVars, clientVars, sent, flushed, got>>
        OBVIOUS
    <2>. QED  BY <2>2, <2>3, <2>4, <2>5
<1>6. ASSUME InvokeHandler(g) PROVE TypeOK'
    <2> USE <1>6 DEF InvokeHandler, TakesRequest
    <2>1. taken' \in [Conns -> Nat]
        OBVIOUS
    <2>2. verdict' \in [Calls -> Verdicts]
        BY DEF Verdicts
    <2>3. srv' \in [Conns -> TaskStates]
        BY DEF TaskStates
    <2>4. UNCHANGED <<callVars, clientVars, sent, flushed, rep, got>>
        OBVIOUS
    <2>. QED  BY <2>1, <2>2, <2>3, <2>4
<1>7. ASSUME FinishHandler(g) PROVE TypeOK'
    <2> USE <1>7 DEF FinishHandler
    <2>1. Cur(g) \in Calls
        BY CurrentRequest
    <2>2. PICK outcome \in HandlerOutcomes(MethodOf[Cur(g)]) :
              /\ verdict' = [verdict EXCEPT ![Cur(g)] = outcome]
              /\ Respond(g, Cur(g), ReplyKind(MethodOf[Cur(g)], outcome))
        OBVIOUS
    <2>3. verdict' \in [Calls -> Verdicts]
        BY <2>2 DEF HandlerOutcomes, Verdicts
    <2>4. ReplyKind(MethodOf[Cur(g)], outcome) \in ReplyKinds
        BY DEF ReplyKind, ReplyKinds
    <2>5. rep' \in [Conns -> Seq(Reply)] /\ srv' \in [Conns -> TaskStates]
        BY <2>1, <2>2, <2>4, RespondTypes
    <2>6. UNCHANGED <<callVars, clientVars, sent, flushed, taken, got>>
        OBVIOUS
    <2>. QED  BY <2>3, <2>5, <2>6
<1>. QED
    BY <1>1, <1>2, <1>3, <1>4, <1>5, <1>6, <1>7 DEF TaskStep

(* Who writes what.                                                         *)
LEMMA ServerLeaves == ServerNext => UNCHANGED <<callVars, clientVars, sent, flushed, got>>
BY DEF ServerNext, TaskStep, AcceptConn, DecodeFails, UnknownMethod, NoHandler,
       ArgsRejected, InvokeHandler, FinishHandler, PeerClosed, Shutdown, wireVars

LEMMA ClientLeaves == ClientNext => UNCHANGED <<taken, rep, srv, verdict>>
BY DEF ClientNext, CallStep, StartCall, CallNotOpen, WriteFrame, Flush, FlushFails,
       ReceiveReply, ReceiveFails, CancelCall, Dial, StoreConn, CancelOpen, Close,
       wireVars, serverVars

LEMMA MutexStep == Layer1 /\ [Next]_vars => MutexInv'
<1> SUFFICES ASSUME Layer1, [Next]_vars PROVE MutexInv'
    OBVIOUS
<1> USE DEF Layer1, TypeOK, MutexInv, OneCallAtATime, CallStates, Ends
<1>1. ASSUME NEW c \in Calls, StartCall(c) PROVE MutexInv'
    BY <1>1 DEF StartCall, callVars, clientVars
<1>2. ASSUME NEW c \in Calls, CallNotOpen(c) PROVE MutexInv'
    BY <1>2 DEF CallNotOpen, callVars, clientVars
<1>3. ASSUME NEW c \in Calls, WriteFrame(c) PROVE MutexInv'
    BY <1>3 DEF WriteFrame, callVars, clientVars
<1>4. ASSUME NEW c \in Calls, Flush(c) PROVE MutexInv'
    <2>1. lock = c /\ gen' = gen /\ conn' = conn /\ from' = from
        BY <1>4, HolderOnConn DEF Flush
    <2>2. CASE IsOneway(c)
        BY <1>4, <2>1, <2>2 DEF Flush
    <2>3. CASE ~IsOneway(c)
        BY <1>4, <2>1, <2>3 DEF Flush
    <2>. QED  BY <2>2, <2>3
<1>5. ASSUME NEW c \in Calls, FlushFails(c) PROVE MutexInv'
    BY <1>5, HolderOnConn DEF FlushFails, callVars, clientVars
<1>6. ASSUME NEW c \in Calls, ReceiveReply(c) PROVE MutexInv'
    BY <1>6, HolderOnConn DEF ReceiveReply, callVars, clientVars
<1>7. ASSUME NEW c \in Calls, ReceiveFails(c) PROVE MutexInv'
    BY <1>7, HolderOnConn DEF ReceiveFails, callVars, clientVars
<1>8. ASSUME NEW c \in Calls, CancelCall(c) PROVE MutexInv'
    BY <1>8 DEF CancelCall, callVars, clientVars
<1>9. ASSUME Dial PROVE MutexInv'
    BY <1>9 DEF Dial, callVars, clientVars
<1>10. ASSUME NEW g \in Conns, StoreConn(g) PROVE MutexInv'
    BY <1>10 DEF StoreConn, callVars, clientVars
<1>11. ASSUME NEW g \in Conns, CancelOpen(g) PROVE MutexInv'
    BY <1>11 DEF CancelOpen, callVars, clientVars
<1>12. ASSUME Close PROVE MutexInv'
    BY <1>12 DEF Close, callVars, clientVars
<1>13. ASSUME ServerNext \/ UNCHANGED vars PROVE MutexInv'
    BY <1>13, ServerLeaves DEF vars, callVars, clientVars
<1>. QED
    BY <1>1, <1>2, <1>3, <1>4, <1>5, <1>6, <1>7, <1>8, <1>9, <1>10, <1>11, <1>12, <1>13
       DEF Next, ClientNext, CallStep

LEMMA CursorStep == Layer1 /\ [Next]_vars => CursorInv'
<1> SUFFICES ASSUME Layer1, [Next]_vars, NEW g \in Conns
             PROVE  Cursors(g)'
    BY DEF CursorInv
<1>0. /\ taken[g] \in Nat /\ flushed[g] \in Nat /\ got[g] \in Nat
      /\ sent[g] \in Seq(Calls) /\ Len(sent[g]) \in Nat
      /\ rep[g] \in Seq(Reply) /\ Len(rep[g]) \in Nat
      /\ Cursors(g)
    BY DEF Layer1, TypeOK, CursorInv
<1>t. /\ sent \in [Conns -> Seq(Calls)] /\ rep \in [Conns -> Seq(Reply)]
      /\ taken \in [Conns -> Nat] /\ flushed \in [Conns -> Nat]
      /\ got \in [Conns -> Nat] /\ srv \in [Conns -> TaskStates]
    BY DEF Layer1, TypeOK
<1>1. ASSUME UNCHANGED <<sent, flushed, got>>, UNCHANGED <<taken, rep, srv>>
      PROVE  Cursors(g)'
    BY <1>0, <1>1 DEF Cursors
<1>2. ASSUME NEW c \in Calls, WriteFrame(c) PROVE Cursors(g)'
    <2>1. Len(sent'[g]) \in Nat /\ Len(sent'[g]) >= Len(sent[g])
        BY <1>0, <1>t, <1>2 DEF WriteFrame
    <2>. QED  BY <1>0, <1>2, <2>1 DEF WriteFrame, Cursors, serverVars
<1>3. ASSUME NEW c \in Calls, Flush(c) PROVE Cursors(g)'
    BY <1>0, <1>t, <1>3 DEF Flush, Cursors, serverVars
<1>4. ASSUME NEW c \in Calls, ReceiveReply(c) PROVE Cursors(g)'
    BY <1>0, <1>t, <1>4 DEF ReceiveReply, Cursors, serverVars
<1>5. ASSUME NEW c \in Calls, ReceiveFails(c) PROVE Cursors(g)'
    BY <1>0, <1>t, <1>5 DEF ReceiveFails, Cursors, serverVars
<1>6. ASSUME ClientNext PROVE Cursors(g)'
    <2>1. \/ UNCHANGED <<sent, flushed, got>>
          \/ \E c \in Calls : WriteFrame(c) \/ Flush(c) \/ ReceiveReply(c) \/ ReceiveFails(c)
        BY <1>6 DEF ClientNext, CallStep, StartCall, CallNotOpen, FlushFails, CancelCall,
                    Dial, StoreConn, CancelOpen, Close, wireVars
    <2>. QED  BY <1>1, <1>2, <1>3, <1>4, <1>5, <1>6, <2>1, ClientLeaves
<1>7. ASSUME NEW h \in Conns, TaskStep(h) \/ Shutdown(h) PROVE Cursors(g)'
    <2>1. UNCHANGED <<sent, flushed, got>>
        BY <1>7, ServerLeaves DEF ServerNext
    <2>2. /\ taken'[g] \in Nat /\ taken'[g] >= taken[g] /\ taken'[g] <= flushed[g]
          /\ srv'[g] = "handling" => taken'[g] > 0
        <3>1. ASSUME TakesRequest(h)
              PROVE  taken'[g] \in Nat /\ taken'[g] >= taken[g] /\ taken'[g] <= flushed[g]
                     /\ (g = h => taken'[g] > 0)
            BY <1>0, <1>t, <3>1 DEF TakesRequest, Cursors
        <3>2. srv'[g] # srv[g] => g = h
            BY <1>7, <1>t DEF TaskStep, AcceptConn, DecodeFails, UnknownMethod, NoHandler,
               ArgsRejected, InvokeHandler, FinishHandler, PeerClosed, Shutdown,
               Respond, SendResponse
        <3>3. \/ TakesRequest(h)
              \/ taken' = taken /\ (srv'[g] = "handling" => srv[g] = "handling")
            BY <1>7, <1>t DEF TaskStep, AcceptConn, DecodeFails, UnknownMethod, NoHandler,
               ArgsRejected, InvokeHandler, FinishHandler, PeerClosed, Shutdown,
               Respond, SendResponse, wireVars
        <3>. QED  BY <1>0, <3>1, <3>2, <3>3 DEF Cursors
    <2>3. Len(rep'[g]) \in Nat /\ Len(rep'[g]) >= Len(rep[g])
        <3>1. \/ rep' = rep
              \/ \E c, kind : rep' = [rep EXCEPT ![h] = Append(@, [call |-> c, kind |-> kind])]
            BY <1>7, Zenon DEF TaskStep, AcceptConn, DecodeFails, UnknownMethod, NoHandler,
               ArgsRejected, InvokeHandler, FinishHandler, PeerClosed, Shutdown,
               Respond, SendResponse, wireVars
        <3>2. ASSUME NEW r, rep' = [rep EXCEPT ![h] = Append(@, r)]
              PROVE  Len(rep'[g]) \in Nat /\ Len(rep'[g]) >= Len(rep[g])
            BY <1>0, <1>t, <3>2
        <3>3. rep' = rep => Len(rep'[g]) \in Nat /\ Len(rep'[g]) >= Len(rep[g])
            BY <1>0
        <3>. QED  BY <3>1, <3>2, <3>3, Zenon
    <2>. QED  BY <1>0, <2>1, <2>2, <2>3 DEF Cursors
<1>. QED
    BY <1>1, <1>6, <1>7
       DEF Next, ServerNext, vars, wireVars, serverVars

LEMMA Layer1Step == Layer1 /\ [Next]_vars => Layer1'
<1>1. TypeOK /\ UNCHANGED vars => TypeOK'
    BY DEF TypeOK, vars, callVars, clientVars, wireVars, serverVars
<1>. QED
    BY <1>1, ClientTypes, ServerTypes, MutexStep, CursorStep DEF Layer1, Next

(* All variables keep their types, for every number of calls, methods and    *)
(* connections.                                                             *)
THEOREM TypeCorrect == Spec => []TypeOK
<1>1. Spec => []Layer1
    BY Layer1Init, Layer1Step, PTL DEF Spec
<1>. QED
    BY <1>1, PTL DEF Layer1

(* The mutex of the client: a call holds it exactly while its frame is sent  *)
(* or its reply awaited, on the connection the client has stored.           *)
THEOREM MutexHolds == Spec => []OneCallAtATime
<1>1. Spec => []Layer1
    BY Layer1Init, Layer1Step, PTL DEF Spec
<1>. QED
    BY <1>1, PTL DEF Layer1, MutexInv

-----------------------------------------------------------------------------
(* Layer 2: every frame is written once, the holder's frame is the last.     *)

LEMMA Layer2Init == Init => Layer2
<1>1. Init => SentOnce /\ HolderIsLast
    BY DEF Init, SentOnce, HolderIsLast, OnWire
<1>. QED
    BY <1>1, Layer1Init DEF Layer2

(* Elements of a stream that grows by one.                                  *)
LEMMA AppendElements ==
    ASSUME NEW S, NEW s \in Seq(S), NEW e \in S
    PROVE  /\ Len(Append(s, e)) = Len(s) + 1
           /\ \A i \in 1..Len(s) : Append(s, e)[i] = s[i]
           /\ Append(s, e)[Len(s) + 1] = e
OBVIOUS

LEMMA SentOnceStep == Layer2 /\ [Next]_vars => SentOnce'
<1> SUFFICES ASSUME Layer2, [Next]_vars PROVE SentOnce'
    OBVIOUS
<1>1. ASSUME UNCHANGED <<sent, gen>> PROVE SentOnce'
    BY <1>1 DEF Layer2, SentOnce, OnWire
<1>2. ASSUME NEW c \in Calls, WriteFrame(c) PROVE SentOnce'
    <2> SUFFICES ASSUME NEW g \in Conns PROVE
            \A i \in OnWire(g)' : /\ (gen[sent[g][i]] = g)'
                                  /\ \A j \in OnWire(g)' : (sent[g][i] = sent[g][j])' => i = j
        BY DEF SentOnce
    <2>t. /\ sent \in [Conns -> Seq(Calls)] /\ gen \in [Calls -> 0..MaxConns]
          /\ conn \in Conns /\ sent[g] \in Seq(Calls) /\ Len(sent[g]) \in Nat
        BY <1>2 DEF Layer2, Layer1, TypeOK, WriteFrame, Conns
    <2>0. gen[c] = 0
        BY <1>2 DEF Layer2, Layer1, MutexInv, WriteFrame
    <2>1. \A i \in OnWire(g) : /\ sent[g][i] \in Calls /\ gen[sent[g][i]] = g
                              /\ sent[g][i] # c /\ gen'[sent[g][i]] = g
                              /\ \A j \in OnWire(g) : sent[g][i] = sent[g][j] => i = j
        <3>1. \A i \in OnWire(g) : sent[g][i] \in Calls /\ gen[sent[g][i]] = g
            BY <2>t DEF Layer2, SentOnce, OnWire
        <3>2. 0 \notin Conns
            BY DEF Conns
        <3>. QED  BY <1>2, <2>t, <2>0, <3>1, <3>2 DEF Layer2, SentOnce, WriteFrame
    <2>2. CASE g # conn
        <3>1. sent'[g] = sent[g]
            BY <1>2, <2>2, <2>t DEF WriteFrame
        <3>. QED  BY <2>1, <3>1 DEF OnWire
    <2>3. CASE g = conn
        <3>1. sent'[g] = Append(sent[g], c) /\ gen'[c] = g
            BY <1>2, <2>3, <2>t DEF WriteFrame
        <3>2. /\ OnWire(g)' = OnWire(g) \cup {Len(sent[g]) + 1}
              /\ \A i \in OnWire(g) : sent'[g][i] = sent[g][i]
              /\ sent'[g][Len(sent[g]) + 1] = c
            BY <2>t, <3>1, AppendElements DEF OnWire
        <3> DEFINE n == Len(sent[g]) + 1
        <3>3. \A i \in OnWire(g)' : gen'[sent'[g][i]] = g
            BY <2>1, <3>1, <3>2
        <3>4. \A i \in OnWire(g)' : sent'[g][i] = c => i = n
            BY <2>1, <3>2
        <3>5. \A i, j \in OnWire(g)' : sent'[g][i] = sent'[g][j] => i = j
            <4> SUFFICES ASSUME NEW i \in OnWire(g)', NEW j \in OnWire(g)',
                                sent'[g][i] = sent'[g][j]
                         PROVE  i = j
                OBVIOUS
            <4>1. CASE i = n
                BY <3>2, <3>4, <4>1
            <4>2. CASE j = n
                BY <3>2, <3>4, <4>2
            <4>3. CASE i # n /\ j # n
                BY <2>1, <3>2, <4>3
            <4>. QED  BY <4>1, <4>2, <4>3
        <3>. QED  BY <3>3, <3>5
    <2>. QED  BY <2>2, <2>3
<1>3. \/ UNCHANGED <<sent, gen>>
      \/ \E c \in Calls : WriteFrame(c)
    BY ServerLeaves
       DEF Next, ClientNext, CallStep, StartCall, CallNotOpen, Flush, FlushFails,
           ReceiveReply, ReceiveFails, CancelCall, Dial, StoreConn, CancelOpen, Close,
           vars, callVars, wireVars
<1>. QED
    BY <1>1, <1>2, <1>3

LEMMA HolderIsLastStep == Layer2 /\ [Next]_vars => HolderIsLast'
<1> SUFFICES ASSUME Layer2, [Next]_vars PROVE HolderIsLast'
    OBVIOUS
<1>1. ASSUME UNCHANGED <<sent, flushed, pc, conn, lock>> PROVE HolderIsLast'
    BY <1>1 DEF Layer2, HolderIsLast
<1>2. ASSUME lock' = NoCall PROVE HolderIsLast'
    BY <1>2 DEF HolderIsLast
<1>3. ASSUME NEW c \in Calls, WriteFrame(c) PROVE HolderIsLast'
    <2>t. /\ conn \in Conns /\ sent \in [Conns -> Seq(Calls)] /\ sent[conn] \in Seq(Calls)
          /\ Len(sent[conn]) \in Nat /\ flushed[conn] \in Nat
          /\ flushed[conn] <= Len(sent[conn])
        <3>1. conn \in Conns
            BY <1>3 DEF Layer2, Layer1, TypeOK, WriteFrame, Conns
        <3>. QED  BY <3>1 DEF Layer2, Layer1, TypeOK, CursorInv, Cursors
    <2>1. /\ sent'[conn] = Append(sent[conn], c) /\ lock' = c /\ pc'[c] = "sending"
          /\ conn' = conn /\ flushed' = flushed
        BY <1>3, <2>t DEF WriteFrame, Layer2, Layer1, TypeOK
    <2>2. Len(sent'[conn]) = Len(sent[conn]) + 1 /\ sent'[conn][Len(sent[conn]) + 1] = c
        BY <2>t, <2>1, AppendElements
    <2>. QED  BY <2>t, <2>1, <2>2 DEF HolderIsLast
<1>4. ASSUME NEW c \in Calls, Flush(c) PROVE HolderIsLast'
    <2>1. lock = c /\ gen[c] = conn
        BY <1>4, HolderOnConn DEF Flush, Layer2
    <2>2. CASE IsOneway(c)
        BY <1>2, <1>4, <2>2 DEF Flush
    <2>3. CASE ~IsOneway(c)
        <3>1. /\ lock' = lock /\ conn' = conn /\ sent' = sent /\ pc'[c] = "receiving"
            BY <1>4, <2>3 DEF Flush, Layer2, Layer1, TypeOK
        <3>. QED  BY <2>1, <2>3, <3>1 DEF HolderIsLast, Layer2, IsOneway
    <2>. QED  BY <2>2, <2>3
<1>5. ASSUME NEW c \in Calls, lock # c, UNCHANGED <<sent, flushed, conn, lock>>,
             \E s : pc' = [pc EXCEPT ![c] = s]
      PROVE  HolderIsLast'
    BY <1>5 DEF Layer2, Layer1, TypeOK, HolderIsLast
<1>6. ASSUME NEW c \in Calls, StartCall(c) \/ CallNotOpen(c) PROVE HolderIsLast'
    <2>1. lock # c
        BY <1>6 DEF Layer2, Layer1, MutexInv, OneCallAtATime, StartCall, CallNotOpen
    <2>. QED  BY <1>5, <1>6, <2>1 DEF StartCall, CallNotOpen, Ends, wireVars, clientVars
<1>7. ASSUME NEW c \in Calls, CancelCall(c) PROVE HolderIsLast'
    <2>1. CASE lock = c
        BY <1>2, <1>7, <2>1 DEF CancelCall
    <2>2. CASE lock # c
        BY <1>5, <1>7, <2>2 DEF CancelCall, Ends, wireVars
    <2>. QED  BY <2>1, <2>2
<1>8. ASSUME NEW c \in Calls, FlushFails(c) \/ ReceiveReply(c) \/ ReceiveFails(c)
      PROVE  HolderIsLast'
    BY <1>2, <1>8 DEF FlushFails, ReceiveReply, ReceiveFails
<1>9. ASSUME NEW g \in Conns, StoreConn(g) PROVE HolderIsLast'
    BY <1>2, <1>9 DEF StoreConn
<1>10. ASSUME Close PROVE HolderIsLast'
    BY <1>2, <1>10 DEF Close
<1>11. ASSUME NEW g \in Conns, CancelOpen(g) PROVE HolderIsLast'
    BY <1>1, <1>11 DEF CancelOpen, callVars, wireVars
<1>12. ASSUME Dial PROVE HolderIsLast'
    BY <1>1, <1>12 DEF Dial, callVars, wireVars
<1>13. ASSUME ServerNext \/ UNCHANGED vars PROVE HolderIsLast'
    BY <1>1, <1>13, ServerLeaves DEF vars, callVars, clientVars, wireVars
<1>. QED
    BY <1>3, <1>4, <1>6, <1>7, <1>8, <1>9, <1>10, <1>11, <1>12, <1>13
       DEF Next, ClientNext, CallStep

LEMMA Layer2Step == Layer2 /\ [Next]_vars => Layer2'
BY Layer1Step, SentOnceStep, HolderIsLastStep DEF Layer2

-----------------------------------------------------------------------------
(* Layer 3: lockstep.                                                       *)

LEMMA LockstepInit == Init => Lockstep
BY DEF Init, Lockstep, InLockstep, PendingReplyIsHolders, HandledRequestIsHolders,
       WaitingRequestIsHolders, OnWire

(* Types of what one connection carries.                                    *)
LEMMA WireTypes ==
    ASSUME Layer2, NEW g \in Conns
    PROVE  /\ sent[g] \in Seq(Calls) /\ Len(sent[g]) \in Nat
           /\ rep[g] \in Seq(Reply) /\ Len(rep[g]) \in Nat
           /\ taken[g] \in Nat /\ flushed[g] \in Nat /\ got[g] \in Nat
           /\ srv[g] \in TaskStates
           /\ Cursors(g)
BY DEF Layer2, Layer1, TypeOK, CursorInv

(* A poisoned connection stays poisoned.                                    *)
LEMMA PoisonStays ==
    ASSUME Layer2, [Next]_vars, NEW g \in Conns, Poisoned(g)
    PROVE  Poisoned(g)'
<1>1. PICK c \in Calls : gen[c] = g /\ (res[c] = "cancelled" \/ Stray(c))
    BY DEF Poisoned
<1>2. gen[c] # 0
    BY <1>1 DEF Conns
<1>3. pc[c] \notin {"idle", "ready"} /\ (res[c] = "cancelled" => pc[c] = "done")
    BY <1>2 DEF Layer2, Layer1, MutexInv
<1>4. gen'[c] = gen[c]
    BY <1>3, ServerLeaves
       DEF Layer2, Layer1, TypeOK, Next, ClientNext, CallStep, StartCall, CallNotOpen,
           WriteFrame, Flush, FlushFails, ReceiveReply, ReceiveFails, CancelCall, Dial,
           StoreConn, CancelOpen, Close, vars, callVars
<1>5. ASSUME res[c] = "cancelled" PROVE res'[c] = res[c]
    <2>1. pc[c] = "done"
        BY <1>3, <1>5
    <2>. QED
        BY <2>1, ServerLeaves
           DEF Layer2, Layer1, TypeOK, Next, ClientNext, CallStep, StartCall, CallNotOpen,
               WriteFrame, Flush, FlushFails, ReceiveReply, ReceiveFails, CancelCall, Dial,
               StoreConn, CancelOpen, Close, Ends, vars, callVars
<1>. QED
    BY <1>1, <1>4, <1>5 DEF Poisoned, Stray, IsOneway

(* Without a call on it, a connection in lockstep is quiet.                  *)
LEMMA QuietIfFree ==
    ASSUME Layer2, NEW g \in Conns, InLockstep(g), lock = NoCall \/ conn # g
    PROVE  Quiet(g)
<1>1. \A i \in OnWire(g) : sent[g][i] \in Calls
    BY WireTypes DEF OnWire
<1>2. \A k \in 1..Len(rep[g]) : rep[g][k].call \in Calls
    <2>1. \A k \in 1..Len(rep[g]) : rep[g][k] \in Reply
        BY WireTypes
    <2>. QED  BY <2>1 DEF Reply
<1>3. \A c \in Calls : ~HeldOn(g, c)
    BY DEF HeldOn
<1>4. got[g] = Len(rep[g])
    BY <1>2, <1>3, WireTypes DEF InLockstep, PendingReplyIsHolders, Cursors
<1>5. srv[g] = "handling" => IsOneway(Cur(g))
    BY <1>3, CurrentRequest DEF InLockstep, HandledRequestIsHolders, Layer2
<1>6. srv[g] # "closed" => \A i \in OnWire(g) : i > taken[g] => IsOneway(sent[g][i])
    BY <1>1, <1>3 DEF InLockstep, WaitingRequestIsHolders
<1>. QED
    BY <1>4, <1>5, <1>6 DEF Quiet

LEMMA QuietIsLockstep ==
    ASSUME Layer2', NEW g \in Conns, Quiet(g)'
    PROVE  InLockstep(g)'
<1>1. rep'[g] \in Seq(Reply) /\ Len(rep'[g]) \in Nat
    BY DEF Layer2, Layer1, TypeOK
<1>. QED
    BY <1>1 DEF Quiet, InLockstep, PendingReplyIsHolders, HandledRequestIsHolders,
       WaitingRequestIsHolders

(* While the holder is sending, its connection is quiet but for the frame    *)
(* it has written.                                                          *)
LEMMA QuietWhileSending ==
    ASSUME Layer2, NEW c \in Calls, pc[c] = "sending", InLockstep(conn)
    PROVE  /\ conn \in Conns /\ lock = c /\ gen[c] = conn
           /\ got[conn] = Len(rep[conn])
           /\ srv[conn] = "handling" => IsOneway(Cur(conn))
           /\ srv[conn] # "closed" =>
                \A i \in OnWire(conn) : i > taken[conn] =>
                    IsOneway(sent[conn][i]) \/ sent[conn][i] = c
<1>1. lock = c /\ gen[c] = conn /\ conn \in Conns
    BY HolderOnConn DEF Layer2
<1>2. \A k \in 1..Len(rep[conn]) : ~(k > got[conn])
    BY <1>1 DEF InLockstep, PendingReplyIsHolders, HeldOn
<1>3. got[conn] = Len(rep[conn])
    BY <1>1, <1>2, WireTypes DEF Cursors
<1>4. srv[conn] = "handling" => IsOneway(Cur(conn))
    BY <1>1 DEF InLockstep, HandledRequestIsHolders, HeldOn
<1>5. srv[conn] # "closed" =>
        \A i \in OnWire(conn) : i > taken[conn] =>
            IsOneway(sent[conn][i]) \/ sent[conn][i] = c
    BY <1>1 DEF InLockstep, WaitingRequestIsHolders, HeldOn
<1>. QED
    BY <1>1, <1>3, <1>4, <1>5

(* What keeps a connection quiet.                                           *)
LEMMA QuietStays ==
    ASSUME NEW g \in Conns, Quiet(g), UNCHANGED <<sent[g], taken[g], rep[g], got[g], srv[g]>>
    PROVE  Quiet(g)'
BY DEF Quiet, OnWire, Cur, IsOneway

(* A step of another call or connection.                                    *)
LEMMA LockstepUntouched ==
    ASSUME Layer2, NEW g \in Conns, InLockstep(g),
           UNCHANGED <<sent[g], taken[g], rep[g], got[g], srv[g], lock, conn>>,
           lock # NoCall => pc'[lock] = pc[lock]
    PROVE  InLockstep(g)'
<1>1. \A c \in Calls : HeldOn(g, c) => HeldOn(g, c)' /\ pc'[c] = pc[c]
    BY DEF HeldOn, Layer2, Layer1, TypeOK
<1>2. \A i \in OnWire(g) : sent[g][i] \in Calls
    BY WireTypes DEF OnWire
<1>3. \A k \in 1..Len(rep[g]) : rep[g][k].call \in Calls
    <2>1. \A k \in 1..Len(rep[g]) : rep[g][k] \in Reply
        BY WireTypes
    <2>. QED  BY <2>1 DEF Reply
<1>4. PendingReplyIsHolders(g)'
    BY <1>1, <1>3 DEF InLockstep, PendingReplyIsHolders
<1>5. HandledRequestIsHolders(g)'
    <2>1. Cur(g)' = Cur(g)
        BY DEF Cur
    <2>2. srv[g] = "handling" => Cur(g) \in Calls
        BY CurrentRequest DEF Layer2
    <2>. QED  BY <1>1, <2>1, <2>2 DEF InLockstep, HandledRequestIsHolders, IsOneway
<1>6. WaitingRequestIsHolders(g)'
    BY <1>1, <1>2 DEF InLockstep, WaitingRequestIsHolders, OnWire, IsOneway
<1>. QED
    BY <1>4, <1>5, <1>6 DEF InLockstep

LEMMA LockstepClient ==
    ASSUME Layer2, Layer2', ClientNext, NEW g \in Conns, InLockstep(g), ~Poisoned(g)'
    PROVE  InLockstep(g)'
<1>0. UNCHANGED <<taken, rep, srv>>
    BY ClientLeaves
<1>t. /\ sent \in [Conns -> Seq(Calls)] /\ got \in [Conns -> Nat]
      /\ pc \in [Calls -> CallStates] /\ lock \in Calls \cup {NoCall}
    BY DEF Layer2, Layer1, TypeOK
<1>1. ASSUME NEW c \in Calls, StartCall(c) PROVE InLockstep(g)'
    <2>1. lock # c
        BY <1>1 DEF StartCall, Layer2, Layer1, MutexInv, OneCallAtATime
    <2>2. lock # NoCall => pc'[lock] = pc[lock]
        BY <1>1, <1>t, <2>1 DEF StartCall, Ends
    <2>. QED  BY <1>0, <1>1, <2>2, LockstepUntouched DEF StartCall, wireVars
<1>2. ASSUME UNCHANGED wireVars, lock = NoCall PROVE InLockstep(g)'
    BY <1>0, <1>2, QuietIfFree, QuietStays, QuietIsLockstep DEF wireVars
<1>3. ASSUME NEW c \in Calls, CallNotOpen(c) PROVE InLockstep(g)'
    BY <1>2, <1>3 DEF CallNotOpen
<1>4. ASSUME NEW c \in Calls, WriteFrame(c) PROVE InLockstep(g)'
    <2>1. Quiet(g)
        BY <1>4, QuietIfFree DEF WriteFrame
    <2>2. CASE g # conn
        <3>1. UNCHANGED <<sent[g], got[g]>>
            BY <1>4, <1>t, <2>2 DEF WriteFrame
        <3>. QED  BY <1>0, <2>1, <3>1, QuietStays, QuietIsLockstep
    <2>3. CASE g = conn
        <3>1. /\ sent'[g] = Append(sent[g], c) /\ got'[g] = got[g]
              /\ lock' = c /\ conn' = g
            BY <1>4, <1>t, <2>3 DEF WriteFrame
        <3>2. \A i \in OnWire(g)' : \/ i \in OnWire(g) /\ sent'[g][i] = sent[g][i]
                                  \/ sent'[g][i] = c
            BY <3>1, WireTypes, AppendElements DEF OnWire
        <3>3. got'[g] = Len(rep'[g]) /\ Len(rep'[g]) \in Nat
            BY <1>0, <2>1, <3>1, WireTypes DEF Quiet
        <3>4. PendingReplyIsHolders(g)'
            BY <3>3 DEF PendingReplyIsHolders
        <3>5. HandledRequestIsHolders(g)'
            <4>1. srv[g] = "handling" => Cur(g)' = Cur(g)
                BY <1>0, <3>1, CurrentRequest, WireTypes, AppendElements DEF Cur, OnWire, Layer2
            <4>. QED  BY <1>0, <2>1, <4>1 DEF HandledRequestIsHolders, Quiet, IsOneway
        <3>6. WaitingRequestIsHolders(g)'
            BY <1>0, <2>1, <3>1, <3>2, <3>3 DEF WaitingRequestIsHolders, Quiet, HeldOn, IsOneway
        <3>. QED  BY <3>4, <3>5, <3>6 DEF InLockstep
    <2>. QED  BY <2>2, <2>3
<1>5. ASSUME UNCHANGED <<sent, got>>, Quiet(g) PROVE InLockstep(g)'
    BY <1>0, <1>5, QuietStays, QuietIsLockstep
<1>6. ASSUME NEW c \in Calls, Flush(c) PROVE InLockstep(g)'
    <2>1. lock = c /\ gen[c] = conn /\ UNCHANGED <<sent, got, conn>>
        BY <1>6, HolderOnConn DEF Flush, Layer2
    <2>2. CASE g # conn
        BY <1>5, <2>1, <2>2, QuietIfFree
    <2>3. CASE g = conn
        <3>1. /\ got[g] = Len(rep[g]) /\ Len(rep[g]) \in Nat
              /\ srv[g] = "handling" => IsOneway(Cur(g))
              /\ srv[g] # "closed" =>
                   \A i \in OnWire(g) : i > taken[g] =>
                       IsOneway(sent[g][i]) \/ sent[g][i] = c
            BY <1>6, <2>3, QuietWhileSending, WireTypes DEF Flush
        <3>2. CASE IsOneway(c)
            <4>1. Quiet(g)
                BY <3>1, <3>2 DEF Quiet
            <4>. QED  BY <1>5, <2>1, <4>1
        <3>3. CASE ~IsOneway(c)
            <4>1. lock' = c /\ conn' = g
                BY <1>6, <2>1, <2>3, <3>3 DEF Flush
            <4>2. PendingReplyIsHolders(g)'
                BY <1>0, <2>1, <3>1 DEF PendingReplyIsHolders
            <4>3. HandledRequestIsHolders(g)'
                BY <1>0, <2>1, <3>1 DEF HandledRequestIsHolders, Cur, IsOneway
            <4>4. WaitingRequestIsHolders(g)'
                BY <1>0, <2>1, <3>1, <4>1
                   DEF WaitingRequestIsHolders, HeldOn, OnWire, IsOneway
            <4>. QED  BY <4>2, <4>3, <4>4 DEF InLockstep
        <3>. QED  BY <3>2, <3>3
    <2>. QED  BY <2>2, <2>3
<1>7. ASSUME NEW c \in Calls, FlushFails(c) PROVE InLockstep(g)'
    <2>1. lock = c /\ gen[c] = conn /\ UNCHANGED <<sent, got>>
        BY <1>7, HolderOnConn DEF FlushFails, Layer2, wireVars
    <2>2. CASE g # conn
        BY <1>5, <2>1, <2>2, QuietIfFree
    <2>3. CASE g = conn
        <3>1. srv[g] = "closed" /\ got[g] = Len(rep[g])
            BY <1>7, <2>1, <2>3, QuietWhileSending DEF FlushFails
        <3>. QED  BY <1>5, <2>1, <3>1 DEF Quiet
    <2>. QED  BY <2>2, <2>3
<1>8. ASSUME NEW c \in Calls, ReceiveReply(c) \/ ReceiveFails(c) PROVE InLockstep(g)'
    <2>1. lock = c /\ gen[c] = conn /\ conn \in Conns /\ UNCHANGED sent
        BY <1>8, HolderOnConn DEF ReceiveReply, ReceiveFails, Layer2
    <2>2. CASE g # conn
        <3>1. got'[g] = got[g]
            BY <1>8, <1>t, <2>1, <2>2 DEF ReceiveReply, ReceiveFails
        <3>. QED  BY <1>0, <2>1, <2>2, <3>1, QuietIfFree, QuietStays, QuietIsLockstep
    <2>3. CASE g = conn /\ ReceiveReply(c)
        <3>1. got[g] < Len(rep[g]) /\ got'[g] = got[g] + 1
            BY <1>t, <2>1, <2>3 DEF ReceiveReply
        <3>2. got[g] + 1 \in 1..Len(rep[g]) /\ got[g] + 1 > got[g] /\ got[g] # Len(rep[g])
            BY <3>1, WireTypes
        <3>3. got'[g] = Len(rep[g])
            BY <3>1, <3>2 DEF InLockstep, PendingReplyIsHolders
        <3>4. srv[g] = "handling" => IsOneway(Cur(g))
            BY <3>2 DEF InLockstep, HandledRequestIsHolders
        <3>5. srv[g] # "closed" => \A i \in OnWire(g) : i > taken[g] => IsOneway(sent[g][i])
            BY <3>2 DEF InLockstep, WaitingRequestIsHolders
        <3>6. Quiet(g)'
            BY <1>0, <2>1, <3>3, <3>4, <3>5 DEF Quiet, OnWire, Cur, IsOneway
        <3>. QED  BY <3>6, QuietIsLockstep
    <2>4. CASE g = conn /\ ReceiveFails(c)
        <3>1. got'[g] = Len(rep[g]) /\ srv[g] = "closed"
            BY <1>t, <2>1, <2>4 DEF ReceiveFails
        <3>2. Quiet(g)'
            BY <1>0, <3>1 DEF Quiet
        <3>. QED  BY <3>2, QuietIsLockstep
    <2>. QED  BY <1>8, <2>2, <2>3, <2>4
<1>9. ASSUME NEW c \in Calls, CancelCall(c) PROVE InLockstep(g)'
    <2>1. CASE lock # c
        <3>1. lock # NoCall => pc'[lock] = pc[lock]
            BY <1>9, <1>t, <2>1 DEF CancelCall, Ends
        <3>. QED  BY <1>0, <1>9, <2>1, <3>1, LockstepUntouched DEF CancelCall, wireVars
    <2>2. CASE lock = c
        <3>1. gen[c] = conn /\ UNCHANGED <<sent, got, gen>>
            BY <1>9, <2>2 DEF CancelCall, Layer2, Layer1, MutexInv, OneCallAtATime, TypeOK, wireVars
        <3>2. res'[c] = "cancelled"
            BY <1>9 DEF CancelCall, Ends, Layer2, Layer1, TypeOK
        <3>3. g # conn
            BY <3>1, <3>2 DEF Poisoned
        <3>. QED  BY <1>5, <3>1, <3>3, QuietIfFree
    <2>. QED  BY <2>1, <2>2
<1>10. ASSUME UNCHANGED callVars, UNCHANGED wireVars, UNCHANGED <<lock, conn>>
       PROVE  InLockstep(g)'
    BY <1>0, <1>10, LockstepUntouched DEF callVars, wireVars
<1>11. ASSUME Dial PROVE InLockstep(g)'
    BY <1>10, <1>11 DEF Dial
<1>12. ASSUME NEW h \in Conns, CancelOpen(h) PROVE InLockstep(g)'
    BY <1>10, <1>12 DEF CancelOpen
<1>13. ASSUME NEW h \in Conns, StoreConn(h) PROVE InLockstep(g)'
    BY <1>2, <1>13 DEF StoreConn
<1>14. ASSUME Close PROVE InLockstep(g)'
    BY <1>2, <1>14 DEF Close
<1>. QED
    BY <1>1, <1>3, <1>4, <1>6, <1>7, <1>8, <1>9, <1>11, <1>12, <1>13, <1>14
       DEF ClientNext, CallStep

(* A two-way request the task of a connection in lockstep takes is the       *)
(* holder's, and nothing else two-way is under way there.                   *)
LEMMA TakenIsHolders ==
    ASSUME Layer2, NEW g \in Conns, InLockstep(g), srv[g] = "reading",
           taken[g] < flushed[g], ~IsOneway(Requested(g))
    PROVE  /\ HeldOn(g, Requested(g)) /\ pc[Requested(g)] = "receiving"
           /\ got[g] = Len(rep[g])
<1>1. taken[g] + 1 \in OnWire(g) /\ Requested(g) \in Calls
    BY NextRequest DEF Layer2
<1>2. taken[g] + 1 > taken[g]
    BY WireTypes
<1>3. HeldOn(g, Requested(g)) /\ got[g] = Len(rep[g])
    BY <1>1, <1>2 DEF InLockstep, WaitingRequestIsHolders, Requested
<1>4. pc[Requested(g)] \in {"sending", "receiving"}
    BY <1>1, <1>3 DEF HeldOn, Layer2, Layer1, MutexInv, OneCallAtATime
<1>5. pc[Requested(g)] # "sending"
    <2> SUFFICES ASSUME pc[Requested(g)] = "sending" PROVE FALSE
        OBVIOUS
    <2>1. /\ conn = g /\ lock = Requested(g) /\ lock # NoCall
        BY <1>1, <1>3 DEF HeldOn
    <2>2. /\ flushed[g] < Len(sent[g]) /\ Len(sent[g]) \in OnWire(g)
          /\ sent[g][Len(sent[g])] = sent[g][taken[g] + 1]
        BY <2>1, WireTypes DEF Layer2, HolderIsLast, Requested, OnWire
    <2>3. Len(sent[g]) = taken[g] + 1
        BY <1>1, <2>2 DEF Layer2, SentOnce
    <2>. QED  BY <2>2, <2>3, WireTypes
<1>. QED
    BY <1>3, <1>4, <1>5

(* The holder's frame occurs once, so what follows it is oneway.            *)
LEMMA OthersAreOneway ==
    ASSUME Layer2, NEW g \in Conns, InLockstep(g), srv[g] # "closed",
           NEW i \in OnWire(g), i >= taken[g], HeldOn(g, sent[g][i])
    PROVE  \A j \in OnWire(g) : j > i => IsOneway(sent[g][j])
<1> SUFFICES ASSUME NEW j \in OnWire(g), j > i, ~IsOneway(sent[g][j]) PROVE FALSE
    OBVIOUS
<1>1. j > taken[g]
    BY WireTypes DEF OnWire
<1>2. HeldOn(g, sent[g][j])
    BY <1>1 DEF InLockstep, WaitingRequestIsHolders
<1>3. sent[g][i] = sent[g][j]
    BY <1>2 DEF HeldOn
<1>4. i = j
    BY <1>3 DEF Layer2, SentOnce
<1>. QED
    BY <1>4 DEF OnWire

(* The task answers, or drops, the request it has just taken or handled.     *)
LEMMA LockstepAnswer ==
    ASSUME Layer2, Layer2', NEW g \in Conns, NEW c \in Calls, NEW kind,
           UNCHANGED <<sent, got, lock, conn, pc>>,
           got[g] = Len(rep[g]),
           \A j \in OnWire(g) : j > taken'[g] => IsOneway(sent[g][j]),
           \/ Respond(g, c, kind) /\ (IsOneway(c) \/ (HeldOn(g, c) /\ pc[c] = "receiving"))
           \/ SendResponse(g, c, kind) /\ HeldOn(g, c) /\ pc[c] = "receiving"
    PROVE  InLockstep(g)'
<1>t. /\ rep \in [Conns -> Seq(Reply)] /\ srv \in [Conns -> TaskStates]
      /\ Len(rep[g]) \in Nat /\ rep[g] \in Seq(Reply)
    BY WireTypes DEF Layer2, Layer1, TypeOK
<1>1. srv'[g] # "handling"
    BY <1>t DEF Respond, SendResponse
<1>2. HandledRequestIsHolders(g)'
    BY <1>1 DEF HandledRequestIsHolders
<1>3. WaitingRequestIsHolders(g)'
    BY DEF WaitingRequestIsHolders, OnWire, IsOneway
<1>4. PendingReplyIsHolders(g)'
    <2>1. CASE rep' = rep
        BY <1>t, <2>1 DEF PendingReplyIsHolders
    <2>2. CASE /\ rep' = [rep EXCEPT ![g] = Append(@, [call |-> c, kind |-> kind])]
               /\ HeldOn(g, c) /\ pc[c] = "receiving"
        <3> DEFINE r == [call |-> c, kind |-> kind]
        <3>1. /\ rep'[g] = Append(rep[g], r) /\ r.call = c
            BY <1>t, <2>2
        <3>. HIDE DEF r
        <3>2. Len(rep'[g]) = Len(rep[g]) + 1 /\ rep'[g][Len(rep[g]) + 1] = r
            BY <1>t, <3>1
        <3>. QED  BY <1>t, <2>2, <3>1, <3>2 DEF PendingReplyIsHolders, HeldOn
    <2>. QED  BY <2>1, <2>2 DEF Respond, SendResponse
<1>. QED
    BY <1>2, <1>3, <1>4 DEF InLockstep

LEMMA LockstepServer ==
    ASSUME Layer2, Layer2', NEW h \in Conns, TaskStep(h) \/ Shutdown(h),
           NEW g \in Conns, InLockstep(g), ~Poisoned(g)
    PROVE  InLockstep(g)'
<1>0. UNCHANGED <<sent, flushed, got, pc, lock, conn, gen, res>>
    BY ServerLeaves DEF ServerNext, callVars, clientVars
<1>t. /\ taken \in [Conns -> Nat] /\ rep \in [Conns -> Seq(Reply)]
      /\ srv \in [Conns -> TaskStates]
    BY DEF Layer2, Layer1, TypeOK
<1>1. CASE g # h
    <2>1. UNCHANGED <<taken[g], srv[g]>>
        BY <1>t, <1>1 DEF TaskStep, AcceptConn, DecodeFails, UnknownMethod, NoHandler,
           ArgsRejected, InvokeHandler, FinishHandler, PeerClosed, Shutdown,
           TakesRequest, Respond, SendResponse, wireVars
    <2>2. rep'[g] = rep[g]
        BY <1>t, <1>1 DEF TaskStep, AcceptConn, DecodeFails, UnknownMethod, NoHandler,
           ArgsRejected, InvokeHandler, FinishHandler, PeerClosed, Shutdown,
           Respond, SendResponse, wireVars
    <2>. QED  BY <1>0, <2>1, <2>2, LockstepUntouched
<1>2. CASE g = h
    <2>1. ASSUME UNCHANGED <<taken, rep>>, srv'[g] \in {"reading", "closed"},
                 srv'[g] = "reading" => srv[g] # "closed"
          PROVE  InLockstep(g)'
        <3>1. PendingReplyIsHolders(g)'
            BY <1>0, <2>1 DEF InLockstep, PendingReplyIsHolders, HeldOn
        <3>2. HandledRequestIsHolders(g)'
            BY <2>1 DEF HandledRequestIsHolders
        <3>3. WaitingRequestIsHolders(g)'
            BY <1>0, <2>1
               DEF InLockstep, WaitingRequestIsHolders, HeldOn, OnWire, IsOneway
        <3>. QED  BY <3>1, <3>2, <3>3 DEF InLockstep
    <2>2. CASE AcceptConn(g) \/ PeerClosed(g) \/ Shutdown(g)
        <3>1. UNCHANGED <<taken, rep>> /\ srv'[g] \in {"reading", "closed"}
              /\ (srv'[g] = "reading" => srv[g] # "closed")
            BY <1>t, <2>2 DEF AcceptConn, PeerClosed, Shutdown, wireVars
        <3>. QED  BY <2>1, <3>1
    <2>3. ASSUME TakesRequest(g)
          PROVE  /\ taken'[g] = taken[g] + 1 /\ taken[g] + 1 \in OnWire(g)
                 /\ Requested(g) \in Calls /\ gen[Requested(g)] = g
                 /\ srv[g] = "reading" /\ taken[g] < flushed[g]
        <3>1. taken[g] + 1 \in OnWire(g) /\ Requested(g) \in Calls
            BY <2>3, NextRequest DEF TakesRequest, Layer2
        <3>. QED  BY <1>t, <2>3, <3>1 DEF TakesRequest, Layer2, SentOnce, Requested
    <2>4. ASSUME TakesRequest(g), ~IsOneway(Requested(g))
          PROVE  /\ HeldOn(g, Requested(g)) /\ pc[Requested(g)] = "receiving"
                 /\ got[g] = Len(rep[g])
                 /\ \A j \in OnWire(g) : j > taken[g] + 1 => IsOneway(sent[g][j])
        <3>1. /\ HeldOn(g, Requested(g)) /\ pc[Requested(g)] = "receiving"
              /\ got[g] = Len(rep[g])
            BY <2>3, <2>4, TakenIsHolders
        <3>2. taken[g] + 1 \in OnWire(g) /\ taken[g] + 1 >= taken[g] /\ srv[g] # "closed"
            BY <2>3, <2>4, WireTypes
        <3>3. HeldOn(g, sent[g][taken[g] + 1])
            BY <3>1 DEF Requested
        <3>. QED  BY <3>1, <3>2, <3>3, OthersAreOneway
    <2>5. CASE DecodeFails(g)
        <3>1. rep' = rep /\ srv'[g] = "closed"
            BY <1>t, <2>5 DEF DecodeFails
        <3>2. PendingReplyIsHolders(g)'
            BY <1>0, <3>1 DEF InLockstep, PendingReplyIsHolders, HeldOn
        <3>. QED
            BY <3>1, <3>2 DEF InLockstep, HandledRequestIsHolders, WaitingRequestIsHolders
    <2>6. ASSUME TakesRequest(g), IsOneway(Requested(g)), rep' = rep,
                 srv'[g] \in {"reading", "handling"}
          PROVE  InLockstep(g)'
        <3>1. PendingReplyIsHolders(g)'
            BY <1>0, <2>6 DEF InLockstep, PendingReplyIsHolders, HeldOn
        <3>2. Cur(g)' = Requested(g)
            BY <1>0, <2>3, <2>6 DEF Cur, Requested
        <3>3. HandledRequestIsHolders(g)'
            BY <2>6, <3>2 DEF HandledRequestIsHolders, IsOneway
        <3>4. \A i \in OnWire(g) : i > taken'[g] => i > taken[g]
            BY <2>3, <2>6, WireTypes DEF OnWire
        <3>5. WaitingRequestIsHolders(g)'
            BY <1>0, <2>3, <2>6, <3>4
               DEF InLockstep, WaitingRequestIsHolders, HeldOn, OnWire, IsOneway
        <3>. QED  BY <3>1, <3>3, <3>5 DEF InLockstep
    <2>7. CASE UnknownMethod(g) \/ ArgsRejected(g)
        <3>1. TakesRequest(g) /\ Respond(g, Requested(g), "appex")
            BY <2>7 DEF UnknownMethod, ArgsRejected
        <3>2. CASE IsOneway(Requested(g))
            <4>1. rep' = rep /\ srv'[g] = "reading"
                BY <1>t, <3>1, <3>2 DEF Respond
            <4>. QED  BY <2>6, <3>1, <3>2, <4>1
        <3>3. CASE ~IsOneway(Requested(g))
            BY <1>0, <2>3, <2>4, <3>1, <3>3, LockstepAnswer
        <3>. QED  BY <3>2, <3>3
    <2>8. CASE NoHandler(g)
        <3>1. /\ TakesRequest(g) /\ SendResponse(g, Requested(g), "appex")
              /\ MethodOf[Requested(g)] \in Served \ (Undecodable \cup Registered)
            BY <2>8 DEF NoHandler
        <3>2. ~IsOneway(Requested(g))
            BY <2>3, <3>1 DEF Poisoned, Stray
        <3>. QED  BY <1>0, <2>3, <2>4, <3>1, <3>2, LockstepAnswer
    <2>9. CASE InvokeHandler(g)
        <3>1. TakesRequest(g) /\ rep' = rep /\ srv'[g] = "handling"
            BY <1>t, <2>9 DEF InvokeHandler
        <3>2. CASE IsOneway(Requested(g))
            BY <2>6, <3>1, <3>2
        <3>3. CASE ~IsOneway(Requested(g))
            <4>1. /\ HeldOn(g, Requested(g)) /\ pc[Requested(g)] = "receiving"
                  /\ got[g] = Len(rep[g])
                  /\ \A j \in OnWire(g) : j > taken[g] + 1 => IsOneway(sent[g][j])
                BY <2>4, <3>1, <3>3
            <4>2. Cur(g)' = Requested(g)
                BY <1>0, <2>3, <3>1 DEF Cur, Requested
            <4>3. PendingReplyIsHolders(g)'
                BY <1>0, <3>1 DEF InLockstep, PendingReplyIsHolders, HeldOn
            <4>4. HandledRequestIsHolders(g)'
                BY <1>0, <3>1, <4>1, <4>2 DEF HandledRequestIsHolders, HeldOn
            <4>5. WaitingRequestIsHolders(g)'
                BY <1>0, <2>3, <3>1, <4>1 DEF WaitingRequestIsHolders, OnWire, IsOneway
            <4>. QED  BY <4>3, <4>4, <4>5 DEF InLockstep
        <3>. QED  BY <3>2, <3>3
    <2>10. CASE FinishHandler(g)
        <3>1. PICK kind : Respond(g, Cur(g), kind) /\ taken' = taken /\ srv[g] = "handling"
            BY <2>10 DEF FinishHandler
        <3>2. taken[g] \in OnWire(g) /\ Cur(g) \in Calls
            BY <3>1, CurrentRequest DEF Layer2
        <3>3. CASE IsOneway(Cur(g))
            BY <1>t, <2>1, <3>1, <3>3 DEF Respond
        <3>4. CASE ~IsOneway(Cur(g))
            <4>1. /\ HeldOn(g, Cur(g)) /\ pc[Cur(g)] = "receiving"
                  /\ got[g] = Len(rep[g])
                BY <3>1, <3>4 DEF InLockstep, HandledRequestIsHolders
            <4>2. \A j \in OnWire(g) : j > taken[g] => IsOneway(sent[g][j])
                <5>1. taken[g] >= taken[g] /\ srv[g] # "closed" /\ HeldOn(g, sent[g][taken[g]])
                    BY <3>1, <4>1, WireTypes DEF Cur
                <5>. QED  BY <3>2, <5>1, OthersAreOneway
            <4>. QED  BY <1>0, <3>1, <3>2, <4>1, <4>2, LockstepAnswer
        <3>. QED  BY <3>3, <3>4
    <2>. QED
        BY <1>2, <2>2, <2>5, <2>7, <2>8, <2>9, <2>10 DEF TaskStep
<1>. QED
    BY <1>1, <1>2

LEMMA LockstepStep == Layer2 /\ Lockstep /\ [Next]_vars => Lockstep'
<1> SUFFICES ASSUME Layer2, Lockstep, [Next]_vars, NEW g \in Conns, ~Poisoned(g)'
             PROVE  InLockstep(g)'
    BY DEF Lockstep
<1>1. Layer2'
    BY Layer2Step
<1>2. ~Poisoned(g) /\ InLockstep(g)
    BY PoisonStays DEF Lockstep
<1>3. CASE ClientNext
    BY <1>1, <1>2, <1>3, LockstepClient
<1>4. CASE ServerNext
    BY <1>1, <1>2, <1>4, LockstepServer DEF ServerNext
<1>5. CASE UNCHANGED vars
    BY <1>2, <1>5, LockstepUntouched DEF vars, callVars, clientVars, wireVars, serverVars
<1>. QED
    BY <1>3, <1>4, <1>5 DEF Next

-----------------------------------------------------------------------------
(* What the layers are for.                                                 *)

LEMMA OwnReplyStep ==
    Layer2 /\ Lockstep /\ OwnReplyUnlessPoisoned /\ [Next]_vars => OwnReplyUnlessPoisoned'
<1> SUFFICES ASSUME Layer2, Lockstep, OwnReplyUnlessPoisoned, [Next]_vars,
                    NEW c \in Calls, from'[c] \notin {NoCall, c}
             PROVE  Poisoned(gen[c])'
    BY DEF OwnReplyUnlessPoisoned
<1>0. ASSUME gen[c] \in Conns, Poisoned(gen[c]), gen'[c] = gen[c]
      PROVE  Poisoned(gen[c])'
    <2>1. PICK g \in Conns : g = gen[c]
        BY <1>0
    <2>2. Poisoned(g)'
        BY <1>0, <2>1, PoisonStays
    <2>. QED  BY <1>0, <2>1, <2>2 DEF Poisoned
<1>t. /\ from \in [Calls -> Calls \cup {NoCall}] /\ gen \in [Calls -> 0..MaxConns]
      /\ pc \in [Calls -> CallStates]
    BY DEF Layer2, Layer1, TypeOK
<1>1. CASE ReceiveReply(c)
    <2> DEFINE g == gen[c]
    <2>1. /\ lock = c /\ g \in Conns /\ gen' = gen
          /\ got[g] < Len(rep[g]) /\ from'[c] = rep[g][got[g] + 1].call
        BY <1>1, <1>t, HolderOnConn DEF ReceiveReply, Layer2
    <2>2. got[g] + 1 \in 1..Len(rep[g]) /\ got[g] + 1 > got[g]
        BY <2>1, WireTypes
    <2>3. ~InLockstep(g)
        BY <2>1, <2>2 DEF InLockstep, PendingReplyIsHolders, HeldOn
    <2>4. Poisoned(g)
        BY <2>1, <2>3 DEF Lockstep
    <2>. QED  BY <1>0, <2>1, <2>4
<1>2. CASE ~ReceiveReply(c)
    <2>1. from'[c] = from[c]
        BY <1>2, <1>t, ServerLeaves
           DEF Next, ClientNext, CallStep, StartCall, CallNotOpen, WriteFrame, Flush,
               FlushFails, ReceiveReply, ReceiveFails, CancelCall, Dial, StoreConn,
               CancelOpen, Close, vars, callVars
    <2>2. pc[c] = "done" /\ gen[c] \in Conns /\ Poisoned(gen[c])
        BY <1>t, <2>1 DEF Layer2, Layer1, MutexInv, OwnReplyUnlessPoisoned, Conns
    <2>3. gen'[c] = gen[c]
        BY <1>t, <2>2, ServerLeaves
           DEF Next, ClientNext, CallStep, StartCall, CallNotOpen, WriteFrame, Flush,
               FlushFails, ReceiveReply, ReceiveFails, CancelCall, Dial, StoreConn,
               CancelOpen, Close, vars, callVars
    <2>. QED  BY <1>0, <2>2, <2>3
<1>. QED
    BY <1>1, <1>2

(* Every caller gets the reply to its own request, on a connection to which  *)
(* no cancelled call and no oneway call without a handler was written.  The  *)
(* client compares neither seq_id nor name: only the mutex and the server's  *)
(* one reply per request make it so.                                        *)
THEOREM RepliesMatch == Spec => []OwnReplyUnlessPoisoned
<1>1. Init => Layer2 /\ Lockstep /\ OwnReplyUnlessPoisoned
    BY Layer2Init, LockstepInit DEF Init, OwnReplyUnlessPoisoned
<1>2. Layer2 /\ Lockstep /\ OwnReplyUnlessPoisoned /\ [Next]_vars
          => (Layer2 /\ Lockstep /\ OwnReplyUnlessPoisoned)'
    BY Layer2Step, LockstepStep, OwnReplyStep
<1>. QED
    BY <1>1, <1>2, PTL DEF Spec

(* The calls of a ThriftClient cannot be cancelled; where each oneway method *)
(* of the service has a handler, no caller ever gets a foreign reply.       *)
NothingStray == ~Cancellable /\ \A c \in Calls : ~Stray(c)

NeverCancelled == \A c \in Calls : res[c] # "cancelled"

LEMMA NeverCancelledStep ==
    ~Cancellable /\ Layer1 /\ NeverCancelled /\ [Next]_vars => NeverCancelled'
<1> SUFFICES ASSUME ~Cancellable, Layer1, NeverCancelled, [Next]_vars
             PROVE  NeverCancelled'
    OBVIOUS
<1>t. res \in [Calls -> Results]
    BY DEF Layer1, TypeOK
<1>1. ASSUME NEW c \in Calls, ReceiveReply(c) PROVE NeverCancelled'
    <2>1. rep[gen[c]][got[gen[c]] + 1].kind \in ReplyKinds
        BY <1>1, HolderOnConn, NextReply DEF ReceiveReply, Reply
    <2>. QED  BY <1>1, <1>t, <2>1 DEF ReceiveReply, Ends, NeverCancelled, ReplyKinds
<1>2. ASSUME NEW c \in Calls, StartCall(c) \/ CallNotOpen(c) \/ Flush(c)
                                \/ FlushFails(c) \/ ReceiveFails(c)
      PROVE  NeverCancelled'
    BY <1>2, <1>t
       DEF StartCall, CallNotOpen, Flush, FlushFails, ReceiveFails, Ends, NeverCancelled
<1>3. CASE UNCHANGED res
    BY <1>3 DEF NeverCancelled
<1>. QED
    BY <1>1, <1>2, <1>3, ServerLeaves
       DEF Next, ClientNext, CallStep, WriteFrame, CancelCall, Dial, StoreConn,
           CancelOpen, Close, vars, callVars

LEMMA OwnReplyThen ==
    ASSUME NothingStray, Layer1, NeverCancelled, OwnReplyUnlessPoisoned
    PROVE  OwnReply
BY DEF NothingStray, NeverCancelled, OwnReplyUnlessPoisoned, OwnReply, Poisoned

THEOREM SyncRepliesMatch ==
    ASSUME NothingStray
    PROVE  Spec => []OwnReply
<1>1. Init => Layer1 /\ NeverCancelled
    BY Layer1Init DEF Init, NeverCancelled
<1>2. Layer1 /\ NeverCancelled /\ [Next]_vars => (Layer1 /\ NeverCancelled)'
    BY Layer1Step, NeverCancelledStep DEF NothingStray
<1>3. Layer1 /\ NeverCancelled /\ OwnReplyUnlessPoisoned => OwnReply
    BY OwnReplyThen
<1>. QED
    BY <1>1, <1>2, <1>3, RepliesMatch, PTL DEF Spec
=============================================================================
