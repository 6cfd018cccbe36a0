------------------------------ MODULE RpcClient ------------------------------
(***************************************************************************)
(* ThriftClient and AsyncThriftClient (src/python/client.rs).  Both keep    *)
(* one optional connection behind one mutex and hold that mutex from the    *)
(* first byte of a request to the last byte of its reply.  They differ in   *)
(* one thing: the awaitable of the async client can be cancelled at each    *)
(* of its await points, which drops the future and with it the mutex guard. *)
(***************************************************************************)
EXTENDS RpcChannel

Ends(c, result) ==
    /\ pc' = [pc EXCEPT ![c] = "done"]
    /\ res' = [res EXCEPT ![c] = result]

\* Mutants of StartCall: the counter does not wrap, or does not move.
StartCallNoWrap(c) ==
    /\ pc[c] = "idle"
    /\ seq' = [seq EXCEPT ![c] = seqId]
    /\ seqId' = seqId + 1
    /\ pc' = [pc EXCEPT ![c] = "ready"]
    /\ UNCHANGED <<gen, res, from, lock, conn, dialled, opened, wireVars, serverVars>>

StartCallSameSeq(c) ==
    /\ pc[c] = "idle"
    /\ seq' = [seq EXCEPT ![c] = seqId]
    /\ pc' = [pc EXCEPT ![c] = "ready"]
    /\ UNCHANGED <<gen, res, from, clientVars, wireVars, serverVars>>

(* call(): the seq_id is taken before the arguments are serialised, so a   *)
(* call whose kwargs do not match the IDL types uses one up and sends      *)
(* nothing.  (A name that is not in the service fails before that.)        *)
StartCall(c) ==
    /\ pc[c] = "idle"
    /\ seq' = [seq EXCEPT ![c] = seqId]
    /\ seqId' = (seqId + 1) % SeqSpace
    /\ \/ pc' = [pc EXCEPT ![c] = "ready"] /\ res' = res
       \/ Ends(c, "badargs")
    /\ UNCHANGED <<gen, from, lock, conn, dialled, opened, wireVars, serverVars>>

(* The mutex is acquired, the slot is empty: the call fails and the guard  *)
(* is dropped.                                                             *)
CallNotOpen(c) ==
    /\ pc[c] = "ready" /\ lock = NoCall /\ conn = 0
    /\ Ends(c, "notopen")
    /\ UNCHANGED <<seq, gen, from, clientVars, wireVars, serverVars>>

\* Mutant of WriteFrame: the mutex is not waited for.
WriteFrameUnlocked(c) ==
    /\ pc[c] = "ready" /\ conn # 0
    /\ lock' = c
    /\ pc' = [pc EXCEPT ![c] = "sending"]
    /\ gen' = [gen EXCEPT ![c] = conn]
    /\ sent' = [sent EXCEPT ![conn] = Append(@, c)]
    /\ UNCHANGED <<seq, res, from, seqId, conn, dialled, opened,
                   flushed, taken, rep, got, serverVars>>

(* The mutex is acquired and the frame copied into the BufWriter.          *)
WriteFrame(c) ==
    /\ pc[c] = "ready" /\ lock = NoCall /\ conn # 0
    /\ lock' = c
    /\ pc' = [pc EXCEPT ![c] = "sending"]
    /\ gen' = [gen EXCEPT ![c] = conn]
    /\ sent' = [sent EXCEPT ![conn] = Append(@, c)]
    /\ UNCHANGED <<seq, res, from, seqId, conn, dialled, opened,
                   flushed, taken, rep, got, serverVars>>

\* Mutant of Flush: the guard is dropped before the reply is read.
FlushUnlocks(c) ==
    /\ pc[c] = "sending"
    /\ flushed' = [flushed EXCEPT ![gen[c]] = Len(sent[gen[c]])]
    /\ IF IsOneway(c)
       THEN Ends(c, "none")
       ELSE pc' = [pc EXCEPT ![c] = "receiving"] /\ UNCHANGED res
    /\ lock' = NoCall
    /\ UNCHANGED <<seq, gen, from, seqId, conn, dialled, opened,
                   sent, taken, rep, got, serverVars>>

(* writer.flush(): everything buffered leaves, frames of calls cancelled    *)
(* before their own flush included.  A oneway call is over.                *)
Flush(c) ==
    /\ pc[c] = "sending"
    /\ flushed' = [flushed EXCEPT ![gen[c]] = Len(sent[gen[c]])]
    /\ IF IsOneway(c)
       THEN Ends(c, "none") /\ lock' = NoCall
       ELSE /\ pc' = [pc EXCEPT ![c] = "receiving"]
            /\ UNCHANGED <<res, lock>>
    /\ UNCHANGED <<seq, gen, from, seqId, conn, dialled, opened,
                   sent, taken, rep, got, serverVars>>

(* The server closed the connection and the write fails (broken pipe).  The *)
(* slot keeps the dead connection.                                         *)
FlushFails(c) ==
    /\ pc[c] = "sending" /\ srv[gen[c]] = "closed"
    /\ Ends(c, "ioerror")
    /\ lock' = NoCall
    /\ UNCHANGED <<seq, gen, from, seqId, conn, dialled, opened,
                   wireVars, serverVars>>

(* conn_recv_frame returns the next frame of the connection, the guard is   *)
(* dropped, decode_reply turns the frame into a value or an exception.      *)
(* Neither seq_id nor the name in the reply is compared with the call's.    *)
ReceiveReply(c) ==
    LET g == gen[c]
        r == rep[g][got[g] + 1]
    IN  /\ pc[c] = "receiving" /\ got[g] < Len(rep[g])
        /\ got' = [got EXCEPT ![g] = @ + 1]
        /\ from' = [from EXCEPT ![c] = r.call]
        /\ Ends(c, r.kind)
        /\ lock' = NoCall
        /\ UNCHANGED <<seq, gen, seqId, conn, dialled, opened,
                       sent, flushed, taken, rep, serverVars>>

\* Mutant of ReceiveFails: the call is sent again.
ReceiveFailsRetries(c) ==
    LET g == gen[c]
    IN  /\ pc[c] = "receiving" /\ srv[g] = "closed"
        /\ got[g] = Len(rep[g]) \/ taken[g] < flushed[g]
        /\ pc' = [pc EXCEPT ![c] = "ready"]
        /\ lock' = NoCall
        /\ UNCHANGED <<seq, gen, res, from, seqId, conn, dialled, opened,
                       wireVars, serverVars>>

(* The server closed: end of file once the replies are read, or a reset     *)
(* that discards them if requests were left unread.  An empty frame does    *)
(* not decode, so both end the call with an I/O error.                      *)
ReceiveFails(c) ==
    LET g == gen[c]
    IN  /\ pc[c] = "receiving" /\ srv[g] = "closed"
        /\ got[g] = Len(rep[g]) \/ taken[g] < flushed[g]
        /\ got' = [got EXCEPT ![g] = Len(rep[g])]
        /\ Ends(c, "ioerror")
        /\ lock' = NoCall
        /\ UNCHANGED <<seq, gen, from, seqId, conn, dialled, opened,
                       sent, flushed, taken, rep, serverVars>>

(* The Python awaitable is cancelled (task.cancel(), asyncio.wait_for): the *)
(* future is dropped at its await point.  What it wrote stays written, what *)
(* it would have read stays to be read.                                    *)
CancelCall(c) ==
    /\ Cancellable
    /\ pc[c] \in {"ready", "sending", "receiving"}
    /\ Ends(c, "cancelled")
    /\ lock' = IF lock = c THEN NoCall ELSE lock
    /\ UNCHANGED <<seq, gen, from, seqId, conn, dialled, opened,
                   wireVars, serverVars>>

(* open(): the TCP connection is established before the mutex is taken...   *)
Dial ==
    /\ opened < MaxConns
    /\ opened' = opened + 1
    /\ dialled' = dialled \cup {opened + 1}
    /\ UNCHANGED <<callVars, seqId, lock, conn, wireVars, serverVars>>

\* Mutants of StoreConn: the mutex is not taken, or the reader's buffer is kept.
StoreConnUnlocked(g) ==
    /\ g \in dialled
    /\ conn' = g
    /\ dialled' = dialled \ {g}
    /\ UNCHANGED <<callVars, seqId, lock, opened, wireVars, serverVars>>

StoreConnKeepsReader(g) ==
    /\ g \in dialled /\ lock = NoCall
    /\ conn' = g
    /\ dialled' = dialled \ {g}
    /\ IF conn = 0 THEN UNCHANGED rep
       ELSE rep' = [rep EXCEPT ![g] =
                        SubSeq(rep[conn], got[conn] + 1, Len(rep[conn])) \o @]
    /\ UNCHANGED <<callVars, seqId, lock, opened, sent, flushed, taken, got, serverVars>>

(* ... and replaces whatever the slot holds, which is dropped.              *)
StoreConn(g) ==
    /\ g \in dialled /\ lock = NoCall
    /\ conn' = g
    /\ dialled' = dialled \ {g}
    /\ UNCHANGED <<callVars, seqId, lock, opened, wireVars, serverVars>>

(* A cancelled AsyncThriftClient.open() drops the stream it established.    *)
CancelOpen(g) ==
    /\ Cancellable /\ g \in dialled
    /\ dialled' = dialled \ {g}
    /\ UNCHANGED <<callVars, seqId, lock, conn, opened, wireVars, serverVars>>

(* close() and __exit__ / __aexit__.                                       *)
Close ==
    /\ lock = NoCall /\ conn # 0
    /\ conn' = 0
    /\ UNCHANGED <<callVars, seqId, lock, dialled, opened, wireVars, serverVars>>

CallStep(c) ==
    \/ CallNotOpen(c)
    \/ WriteFrame(c)
    \/ Flush(c)
    \/ FlushFails(c)
    \/ ReceiveReply(c)
    \/ ReceiveFails(c)

ClientNext ==
    \/ \E c \in Calls : StartCall(c) \/ CallStep(c) \/ CancelCall(c)
    \/ Dial
    \/ \E g \in Conns : StoreConn(g) \/ CancelOpen(g)
    \/ Close
=============================================================================
