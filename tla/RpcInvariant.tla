---------------------------- MODULE RpcInvariant ----------------------------
(***************************************************************************)
(* Why the reply a caller gets is its own: the inductive invariant behind    *)
(* the safety properties of ThriftRpc, in layers.  Each layer is inductive  *)
(* once those above it hold.                                                *)
(***************************************************************************)
EXTENDS ThriftRpc

OnWire(g) == 1..Len(sent[g])

(* Layer 1: the mutex and the cursors.  A call that has not got the mutex    *)
(* yet has written nothing, and one that is not over has no result.         *)
MutexInv ==
    /\ OneCallAtATime
    /\ \A c \in Calls : pc[c] \in {"idle", "ready"} => gen[c] = 0
    /\ \A c \in Calls : pc[c] # "done" => res[c] = "pending" /\ from[c] = NoCall
    /\ \A c \in Calls : from[c] # NoCall => gen[c] # 0

(* The cursors of a connection never overtake each other, and a handler      *)
(* works on a request that was taken.                                       *)
Cursors(g) ==
    /\ taken[g] <= flushed[g] /\ flushed[g] <= Len(sent[g])
    /\ got[g] <= Len(rep[g])
    /\ srv[g] = "handling" => taken[g] > 0

CursorInv == \A g \in Conns : Cursors(g)

Layer1 == TypeOK /\ MutexInv /\ CursorInv

(* Layer 2: the request stream.  A call's frame is written once, to the      *)
(* connection it recorded; the holder's frame is the last one, unflushed     *)
(* while it is sending, and only a two-way call waits for a reply.           *)
SentOnce ==
    \A g \in Conns : \A i \in OnWire(g) :
        /\ gen[sent[g][i]] = g
        /\ \A j \in OnWire(g) : sent[g][i] = sent[g][j] => i = j

HolderIsLast ==
    lock # NoCall =>
        /\ Len(sent[conn]) > 0
        /\ lock = sent[conn][Len(sent[conn])]
        /\ pc[lock] = "sending" => flushed[conn] < Len(sent[conn])
        /\ pc[lock] = "receiving" => ~IsOneway(lock)

Layer2 == Layer1 /\ SentOnce /\ HolderIsLast

(* Layer 3: lockstep.  On a connection that is not poisoned, whatever two-   *)
(* way traffic there is belongs to the call that holds the mutex, and there  *)
(* is one piece of it: a request, a handler at work, or a reply.            *)
HeldOn(g, c) == lock = c /\ conn = g

PendingReplyIsHolders(g) ==
    \A k \in 1..Len(rep[g]) : k > got[g] =>
        /\ k = got[g] + 1 /\ k = Len(rep[g])
        /\ HeldOn(g, rep[g][k].call)
        /\ pc[rep[g][k].call] = "receiving"

HandledRequestIsHolders(g) ==
    srv[g] = "handling" /\ ~IsOneway(Cur(g)) =>
        /\ HeldOn(g, Cur(g))
        /\ pc[Cur(g)] = "receiving"
        /\ got[g] = Len(rep[g])

WaitingRequestIsHolders(g) ==
    srv[g] # "closed" =>
        \A i \in OnWire(g) : i > taken[g] /\ ~IsOneway(sent[g][i]) =>
            HeldOn(g, sent[g][i]) /\ got[g] = Len(rep[g])

InLockstep(g) ==
    /\ PendingReplyIsHolders(g)
    /\ HandledRequestIsHolders(g)
    /\ WaitingRequestIsHolders(g)

Lockstep == \A g \in Conns : ~Poisoned(g) => InLockstep(g)

(* Between calls a connection that is not poisoned carries nothing but       *)
(* oneway requests.                                                         *)
Quiet(g) ==
    /\ got[g] = Len(rep[g])
    /\ srv[g] = "handling" => IsOneway(Cur(g))
    /\ srv[g] # "closed" =>
         \A i \in OnWire(g) : i > taken[g] => IsOneway(sent[g][i])

(* Layer 4: what the server did.  Requests it has not taken are untouched,   *)
(* those before the current one are finished with.                          *)
Finished(c) == verdict[c] \notin {"none", "started"}

VerdictInv ==
    /\ \A c \in Calls : gen[c] = 0 => verdict[c] = "none"
    /\ \A c \in Calls : verdict[c] = "declared" => MethodOf[c] \in Throws
    /\ \A g \in Conns : \A i \in OnWire(g) :
         /\ i > taken[g] => verdict[sent[g][i]] = "none"
         /\ i < taken[g] => Finished(sent[g][i])
         /\ i = taken[g] /\ srv[g] \in {"backlog", "reading"} => Finished(sent[g][i])
         /\ i = taken[g] /\ srv[g] = "handling" => verdict[sent[g][i]] = "started"

Layer4 == Layer2 /\ VerdictInv

(* Layer 5: what the replies say, those that lie on a connection and those    *)
(* that were read.  Each is about a request taken from that connection and    *)
(* finished with, and tells how it ended; a call that ended before its frame  *)
(* was written has nothing on any connection.                                *)
Answer(c) == ReplyKind(MethodOf[c], verdict[c])

Answers(g, r) ==
    /\ Finished(r.call) /\ r.kind = Answer(r.call)
    /\ \E i \in OnWire(g) : i <= taken[g] /\ sent[g][i] = r.call

ReplyInv == \A g \in Conns : \A k \in 1..Len(rep[g]) : Answers(g, rep[g][k])

Received(c) ==
    /\ Finished(from[c]) /\ res[c] = Answer(from[c])
    /\ gen[from[c]] = gen[c] /\ Before(from[c], c)

ReceivedInv ==
    /\ \A c \in Calls : from[c] # NoCall => Received(c)
    /\ \A c \in Calls : res[c] \in {"badargs", "notopen"} => gen[c] = 0

(* On a connection that is open and not poisoned, every two-way call but the  *)
(* one that holds the mutex has read a reply.                                *)
SerialInv ==
    \A g \in Conns : ~Poisoned(g) /\ srv[g] # "closed" => Unanswered(g) \subseteq {lock}

(* Until the counter wraps, the seq_ids are the numbers of the calls in the    *)
(* order in which they were started.                                        *)
FewCalls == IsFiniteSet(Calls) /\ Cardinality(Calls) <= SeqSpace

Started == {c \in Calls : pc[c] # "idle"}

SeqInv ==
    /\ Started # Calls => seqId = Cardinality(Started)
    /\ \A c \in Started : seq[c] < Cardinality(Started)
    /\ \A c, d \in Started : seq[c] = seq[d] => c = d

IInv ==
    /\ Layer2
    /\ Lockstep
    /\ OwnReplyUnlessPoisoned
    /\ VerdictInv
    /\ ReplyInv
    /\ ReceivedInv
    /\ SerialInv
    /\ FewCalls => SeqInv
=============================================================================
