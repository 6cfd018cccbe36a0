-------------------------- MODULE RpcHistory_proofs --------------------------
(***************************************************************************)
(* Proofs about ThriftRpc that relate a state to how it came about: what the  *)
(* server did with each request, in which order, and what the replies say;    *)
(* and, with that, that it implements AtMostOnceCall.  They build on the      *)
(* layers of ThriftRpc_proofs.                                              *)
(***************************************************************************)
EXTENDS ThriftRpc_proofs, FiniteSetTheorems

USE RpcAssumption DEF RpcAssumption

-----------------------------------------------------------------------------
(* What a step of a connection's task does, in five kinds.                    *)

MovesTo(g, S) == \E s \in S : srv' = [srv EXCEPT ![g] = s]

WritesAtMost(g, c, kind) ==
    \/ rep' = rep
    \/ rep' = [rep EXCEPT ![g] = Append(@, [call |-> c, kind |-> kind])]

Judges(c, s) == verdict' = [verdict EXCEPT ![c] = s]

\* It accepts the connection or leaves it.
Rests(g) ==
    /\ UNCHANGED <<taken, rep, verdict>>
    /\ MovesTo(g, {"reading", "closed"})
    /\ srv[g] # "backlog" => MovesTo(g, {"closed"})

\* It leaves with a request in its hands.
Drops(g) ==
    TakesRequest(g) /\ UNCHANGED <<rep, verdict>> /\ MovesTo(g, {"closed"})

Rejects(g) ==
    /\ TakesRequest(g)
    /\ Judges(Requested(g), "rejected")
    /\ WritesAtMost(g, Requested(g), "appex")
    /\ MovesTo(g, {"reading", "closed"})

Starts(g) ==
    /\ TakesRequest(g) /\ UNCHANGED rep
    /\ Judges(Requested(g), "started")
    /\ MovesTo(g, {"handling"})

Finishes(g) ==
    /\ srv[g] = "handling" /\ UNCHANGED taken
    /\ \E o \in HandlerOutcomes(MethodOf[Cur(g)]) :
         /\ Judges(Cur(g), o)
         /\ WritesAtMost(g, Cur(g), ReplyKind(MethodOf[Cur(g)], o))
    /\ MovesTo(g, {"reading", "closed"})

LEMMA RespondWrites ==
    ASSUME NEW g, NEW c, NEW kind, Respond(g, c, kind) \/ SendResponse(g, c, kind)
    PROVE  WritesAtMost(g, c, kind) /\ MovesTo(g, {"reading", "closed"})
BY DEF Respond, SendResponse, WritesAtMost, MovesTo

LEMMA TaskKinds ==
    ASSUME NEW g \in Conns, TaskStep(g) \/ Shutdown(g)
    PROVE  Rests(g) \/ Drops(g) \/ Rejects(g) \/ Starts(g) \/ Finishes(g)
<1>1. CASE AcceptConn(g) \/ PeerClosed(g) \/ Shutdown(g)
    BY <1>1 DEF AcceptConn, PeerClosed, Shutdown, Rests, MovesTo, wireVars
<1>2. CASE DecodeFails(g)
    BY <1>2 DEF DecodeFails, Drops, MovesTo
<1>3. CASE UnknownMethod(g) \/ NoHandler(g) \/ ArgsRejected(g)
    BY <1>3, RespondWrites DEF UnknownMethod, NoHandler, ArgsRejected, Rejects, Judges
<1>4. CASE InvokeHandler(g)
    BY <1>4 DEF InvokeHandler, Starts, Judges, MovesTo
<1>5. CASE FinishHandler(g)
    BY <1>5, RespondWrites DEF FinishHandler, Finishes, Judges
<1>. QED
    BY <1>1, <1>2, <1>3, <1>4, <1>5 DEF TaskStep

(* Only a frame that is written changes the request streams.                  *)
LEMMA StreamsGrow ==
    [Next]_vars => UNCHANGED <<sent, gen>> \/ \E c \in Calls : WriteFrame(c)
BY ServerLeaves
   DEF Next, ClientNext, CallStep, StartCall, CallNotOpen, Flush, FlushFails,
       ReceiveReply, ReceiveFails, CancelCall, Dial, StoreConn, CancelOpen, Close,
       vars, callVars, wireVars

LEMMA FrameAdded ==
    ASSUME Layer2, NEW c \in Calls, WriteFrame(c)
    PROVE  /\ conn \in Conns /\ gen[c] = 0
           /\ \A d \in Calls : gen'[d] = IF d = c THEN conn ELSE gen[d]
           /\ \A g \in Conns : \A i \in OnWire(g) :
                i \in OnWire(g)' /\ sent'[g][i] = sent[g][i] /\ sent[g][i] # c
           /\ \A g \in Conns : \A i \in OnWire(g)' :
                i \in OnWire(g) \/ (sent'[g][i] = c /\ i = Len(sent[g]) + 1)
<1>1. conn \in Conns /\ gen[c] = 0
    BY DEF Layer2, Layer1, TypeOK, MutexInv, WriteFrame, Conns
<1>2. \A d \in Calls : gen'[d] = IF d = c THEN conn ELSE gen[d]
    BY DEF Layer2, Layer1, TypeOK, WriteFrame
<1>3. ASSUME NEW g \in Conns
      PROVE  \A i \in OnWire(g) : sent[g][i] # c
    BY <1>1 DEF Layer2, SentOnce, Conns
<1>4. ASSUME NEW g \in Conns
      PROVE  /\ \A i \in OnWire(g) : i \in OnWire(g)' /\ sent'[g][i] = sent[g][i]
             /\ \A i \in OnWire(g)' :
                  i \in OnWire(g) \/ (sent'[g][i] = c /\ i = Len(sent[g]) + 1)
    <2>t. sent \in [Conns -> Seq(Calls)] /\ sent[g] \in Seq(Calls) /\ Len(sent[g]) \in Nat
        BY DEF Layer2, Layer1, TypeOK
    <2>1. CASE g # conn
        <3>1. sent'[g] = sent[g]
            BY <1>1, <2>t, <2>1 DEF WriteFrame
        <3>. QED  BY <3>1 DEF OnWire
    <2>2. CASE g = conn
        <3>1. sent'[g] = Append(sent[g], c)
            BY <1>1, <2>t, <2>2 DEF WriteFrame
        <3>. QED  BY <2>t, <3>1, AppendElements DEF OnWire
    <2>. QED  BY <2>1, <2>2
<1>. QED
    BY <1>1, <1>2, <1>3, <1>4

(* Two places of the request streams that hold the same call are one.          *)
LEMMA OnePlace ==
    ASSUME Layer2, NEW g \in Conns, NEW h \in Conns, NEW i \in OnWire(g), NEW j \in OnWire(h),
           sent[g][i] = sent[h][j]
    PROVE  g = h /\ i = j
BY DEF Layer2, SentOnce

-----------------------------------------------------------------------------
(* Layer 4: what the server did with each request.                            *)

LEMMA VerdictInit == Init => VerdictInv
BY DEF Init, VerdictInv, OnWire

(* A request that the task takes, or has finished, is on its own connection    *)
(* and at one place of it.                                                   *)
LEMMA TakenPlace ==
    ASSUME Layer2, NEW g \in Conns, TakesRequest(g)
    PROVE  /\ taken[g] + 1 \in OnWire(g) /\ Requested(g) = sent[g][taken[g] + 1]
           /\ Requested(g) \in Calls /\ gen[Requested(g)] = g
           /\ taken'[g] = taken[g] + 1 /\ taken[g] \in Nat
           /\ \A h \in Conns : h # g => taken'[h] = taken[h]
<1>1. taken[g] + 1 \in OnWire(g) /\ Requested(g) \in Calls
    BY NextRequest DEF TakesRequest, Layer2
<1>. QED
    BY <1>1 DEF TakesRequest, Requested, Layer2, Layer1, TypeOK, SentOnce

LEMMA HandledPlace ==
    ASSUME Layer2, NEW g \in Conns, srv[g] = "handling"
    PROVE  /\ taken[g] \in OnWire(g) /\ Cur(g) = sent[g][taken[g]]
           /\ Cur(g) \in Calls /\ gen[Cur(g)] = g
<1>1. taken[g] \in OnWire(g) /\ Cur(g) \in Calls
    BY CurrentRequest DEF Layer2
<1>. QED
    BY <1>1 DEF Cur, Layer2, SentOnce

(* The four conjuncts about one place of a stream.                            *)
PlaceRight(g, i) ==
    /\ i > taken[g] => verdict[sent[g][i]] = "none"
    /\ i < taken[g] => Finished(sent[g][i])
    /\ i = taken[g] /\ srv[g] \in {"backlog", "reading"} => Finished(sent[g][i])
    /\ i = taken[g] /\ srv[g] = "handling" => verdict[sent[g][i]] = "started"

LEMMA VerdictClient ==
    ASSUME Layer4, [Next]_vars, UNCHANGED <<taken, srv, verdict>>
    PROVE  VerdictInv'
<1>1. CASE UNCHANGED <<sent, gen>>
    BY <1>1 DEF Layer4, VerdictInv, OnWire, Finished
<1>2. ASSUME NEW c \in Calls, WriteFrame(c) PROVE VerdictInv'
    <2>1. verdict[c] = "none"
        BY <1>2, FrameAdded DEF Layer4, VerdictInv
    <2>2. ASSUME NEW d \in Calls, gen'[d] = 0 PROVE verdict'[d] = "none"
        BY <1>2, <2>2, FrameAdded DEF Layer4, VerdictInv, Conns
    <2>3. ASSUME NEW g \in Conns, NEW i \in OnWire(g)' PROVE PlaceRight(g, i)'
        <3>1. CASE i \in OnWire(g)
            <4>1. sent'[g][i] = sent[g][i]
                BY <1>2, <3>1, FrameAdded DEF Layer4
            <4>. QED  BY <3>1, <4>1 DEF Layer4, VerdictInv, PlaceRight, Finished
        <3>2. CASE sent'[g][i] = c /\ i = Len(sent[g]) + 1
            <4>1. i > taken[g]
                BY <3>2, WireTypes DEF Layer4, Cursors
            <4>2. i \in Nat /\ taken[g] \in Nat
                BY <3>2, WireTypes DEF Layer4
            <4>. QED  BY <2>1, <3>2, <4>1, <4>2 DEF PlaceRight
        <3>. QED  BY <1>2, <2>3, <3>1, <3>2, FrameAdded DEF Layer4
    <2>. QED  BY <2>2, <2>3 DEF Layer4, VerdictInv, PlaceRight
<1>. QED
    BY <1>1, <1>2, StreamsGrow

LEMMA VerdictServer ==
    ASSUME Layer4, NEW h \in Conns, TaskStep(h) \/ Shutdown(h)
    PROVE  VerdictInv'
<1>0. UNCHANGED <<sent, gen>>
    BY ServerLeaves DEF ServerNext, callVars
<1>t. /\ verdict \in [Calls -> Verdicts] /\ srv \in [Conns -> TaskStates]
      /\ taken \in [Conns -> Nat]
    BY DEF Layer4, Layer2, Layer1, TypeOK
<1>i. \A g \in Conns : \A i \in OnWire(g) : i \in Nat /\ sent[g][i] \in Calls
    BY WireTypes DEF Layer4, OnWire
<1>o. ASSUME NEW g \in Conns, NEW i \in OnWire(g), g # h,
             verdict'[sent[g][i]] = verdict[sent[g][i]], taken'[g] = taken[g]
      PROVE  PlaceRight(g, i)'
    <2>1. srv'[g] = srv[g]
        BY <1>t, <1>o, TaskKinds DEF Rests, Drops, Rejects, Starts, Finishes, MovesTo
    <2>. QED  BY <1>0, <1>o, <2>1 DEF Layer4, VerdictInv, PlaceRight, Finished
<1>1. CASE Rests(h)
    <2>1. ASSUME NEW g \in Conns, NEW i \in OnWire(g) PROVE PlaceRight(g, i)'
        <3>1. CASE g # h
            BY <1>1, <1>o, <3>1 DEF Rests
        <3>2. CASE g = h
            <4>1. \/ srv[h] = "backlog" /\ srv'[h] \in {"reading", "closed"}
                  \/ srv'[h] = "closed"
                BY <1>1, <1>t DEF Rests, MovesTo
            <4>. QED  BY <1>0, <1>1, <3>2, <4>1 DEF Rests, Layer4, VerdictInv, PlaceRight, Finished
        <3>. QED  BY <3>1, <3>2
    <2>. QED  BY <1>0, <1>1, <2>1 DEF Rests, Layer4, VerdictInv, PlaceRight, OnWire
<1>2. CASE Drops(h)
    <2>1. TakesRequest(h) /\ verdict' = verdict /\ srv'[h] = "closed"
        BY <1>2, <1>t DEF Drops, MovesTo
    <2>2. ASSUME NEW g \in Conns, NEW i \in OnWire(g) PROVE PlaceRight(g, i)'
        <3>1. CASE g # h
            BY <1>o, <2>1, <3>1, TakenPlace DEF Layer4
        <3>2. CASE g = h
            <4>1. taken'[g] = taken[g] + 1 /\ taken[g] \in Nat /\ srv[g] = "reading"
                BY <2>1, <3>2, TakenPlace DEF Layer4, TakesRequest
            <4>. QED
                BY <1>0, <1>i, <2>1, <3>2, <4>1 DEF Layer4, VerdictInv, PlaceRight, Finished
        <3>. QED  BY <3>1, <3>2
    <2>. QED  BY <1>0, <2>1, <2>2 DEF Layer4, VerdictInv, PlaceRight, OnWire
<1>3. ASSUME TakesRequest(h), NEW s \in {"rejected", "started"}, Judges(Requested(h), s),
             srv'[h] \in IF s = "started" THEN {"handling"} ELSE {"reading", "closed"}
      PROVE  VerdictInv'
    <2> DEFINE c == Requested(h)
    <2>1. \A d \in Calls : verdict'[d] = IF d = c THEN s ELSE verdict[d]
        BY <1>t, <1>3 DEF Judges
    <2>2. /\ taken[h] + 1 \in OnWire(h) /\ c = sent[h][taken[h] + 1]
          /\ c \in Calls /\ gen[c] = h /\ taken'[h] = taken[h] + 1 /\ srv[h] = "reading"
          /\ taken[h] \in Nat
          /\ \A g \in Conns : g # h => taken'[g] = taken[g]
        BY <1>3, TakenPlace DEF Layer4, TakesRequest
    <2>. HIDE DEF c
    <2>3. \A g \in Conns : \A i \in OnWire(g) :
              sent[g][i] = c => g = h /\ i = taken[h] + 1
        BY <2>2, OnePlace DEF Layer4
    <2>4. ASSUME NEW g \in Conns, NEW i \in OnWire(g) PROVE PlaceRight(g, i)'
        <3>1. CASE g # h
            BY <1>i, <1>o, <2>1, <2>2, <2>3, <3>1
        <3>2. CASE g = h /\ i # taken[h] + 1
            <4>1. verdict'[sent[g][i]] = verdict[sent[g][i]]
                BY <1>i, <2>1, <2>3, <3>2
            <4>. QED
                BY <1>0, <1>i, <2>2, <3>2, <4>1 DEF Layer4, VerdictInv, PlaceRight, Finished
        <3>3. CASE g = h /\ i = taken[h] + 1
            BY <1>0, <1>3, <2>1, <2>2, <3>3 DEF PlaceRight, Finished
        <3>. QED  BY <3>1, <3>2, <3>3
    <2>5. \A d \in Calls : /\ gen'[d] = 0 => verdict'[d] = "none"
                           /\ verdict'[d] = "declared" => MethodOf[d] \in Throws
        BY <1>0, <2>1, <2>2 DEF Layer4, VerdictInv, Conns
    <2>. QED  BY <1>0, <2>4, <2>5 DEF VerdictInv, PlaceRight, OnWire
<1>4. CASE Rejects(h)
    BY <1>3, <1>4, <1>t DEF Rejects, MovesTo
<1>5. CASE Starts(h)
    BY <1>3, <1>5, <1>t DEF Starts, MovesTo
<1>6. CASE Finishes(h)
    <2> DEFINE c == Cur(h)
    <2>0. PICK o \in HandlerOutcomes(MethodOf[c]) : Judges(c, o)
        BY <1>6 DEF Finishes
    <2>1. \A d \in Calls : verdict'[d] = IF d = c THEN o ELSE verdict[d]
        BY <1>t, <2>0 DEF Judges
    <2>2. /\ taken[h] \in OnWire(h) /\ c = sent[h][taken[h]] /\ taken' = taken
          /\ c \in Calls /\ gen[c] = h /\ srv'[h] \in {"reading", "closed"}
        BY <1>6, <1>t, HandledPlace DEF Layer4, Finishes, MovesTo
    <2>3. o \in {"value", "error", "declared"} /\ (o = "declared" => MethodOf[c] \in Throws)
        BY DEF HandlerOutcomes
    <2>. HIDE DEF c
    <2>4. \A g \in Conns : \A i \in OnWire(g) : sent[g][i] = c => g = h /\ i = taken[h]
        BY <2>2, OnePlace DEF Layer4
    <2>5. ASSUME NEW g \in Conns, NEW i \in OnWire(g) PROVE PlaceRight(g, i)'
        <3>1. CASE g # h
            BY <1>i, <1>o, <2>1, <2>2, <2>4, <3>1
        <3>2. CASE g = h /\ i # taken[h]
            <4>1. verdict'[sent[g][i]] = verdict[sent[g][i]]
                BY <1>i, <2>1, <2>4, <3>2
            <4>. QED
                BY <1>0, <1>i, <2>2, <3>2, <4>1 DEF Layer4, VerdictInv, PlaceRight, Finished
        <3>3. CASE g = h /\ i = taken[h]
            BY <1>0, <1>i, <2>1, <2>2, <2>3, <3>3 DEF PlaceRight, Finished
        <3>. QED  BY <3>1, <3>2, <3>3
    <2>6. \A d \in Calls : /\ gen'[d] = 0 => verdict'[d] = "none"
                           /\ verdict'[d] = "declared" => MethodOf[d] \in Throws
        BY <1>0, <2>1, <2>2, <2>3 DEF Layer4, VerdictInv, Conns
    <2>. QED  BY <1>0, <2>5, <2>6 DEF VerdictInv, PlaceRight, OnWire
<1>. QED
    BY <1>1, <1>2, <1>4, <1>5, <1>6, TaskKinds

LEMMA Layer4Step == Layer4 /\ [Next]_vars => Layer4'
<1> SUFFICES ASSUME Layer4, [Next]_vars PROVE VerdictInv'
    BY Layer2Step DEF Layer4
<1>1. CASE ClientNext \/ UNCHANGED vars
    BY <1>1, ClientLeaves, VerdictClient DEF vars, wireVars, serverVars
<1>2. CASE ServerNext
    BY <1>2, VerdictServer DEF ServerNext
<1>. QED
    BY <1>1, <1>2 DEF Next

LEMMA Layer4Always == Spec => []Layer4
<1>1. Init => Layer4
    BY Layer2Init, VerdictInit DEF Layer4
<1>. QED
    BY <1>1, Layer4Step, PTL DEF Spec

(* A connection's requests are served in the order in which they were          *)
(* written, whichever handlers are coroutines and whoever was cancelled.      *)
THEOREM ServesInOrder == Spec => []ServedInOrder
<1>1. Layer4 => ServedInOrder
  <2> SUFFICES ASSUME Layer4, NEW g \in Conns, NEW i \in OnWire(g), NEW j \in OnWire(g),
                      i < j, verdict[sent[g][j]] # "none"
               PROVE  Finished(sent[g][i])
      BY DEF ServedInOrder, OnWire, Finished
  <2>1. ~(j > taken[g])
      BY DEF Layer4, VerdictInv
  <2>2. i < taken[g]
      BY <2>1, WireTypes DEF OnWire, Layer4
  <2>. QED
      BY <2>2 DEF Layer4, VerdictInv
<1>. QED
    BY <1>1, Layer4Always, PTL

VerdictMoves(c) ==
    verdict'[c] # verdict[c] =>
        \/ verdict[c] = "none" /\ verdict'[c] \in {"rejected", "started"}
        \/ verdict[c] = "started" /\ verdict'[c] \in {"value", "declared", "error"}

LEMMA VerdictStep == Layer4 /\ [Next]_vars => \A c \in Calls : VerdictMoves(c)
<1> SUFFICES ASSUME Layer4, [Next]_vars, NEW c \in Calls PROVE VerdictMoves(c)
    OBVIOUS
<1>t. verdict \in [Calls -> Verdicts]
    BY DEF Layer4, Layer2, Layer1, TypeOK
<1>1. ASSUME NEW g \in Conns, TakesRequest(g), NEW s \in {"rejected", "started"},
             Judges(Requested(g), s)
      PROVE  VerdictMoves(c)
    <2>1. verdict[Requested(g)] = "none"
        BY <1>1, TakenPlace, WireTypes DEF Layer4, VerdictInv
    <2>. QED  BY <1>t, <1>1, <2>1 DEF Judges, VerdictMoves
<1>2. ASSUME NEW g \in Conns, Finishes(g) PROVE VerdictMoves(c)
    <2>1. verdict[Cur(g)] = "started"
        BY <1>2, HandledPlace, WireTypes DEF Layer4, VerdictInv, Finishes
    <2>. QED  BY <1>t, <1>2, <2>1 DEF Finishes, Judges, VerdictMoves, HandlerOutcomes
<1>3. CASE ServerNext
    <2>1. PICK g \in Conns : TaskStep(g) \/ Shutdown(g)
        BY <1>3 DEF ServerNext
    <2>. QED
        BY <1>1, <1>2, <2>1, TaskKinds DEF Rests, Drops, Rejects, Starts, VerdictMoves
<1>. QED
    BY <1>3, ClientLeaves DEF Next, vars, serverVars, VerdictMoves

(* A handler runs at most once for a call, and what it did is never revised:   *)
(* neither side tries anything twice.                                        *)
THEOREM RunsOnce == Spec => RunsAtMostOnce
<1>1. Layer4 /\ [Next]_vars =>
        [\A c \in Calls : verdict'[c] # verdict[c] =>
           \/ verdict[c] = "none" /\ verdict'[c] \in {"rejected", "started"}
           \/ verdict[c] = "started" /\ verdict'[c] \in {"value", "declared", "error"}]_vars
    BY VerdictStep DEF VerdictMoves
<1>. QED
    BY <1>1, Layer4Always, PTL DEF Spec, RunsAtMostOnce

-----------------------------------------------------------------------------
(* Layer 5: what the replies say.                                            *)

Layer5 == Layer4 /\ ReplyInv /\ ReceivedInv

LEMMA Layer5Init == Init => ReplyInv /\ ReceivedInv
BY DEF Init, ReplyInv, ReceivedInv

(* What stays as it is.                                                      *)
LEMMA FinishedStays ==
    ASSUME Layer4, [Next]_vars, NEW c \in Calls, Finished(c)
    PROVE  verdict'[c] = verdict[c] /\ Finished(c)' /\ Answer(c)' = Answer(c)
BY VerdictStep DEF VerdictMoves, Finished, Answer

LEMMA PlacesStay ==
    ASSUME Layer4, [Next]_vars, NEW g \in Conns, NEW i \in OnWire(g)
    PROVE  i \in OnWire(g)' /\ sent'[g][i] = sent[g][i]
BY StreamsGrow, FrameAdded DEF Layer4, OnWire

LEMMA GenStays ==
    ASSUME Layer4, [Next]_vars, NEW c \in Calls, gen[c] # 0
    PROVE  gen'[c] = gen[c]
BY StreamsGrow, FrameAdded DEF Layer4

LEMMA TakenGrows ==
    ASSUME Layer4, [Next]_vars, NEW g \in Conns
    PROVE  taken'[g] = taken[g] \/ taken'[g] = taken[g] + 1
<1>1. CASE ServerNext
    BY <1>1, TaskKinds, TakenPlace
       DEF ServerNext, Rests, Drops, Rejects, Starts, Finishes, Layer4
<1>. QED
    BY <1>1, ClientLeaves DEF Next, vars, wireVars

LEMMA DoneStays ==
    ASSUME Layer4, [Next]_vars, NEW c \in Calls, pc[c] = "done"
    PROVE  pc'[c] = "done" /\ res'[c] = res[c] /\ from'[c] = from[c]
BY ServerLeaves
   DEF Layer4, Layer2, Layer1, TypeOK, Next, ClientNext, CallStep, StartCall, CallNotOpen,
       WriteFrame, Flush, FlushFails, ReceiveReply, ReceiveFails, CancelCall, Dial,
       StoreConn, CancelOpen, Close, Ends, vars, callVars

LEMMA AnswersStay ==
    ASSUME Layer4, [Next]_vars, NEW g \in Conns, NEW r \in Reply, Answers(g, r)
    PROVE  Answers(g, r)'
<1>1. r.call \in Calls
    BY DEF Reply
<1>2. Finished(r.call)' /\ Answer(r.call)' = Answer(r.call)
    BY <1>1, FinishedStays DEF Answers
<1>3. PICK i \in OnWire(g) : i <= taken[g] /\ sent[g][i] = r.call
    BY DEF Answers
<1>4. i \in OnWire(g)' /\ sent'[g][i] = sent[g][i]
    BY PlacesStay
<1>5. i <= taken'[g]
    BY <1>3, TakenGrows, WireTypes DEF OnWire, Layer4
<1>. QED
    BY <1>2, <1>3, <1>4, <1>5 DEF Answers

LEMMA ReplyStep == Layer5 /\ [Next]_vars => ReplyInv'
<1> SUFFICES ASSUME Layer5, [Next]_vars, NEW g \in Conns, NEW k \in 1..Len(rep'[g]),
                    NEW r, r = rep'[g][k]
             PROVE  Answers(g, r)'
    BY DEF ReplyInv
<1>t. /\ rep \in [Conns -> Seq(Reply)] /\ rep[g] \in Seq(Reply) /\ Len(rep[g]) \in Nat
      /\ verdict \in [Calls -> Verdicts]
    BY DEF Layer5, Layer4, Layer2, Layer1, TypeOK
<1>1. ASSUME k \in 1..Len(rep[g]), r = rep[g][k] PROVE Answers(g, r)'
    <2>1. r \in Reply /\ Answers(g, r)
        BY <1>t, <1>1 DEF Layer5, ReplyInv
    <2>. QED  BY <2>1, AnswersStay DEF Layer5
<1>2. ASSUME NEW h \in Conns, NEW c \in Calls, NEW kind \in ReplyKinds,
             WritesAtMost(h, c, kind)
      PROVE  \/ k \in 1..Len(rep[g]) /\ r = rep[g][k]
             \/ g = h /\ r.call = c /\ r.kind = kind
    <2> DEFINE new == [call |-> c, kind |-> kind]
    <2>1. CASE rep'[g] = rep[g]
        BY <2>1
    <2>2. CASE g = h /\ rep'[g] = Append(rep[g], new)
        <3>1. new \in Reply /\ new.call = c /\ new.kind = kind
            BY DEF Reply
        <3>. HIDE DEF new
        <3>2. \/ k \in 1..Len(rep[g]) /\ r = rep[g][k]
              \/ r = new
            BY <1>t, <2>2, <3>1, AppendElements
        <3>. QED  BY <2>2, <3>1, <3>2
    <2>. QED  BY <1>t, <1>2, <2>1, <2>2 DEF WritesAtMost
<1>3. ASSUME NEW h \in Conns, Rejects(h) PROVE Answers(g, r)'
    <2> DEFINE c == Requested(h)
    <2>1. /\ taken[h] + 1 \in OnWire(h) /\ c = sent[h][taken[h] + 1] /\ c \in Calls
          /\ taken'[h] = taken[h] + 1
        BY <1>3, TakenPlace DEF Rejects, Layer5, Layer4
    <2>2. verdict'[c] = "rejected"
        BY <1>t, <1>3, <2>1 DEF Rejects, Judges
    <2>3. taken[h] + 1 \in OnWire(h)' /\ sent'[h][taken[h] + 1] = c
        BY <2>1, PlacesStay DEF Layer5
    <2>4. taken[h] + 1 <= taken'[h]
        BY <2>1, WireTypes DEF Layer5, Layer4
    <2>5. ASSUME g = h, r.call = c, r.kind = "appex" PROVE Answers(g, r)'
        <3>1. Finished(r.call)' /\ r.kind = Answer(r.call)'
            BY <2>2, <2>5 DEF Finished, Answer, ReplyKind
        <3>2. \E i \in OnWire(g)' : i <= taken'[g] /\ sent'[g][i] = r.call
            BY <2>3, <2>4, <2>5
        <3>. QED  BY <3>1, <3>2 DEF Answers
    <2>. QED  BY <1>1, <1>2, <1>3, <2>1, <2>5 DEF Rejects, ReplyKinds
<1>4. ASSUME NEW h \in Conns, Finishes(h) PROVE Answers(g, r)'
    <2> DEFINE c == Cur(h)
    <2>1. /\ taken[h] \in OnWire(h) /\ c = sent[h][taken[h]] /\ c \in Calls
          /\ taken'[h] = taken[h]
        BY <1>4, HandledPlace DEF Finishes, Layer5, Layer4
    <2>2. PICK o \in HandlerOutcomes(MethodOf[c]) :
              Judges(c, o) /\ WritesAtMost(h, c, ReplyKind(MethodOf[c], o))
        BY <1>4 DEF Finishes
    <2>3. verdict'[c] = o /\ o \in {"value", "error", "declared"}
        BY <1>t, <2>1, <2>2 DEF Judges, HandlerOutcomes
    <2>4. taken[h] \in OnWire(h)' /\ sent'[h][taken[h]] = c /\ taken[h] <= taken'[h]
        BY <2>1, PlacesStay, WireTypes DEF Layer5, Layer4
    <2>5. ASSUME g = h, r.call = c, r.kind = ReplyKind(MethodOf[c], o) PROVE Answers(g, r)'
        <3>1. Finished(r.call)' /\ r.kind = Answer(r.call)'
            BY <2>3, <2>5 DEF Finished, Answer
        <3>2. \E i \in OnWire(g)' : i <= taken'[g] /\ sent'[g][i] = r.call
            BY <2>4, <2>5
        <3>. QED  BY <3>1, <3>2 DEF Answers
    <2>6. ReplyKind(MethodOf[c], o) \in ReplyKinds
        BY DEF ReplyKind, ReplyKinds
    <2>. QED  BY <1>1, <1>2, <2>1, <2>2, <2>5, <2>6
<1>5. rep' = rep => Answers(g, r)'
    BY <1>1
<1>. QED
    BY <1>3, <1>4, <1>5, TaskKinds, ClientLeaves
       DEF Next, ServerNext, vars, wireVars, Rests, Drops, Starts

(* A call that reads a reply talks on its connection alone, behind whatever    *)
(* the reply is about.                                                       *)
LEMMA BeforeStays ==
    ASSUME Layer4, [Next]_vars, NEW c \in Calls, NEW d \in Calls, gen[c] \in Conns, Before(d, c)
    PROVE  Before(d, c)'
<1>1. PICK i \in OnWire(gen[c]), j \in OnWire(gen[c]) :
          i <= j /\ sent[gen[c]][i] = d /\ sent[gen[c]][j] = c
    BY DEF Before, OnWire
<1>2. gen'[c] = gen[c]
    BY GenStays DEF Conns
<1>3. PICK g \in Conns : g = gen[c]
    OBVIOUS
<1>4. /\ i \in OnWire(g)' /\ sent'[g][i] = d
      /\ j \in OnWire(g)' /\ sent'[g][j] = c
    BY <1>1, <1>3, PlacesStay
<1>. QED
    BY <1>1, <1>2, <1>3, <1>4 DEF Before, OnWire

LEMMA ReadsReceived ==
    ASSUME Layer5, [Next]_vars, NEW c \in Calls, ReceiveReply(c)
    PROVE  Received(c)' /\ from'[c] \in Calls
<1> DEFINE g == gen[c]
<1>1. lock = c /\ g = conn /\ g \in Conns /\ got[g] < Len(rep[g])
    BY HolderOnConn DEF ReceiveReply, Layer5, Layer4, Layer2
<1>2. PICK r : r = rep[g][got[g] + 1]
    OBVIOUS
<1>3. got[g] + 1 \in 1..Len(rep[g]) /\ r \in Reply
    BY <1>1, <1>2, NextReply DEF Layer5, Layer4, Layer2
<1>4. from'[c] = r.call /\ res'[c] = r.kind /\ gen' = gen /\ sent' = sent
    BY <1>2 DEF ReceiveReply, Ends, Layer5, Layer4, Layer2, Layer1, TypeOK
<1>5. Answers(g, r) /\ r.call \in Calls
    BY <1>1, <1>2, <1>3 DEF Layer5, ReplyInv, Reply
<1>6. Finished(r.call)' /\ r.kind = Answer(r.call)'
    BY <1>5, FinishedStays DEF Answers, Layer5
<1>7. PICK i \in OnWire(g) : sent[g][i] = r.call
    BY <1>5 DEF Answers
<1>8. /\ Len(sent[g]) \in OnWire(g) /\ i <= Len(sent[g]) /\ sent[g][Len(sent[g])] = c
    BY <1>1, WireTypes DEF Layer5, Layer4, Layer2, HolderIsLast, OnWire
<1>9. gen[r.call] = g
    BY <1>1, <1>7 DEF Layer5, Layer4, Layer2, SentOnce
<1>10. gen'[from'[c]] = gen'[c]
    BY <1>4, <1>9
<1>11. Before(from[c], c)'
    BY <1>4, <1>7, <1>8 DEF Before, OnWire
<1>12. Finished(from[c])' /\ res'[c] = Answer(from[c])'
    BY <1>4, <1>6 DEF Finished, Answer
<1>. QED
    BY <1>4, <1>5, <1>10, <1>11, <1>12 DEF Received

LEMMA FromMoves ==
    ASSUME [Next]_vars, Layer4, NEW c \in Calls
    PROVE  ReceiveReply(c) \/ from'[c] = from[c]
BY ServerLeaves
   DEF Layer4, Layer2, Layer1, TypeOK, Next, ClientNext, CallStep, StartCall, CallNotOpen,
       WriteFrame, Flush, FlushFails, ReceiveReply, ReceiveFails, CancelCall, Dial,
       StoreConn, CancelOpen, Close, vars, callVars

LEMMA ReceivedStays ==
    ASSUME Layer5, [Next]_vars, NEW c \in Calls, from[c] # NoCall
    PROVE  Received(c)'
<1>1. /\ pc[c] = "done" /\ Received(c) /\ from[c] \in Calls /\ gen[c] \in Conns
    BY DEF Layer5, Layer4, Layer2, Layer1, TypeOK, MutexInv, ReceivedInv, Conns
<1>2. res'[c] = res[c] /\ from'[c] = from[c]
    BY <1>1, DoneStays DEF Layer5
<1>3. PICK d \in Calls : d = from[c]
    BY <1>1
<1>4. Finished(d) /\ res[c] = Answer(d) /\ gen[d] = gen[c] /\ Before(d, c)
    BY <1>1, <1>3 DEF Received
<1>5. Finished(d)' /\ Answer(d)' = Answer(d)
    BY <1>4, FinishedStays DEF Layer5
<1>6. Before(d, c)'
    BY <1>1, <1>4, BeforeStays DEF Layer5
<1>7. gen'[d] = gen'[c]
    BY <1>1, <1>4, GenStays DEF Layer5, Conns
<1>8. from'[c] = d
    BY <1>2, <1>3
<1>. QED
    BY <1>2, <1>4, <1>5, <1>6, <1>7, <1>8 DEF Received, Finished, Answer, Before

LEMMA RefusedStep ==
    ASSUME Layer5, [Next]_vars, NEW c \in Calls, res'[c] \in {"badargs", "notopen"}
    PROVE  gen'[c] = 0
<1>t. /\ pc \in [Calls -> CallStates] /\ res \in [Calls -> Results]
      /\ gen \in [Calls -> 0..MaxConns]
    BY DEF Layer5, Layer4, Layer2, Layer1, TypeOK
<1>1. CASE StartCall(c) \/ CallNotOpen(c)
    BY <1>1 DEF StartCall, CallNotOpen, Layer5, Layer4, Layer2, Layer1, MutexInv
<1>2. ~ReceiveReply(c)
    <2> SUFFICES ASSUME ReceiveReply(c) PROVE FALSE
        OBVIOUS
    <2>1. rep[gen[c]][got[gen[c]] + 1].kind \in ReplyKinds
        BY HolderOnConn, NextReply DEF ReceiveReply, Reply, Layer5, Layer4, Layer2
    <2>. QED  BY <1>t, <2>1 DEF ReceiveReply, Ends, ReplyKinds
<1>3. CASE res'[c] = res[c]
    <2>1. gen[c] = 0 /\ pc[c] = "done"
        BY <1>3 DEF Layer5, Layer4, Layer2, Layer1, MutexInv, ReceivedInv
    <2>2. ~WriteFrame(c)
        BY <2>1 DEF WriteFrame
    <2>. QED
        BY <2>1, <2>2, StreamsGrow, FrameAdded DEF Layer5, Layer4
<1>4. \/ StartCall(c) \/ CallNotOpen(c) \/ ReceiveReply(c)
      \/ res'[c] = res[c] \/ res'[c] \in {"none", "ioerror", "cancelled"}
    BY <1>t, ServerLeaves
       DEF Next, ClientNext, CallStep, StartCall, CallNotOpen, WriteFrame, Flush, FlushFails,
           ReceiveReply, ReceiveFails, CancelCall, Dial, StoreConn, CancelOpen, Close, Ends,
           vars, callVars
<1>. QED
    BY <1>1, <1>2, <1>3, <1>4

LEMMA Layer5Step == Layer5 /\ [Next]_vars => Layer5'
<1> SUFFICES ASSUME Layer5, [Next]_vars PROVE ReceivedInv'
    BY Layer4Step, ReplyStep DEF Layer5
<1>1. ASSUME NEW c \in Calls, from'[c] # NoCall PROVE Received(c)'
    BY <1>1, ReadsReceived, ReceivedStays, FromMoves DEF Layer5
<1>. QED
    BY <1>1, RefusedStep DEF ReceivedInv

LEMMA Layer5Always == Spec => []Layer5
<1>1. Init => Layer5
    BY Layer2Init, VerdictInit, Layer5Init DEF Layer5, Layer4
<1>. QED
    BY <1>1, Layer5Step, PTL DEF Spec

(* Even a reply that is not the call's own comes from the call's own            *)
(* connection, and from a request sent no later: reopening the client leaves    *)
(* every stale reply behind.                                                 *)
THEOREM StaleStaysOnItsConn == Spec => []StaleFromSameConn
<1>1. Layer5 => StaleFromSameConn
    BY DEF Layer5, ReceivedInv, Received, StaleFromSameConn
<1>. QED
    BY <1>1, Layer5Always, PTL

(* A declared exception reaches its caller as one, if the handlers of the      *)
(* methods that declare one are no coroutines.                               *)
THEOREM DeclaredArrives ==
    ASSUME AsyncHandlers \cap Throws = {}
    PROVE  Spec => []DeclaredDelivered
<1>1. Layer5 => DeclaredDelivered
  <2> SUFFICES ASSUME Layer5, NEW c \in Calls, from[c] # NoCall, verdict[from[c]] = "declared"
               PROVE  res[c] = "declared"
      BY DEF DeclaredDelivered
  <2>1. from[c] \in Calls /\ res[c] = Answer(from[c])
      BY DEF Layer5, Layer4, Layer2, Layer1, TypeOK, ReceivedInv, Received
  <2>2. MethodOf[from[c]] \in Throws
      BY <2>1 DEF Layer5, Layer4, VerdictInv
  <2>. QED
      BY <2>1, <2>2 DEF Answer, ReplyKind
<1>. QED
    BY <1>1, Layer5Always, PTL

-----------------------------------------------------------------------------
(* Calls on one connection wait for their replies one at a time.              *)

LEMMA RepliesStay ==
    ASSUME Layer2, [Next]_vars, NEW g \in Conns, NEW k \in 1..Len(rep[g])
    PROVE  rep'[g][k] = rep[g][k]
<1>t. /\ rep \in [Conns -> Seq(Reply)] /\ rep[g] \in Seq(Reply)
    BY DEF Layer2, Layer1, TypeOK
<1>1. ASSUME NEW h \in Conns, NEW c \in Calls, NEW kind \in ReplyKinds,
             WritesAtMost(h, c, kind)
      PROVE  rep'[g][k] = rep[g][k]
    <2> DEFINE new == [call |-> c, kind |-> kind]
    <2>1. new \in Reply
        BY DEF Reply
    <2>2. rep'[g] = rep[g] \/ rep'[g] = Append(rep[g], new)
        BY <1>t, <1>1 DEF WritesAtMost
    <2>. HIDE DEF new
    <2>. QED  BY <1>t, <2>1, <2>2, AppendElements
<1>2. ASSUME NEW h \in Conns, Rejects(h) PROVE rep'[g][k] = rep[g][k]
    BY <1>1, <1>2, TakenPlace DEF Rejects, ReplyKinds
<1>3. ASSUME NEW h \in Conns, Finishes(h) PROVE rep'[g][k] = rep[g][k]
    <2>1. \A o : ReplyKind(MethodOf[Cur(h)], o) \in ReplyKinds
        BY DEF ReplyKind, ReplyKinds
    <2>. QED  BY <1>1, <1>3, <2>1, HandledPlace DEF Finishes
<1>. QED
    BY <1>2, <1>3, TaskKinds, ClientLeaves
       DEF Next, ServerNext, vars, wireVars, Rests, Drops, Starts

LEMMA GotGrows ==
    ASSUME Layer2, [Next]_vars, NEW g \in Conns
    PROVE  got'[g] \in Nat /\ got'[g] >= got[g]
<1>t. got \in [Conns -> Nat] /\ Len(rep[g]) \in Nat /\ got[g] <= Len(rep[g])
    BY WireTypes DEF Layer2, Layer1, TypeOK, Cursors
<1>1. \/ got' = got
      \/ \E h \in Conns : got' = [got EXCEPT ![h] = got[h] + 1]
      \/ \E h \in Conns : got' = [got EXCEPT ![h] = Len(rep[h])]
    <2>1. ASSUME NEW c \in Calls, ReceiveReply(c) \/ ReceiveFails(c)
          PROVE  \E h \in Conns : \/ got' = [got EXCEPT ![h] = got[h] + 1]
                                  \/ got' = [got EXCEPT ![h] = Len(rep[h])]
        BY <2>1, HolderOnConn DEF ReceiveReply, ReceiveFails, Layer2
    <2>. QED
        BY <2>1, ServerLeaves
           DEF Next, ClientNext, CallStep, StartCall, CallNotOpen, WriteFrame, Flush,
               FlushFails, CancelCall, Dial, StoreConn, CancelOpen, Close, vars, wireVars
<1>. QED
    BY <1>t, <1>1

LEMMA ClosedStays ==
    ASSUME Layer2, [Next]_vars, NEW g \in Conns, srv[g] = "closed"
    PROVE  srv'[g] = "closed"
<1>t. srv \in [Conns -> TaskStates]
    BY DEF Layer2, Layer1, TypeOK
<1>1. ASSUME NEW h \in Conns, TaskStep(h) \/ Shutdown(h) PROVE srv'[g] = "closed"
    <2>1. CASE h # g
        BY <1>1, <1>t, <2>1, TaskKinds
           DEF Rests, Drops, Rejects, Starts, Finishes, MovesTo
    <2>2. CASE h = g
        BY <1>1, <1>t, <2>2, TaskKinds
           DEF Rests, Drops, Rejects, Starts, Finishes, MovesTo, TakesRequest
    <2>. QED  BY <2>1, <2>2
<1>. QED
    BY <1>1, ClientLeaves DEF Next, ServerNext, vars, serverVars

LEMMA ReadStays ==
    ASSUME Layer4, [Next]_vars, NEW c \in Calls, gen[c] \in Conns, ReplyRead(c)
    PROVE  ReplyRead(c)'
<1> DEFINE g == gen[c]
<1>1. PICK k \in 1..got[g] : rep[g][k].call = c
    BY DEF ReplyRead
<1>2. k \in 1..Len(rep[g]) /\ k \in 1..got'[g]
    BY GotGrows, WireTypes DEF Layer4, Cursors
<1>3. rep'[g][k] = rep[g][k]
    BY <1>2, RepliesStay DEF Layer4
<1>4. gen'[c] = g
    BY GenStays DEF Conns
<1>. QED
    BY <1>1, <1>2, <1>3, <1>4 DEF ReplyRead

(* The mutex is given back with the reply read, on a closed connection, or by   *)
(* a call that poisons its connection.                                       *)
LEMMA ReleaseAnswered ==
    ASSUME Layer4, Lockstep, [Next]_vars, NEW c \in Calls, lock = c, lock' # c,
           ~IsOneway(c), srv[gen[c]] # "closed", ~Poisoned(gen[c])
    PROVE  ReplyRead(c)' \/ res'[c] = "cancelled"
<1>t. /\ pc \in [Calls -> CallStates] /\ res \in [Calls -> Results]
      /\ got \in [Conns -> Nat] /\ conn \in Conns /\ gen[c] = conn
    BY HolderOnConn DEF Layer4, Layer2, Layer1, TypeOK, MutexInv, OneCallAtATime
<1>1. ASSUME NEW d \in Calls, ReceiveReply(d) PROVE ReplyRead(c)'
    <2>1. d = c
        BY <1>1, HolderOnConn DEF ReceiveReply, Layer4, Layer2
    <2> DEFINE g == gen[c]
    <2>2. /\ got[g] < Len(rep[g]) /\ got'[g] = got[g] + 1 /\ rep' = rep /\ gen' = gen
          /\ g \in Conns
        BY <1>1, <1>t, <2>1 DEF ReceiveReply
    <2>3. got[g] + 1 \in 1..Len(rep[g]) /\ got[g] + 1 > got[g] /\ got[g] + 1 \in 1..got'[g]
        BY <2>2, WireTypes DEF Layer4
    <2>4. InLockstep(g)
        BY <2>2 DEF Lockstep
    <2>5. rep[g][got[g] + 1].call = c
        BY <2>3, <2>4 DEF InLockstep, PendingReplyIsHolders, HeldOn
    <2>. QED  BY <2>2, <2>3, <2>5 DEF ReplyRead
<1>2. ASSUME NEW d \in Calls, CancelCall(d) PROVE res'[c] = "cancelled"
    BY <1>2, <1>t DEF CancelCall, Ends
<1>3. ASSUME NEW d \in Calls, FlushFails(d) \/ ReceiveFails(d) PROVE FALSE
    BY <1>3, HolderOnConn DEF FlushFails, ReceiveFails, Layer4, Layer2
<1>4. ASSUME NEW d \in Calls, Flush(d) PROVE FALSE
    BY <1>4, HolderOnConn DEF Flush, Layer4, Layer2
<1>. QED
    BY <1>1, <1>2, <1>3, <1>4, ServerLeaves
       DEF Next, ClientNext, CallStep, StartCall, CallNotOpen, WriteFrame, Dial, StoreConn,
           CancelOpen, Close, vars, clientVars

LEMMA SerialStep == Layer4 /\ Lockstep /\ SerialInv /\ [Next]_vars => SerialInv'
<1> SUFFICES ASSUME Layer4, Lockstep, SerialInv, [Next]_vars, NEW g \in Conns,
                    ~Poisoned(g)', srv'[g] # "closed",
                    NEW c \in Calls, gen'[c] = g, ~IsOneway(c), ~ReplyRead(c)', c # lock'
             PROVE  FALSE
    BY DEF SerialInv, Unanswered, IsOneway
<1>1. ~Poisoned(g) /\ srv[g] # "closed"
    BY PoisonStays, ClosedStays DEF Layer4
<1>2. CASE WriteFrame(c)
    BY <1>2 DEF WriteFrame
<1>3. CASE ~WriteFrame(c)
    <2>1. gen[c] = g
        BY <1>3, StreamsGrow, FrameAdded DEF Layer4
    <2>2. ~ReplyRead(c)
        BY <2>1, ReadStays
    <2>3. lock = c
        BY <1>1, <2>1, <2>2 DEF SerialInv, Unanswered
    <2>4. res'[c] = "cancelled"
        BY <1>1, <2>1, <2>3, ReleaseAnswered
    <2>. QED  BY <2>4 DEF Poisoned
<1>. QED
    BY <1>2, <1>3

(* Calls that threads or coroutines make at a time go over the connection one   *)
(* after the other: at most one two-way request waits for its reply, where      *)
(* calls cannot be cancelled and each oneway method has a handler.             *)
THEOREM CallsSerialised ==
    ASSUME NothingStray
    PROVE  Spec => []Serialised
<1> DEFINE Inv == Layer4 /\ Lockstep /\ SerialInv /\ NeverCancelled
<1>1. Init => Inv
    <2>1. Init => SerialInv /\ NeverCancelled
        BY DEF Init, SerialInv, Unanswered, Conns, NeverCancelled
    <2>. QED  BY <2>1, Layer2Init, VerdictInit, LockstepInit DEF Layer4
<1>2. Inv /\ [Next]_vars => Inv'
    BY Layer4Step, LockstepStep, SerialStep, NeverCancelledStep DEF Layer4, Layer2, NothingStray
<1>3. Inv => Serialised
    <2> SUFFICES ASSUME Inv, NEW g \in Conns, srv[g] # "closed"
                 PROVE  Cardinality(Unanswered(g)) <= 1
        BY DEF Serialised
    <2>1. Unanswered(g) \subseteq {lock}
        BY DEF SerialInv, Poisoned, NothingStray, NeverCancelled
    <2>2. IsFiniteSet({lock}) /\ Cardinality({lock}) = 1
        BY FS_Singleton
    <2>3. IsFiniteSet(Unanswered(g)) /\ Cardinality(Unanswered(g)) <= Cardinality({lock})
        BY <2>1, <2>2, FS_Subset
    <2>. QED  BY <2>2, <2>3
<1>. QED
    BY <1>1, <1>2, <1>3, PTL DEF Spec

-----------------------------------------------------------------------------
(* The seq_ids, which nobody compares.                                       *)

LEMMA StartedMoves ==
    ASSUME Layer1, [Next]_vars
    PROVE  \/ UNCHANGED <<seq, seqId>> /\ Started' = Started
           \/ \E c \in Calls : StartCall(c)
<1>1. ASSUME ~\E c \in Calls : StartCall(c)
      PROVE  UNCHANGED <<seq, seqId>> /\ \A c \in Calls : pc[c] = "idle" <=> pc'[c] = "idle"
    BY <1>1, ServerLeaves
       DEF Layer1, TypeOK, CallStates, Next, ClientNext, CallStep, CallNotOpen, WriteFrame,
           Flush, FlushFails, ReceiveReply, ReceiveFails, CancelCall, Dial, StoreConn,
           CancelOpen, Close, Ends, vars, callVars, clientVars
<1>. QED
    BY <1>1 DEF Started

LEMMA SmallMod == \A n \in Nat, m \in Nat \ {0} : n < m => n % m = n
OBVIOUS

LEMMA SeqStep ==
    ASSUME FewCalls, Layer1, SeqInv, [Next]_vars
    PROVE  SeqInv'
<1>1. CASE UNCHANGED <<seq, seqId>> /\ Started' = Started
    BY <1>1 DEF SeqInv
<1>2. ASSUME NEW c \in Calls, StartCall(c) PROVE SeqInv'
    <2>1. c \notin Started /\ Started' = Started \cup {c} /\ Started # Calls
        BY <1>2 DEF StartCall, Ends, Started, Layer1, TypeOK
    <2>2. /\ IsFiniteSet(Calls) /\ IsFiniteSet(Started) /\ Cardinality(Started) \in Nat
          /\ Cardinality(Calls) \in Nat /\ Cardinality(Calls) <= SeqSpace
        BY FS_Subset, FS_CardinalityType DEF FewCalls, Started
    <2>3. /\ IsFiniteSet(Started') /\ Cardinality(Started') = Cardinality(Started) + 1
        BY <2>1, <2>2, FS_AddElement
    <2>4. Cardinality(Started') <= Cardinality(Calls)
          /\ (Cardinality(Started') = Cardinality(Calls) => Started' = Calls)
        BY <2>2, FS_Subset DEF Started
    <2>5. seqId = Cardinality(Started) /\ seqId' = (seqId + 1) % SeqSpace
        BY <1>2, <2>1 DEF SeqInv, StartCall
    <2>6. Started' # Calls => seqId' = Cardinality(Started')
        BY <2>2, <2>3, <2>4, <2>5, SmallMod
    <2>7. \A d \in Started' : seq'[d] = IF d = c THEN Cardinality(Started) ELSE seq[d]
        BY <1>2, <2>5 DEF StartCall, Layer1, TypeOK, Started
    <2>8. \A d \in Started : seq[d] \in Nat /\ seq[d] < Cardinality(Started)
        BY DEF SeqInv, Layer1, TypeOK, Started
    <2>9. \A d \in Started' : seq'[d] < Cardinality(Started')
        BY <2>1, <2>2, <2>3, <2>7, <2>8
    <2>10. \A d, e \in Started' : seq'[d] = seq'[e] => d = e
        BY <2>1, <2>2, <2>7, <2>8 DEF SeqInv
    <2>. QED  BY <2>6, <2>9, <2>10 DEF SeqInv
<1>. QED
    BY <1>1, <1>2, StartedMoves

(* A foreign reply carries another seq_id than the call that receives it, as     *)
(* long as the counter does not wrap: a comparison would catch it.            *)
THEOREM StaleHasAnotherSeq ==
    ASSUME FewCalls
    PROVE  Spec => []StaleIsDetectable
<1>1. Init => SeqInv
    <2>1. Init => Started = {}
        BY DEF Init, Started
    <2>. QED  BY <2>1, FS_EmptySet DEF Init, SeqInv
<1>2. Layer5 /\ SeqInv /\ [Next]_vars => SeqInv'
    BY SeqStep DEF Layer5, Layer4, Layer2
<1>3. Layer5 /\ SeqInv => StaleIsDetectable
  <2> SUFFICES ASSUME Layer5, SeqInv, NEW c \in Calls, from[c] \notin {NoCall, c}
               PROVE  seq[from[c]] # seq[c]
      BY DEF StaleIsDetectable
  <2>1. from[c] \in Calls /\ gen[c] # 0 /\ gen[from[c]] = gen[c]
      BY DEF Layer5, Layer4, Layer2, Layer1, TypeOK, MutexInv, ReceivedInv, Received
  <2>2. c \in Started /\ from[c] \in Started
      BY <2>1 DEF Layer5, Layer4, Layer2, Layer1, MutexInv, Started
  <2>. QED  BY <2>2 DEF SeqInv
<1>. QED
    BY <1>1, <1>2, <1>3, Layer5Always, PTL DEF Spec

-----------------------------------------------------------------------------
(* All layers together are an invariant of every behaviour.                   *)
THEOREM InvariantHolds == Spec => []IInv
<1> DEFINE Most == Layer5 /\ Lockstep /\ OwnReplyUnlessPoisoned /\ SerialInv
<1>1. Init => Most
    BY Layer2Init, VerdictInit, Layer5Init, LockstepInit
       DEF Layer5, Layer4, Init, OwnReplyUnlessPoisoned, SerialInv, Unanswered, Conns
<1>2. Most /\ [Next]_vars => Most'
    BY Layer5Step, LockstepStep, OwnReplyStep, SerialStep DEF Layer5, Layer4
<1>3. Init => (FewCalls => SeqInv)
    <2>1. Init => Started = {}
        BY DEF Init, Started
    <2>. QED  BY <2>1, FS_EmptySet DEF Init, SeqInv
<1>4. Layer5 /\ (FewCalls => SeqInv) /\ [Next]_vars => (FewCalls => SeqInv)'
    BY SeqStep DEF Layer5, Layer4, Layer2, FewCalls
<1>5. Most /\ (FewCalls => SeqInv) => IInv
    BY DEF IInv, Layer5, Layer4
<1>. QED
    BY <1>1, <1>2, <1>3, <1>4, <1>5, PTL DEF Spec

-----------------------------------------------------------------------------
(* ThriftRpc implements AtMostOnceCall, under the hypotheses of the run that  *)
(* checks it: every step of the client, of the mutex and of the connections'  *)
(* tasks is a step of the promise or invisible to the caller.                *)

(* What a step of one call does to the status of the promise.                 *)
StatusOf(s) == IF s \in {"idle", "done"} THEN s ELSE "pending"

LEMMA StatusMoves ==
    ASSUME Layer1, NEW c \in Calls, NEW s, pc' = [pc EXCEPT ![c] = s]
    PROVE  /\ statusBar' = [statusBar EXCEPT ![c] = StatusOf(s)]
           /\ StatusOf(s) = StatusOf(pc[c]) => statusBar' = statusBar
BY DEF Layer1, TypeOK, statusBar, StatusOf

LEMMA StatusIs ==
    ASSUME NEW c \in Calls
    PROVE  statusBar[c] = StatusOf(pc[c])
BY DEF statusBar, StatusOf

(* A call that is over ends in the promise too.                              *)
LEMMA EndsThere ==
    ASSUME Layer1, NEW c \in Calls, NEW o, Ends(c, o), UNCHANGED verdict
    PROVE  Promise!Ends(c, o)
BY StatusMoves DEF Ends, Promise!Ends, StatusOf

LEMMA Stutters ==
    ASSUME UNCHANGED <<statusBar, verdict, res>>
    PROVE  UNCHANGED Promise!absVars
BY DEF Promise!absVars

LEMMA ServesThere ==
    ASSUME NEW c \in Calls, NEW s, Judges(c, s), UNCHANGED <<pc, res>>
    PROVE  Promise!Serves(c, s)
BY DEF Judges, Promise!Serves, statusBar

-----------------------------------------------------------------------------
(* The client's steps.                                                       *)
LEMMA StartIsInvoke ==
    ASSUME Layer5, NEW c \in Calls, StartCall(c)
    PROVE  Promise!Invoke(c) \/ Promise!Refuse(c)
<1>1. /\ pc[c] = "idle" /\ gen[c] = 0 /\ verdict[c] = "none"
      /\ statusBar[c] = "idle" /\ UNCHANGED verdict
    BY StatusIs DEF StartCall, StatusOf, Layer5, Layer4, Layer2, Layer1, MutexInv,
                    VerdictInv, serverVars
<1>2. CASE pc' = [pc EXCEPT ![c] = "ready"] /\ res' = res
    BY <1>1, <1>2, StatusMoves
       DEF Promise!Invoke, StatusOf, Layer5, Layer4, Layer2
<1>3. CASE Ends(c, "badargs")
    BY <1>1, <1>3, EndsThere
       DEF Promise!Refuse, Promise!Refusals, Layer5, Layer4, Layer2
<1>. QED
    BY <1>2, <1>3 DEF StartCall

LEMMA NotOpenIsRefuse ==
    ASSUME Layer5, NEW c \in Calls, CallNotOpen(c)
    PROVE  Promise!Refuse(c)
<1>1. /\ pc[c] = "ready" /\ gen[c] = 0 /\ verdict[c] = "none" /\ UNCHANGED verdict
      /\ Ends(c, "notopen")
    BY DEF CallNotOpen, Layer5, Layer4, Layer2, Layer1, MutexInv, VerdictInv, serverVars
<1>2. statusBar[c] = "pending"
    BY <1>1, StatusIs DEF StatusOf
<1>. QED
    BY <1>1, <1>2, EndsThere DEF Promise!Refuse, Promise!Refusals, Layer5, Layer4, Layer2

(* An I/O error or a cancellation leaves the caller in the dark.               *)
LEMMA FailureIsLoseTrack ==
    ASSUME Layer5, NEW c \in Calls, FlushFails(c) \/ ReceiveFails(c) \/ CancelCall(c)
    PROVE  Promise!LoseTrack(c)
<1>1. /\ pc[c] \in {"ready", "sending", "receiving"} /\ UNCHANGED verdict
      /\ Ends(c, "ioerror") \/ Ends(c, "cancelled")
    BY DEF FlushFails, ReceiveFails, CancelCall, serverVars
<1>2. statusBar[c] = "pending"
    BY <1>1, StatusIs DEF StatusOf
<1>. QED
    BY <1>1, <1>2, EndsThere DEF Promise!LoseTrack, Promise!Unknown, Layer5, Layer4, Layer2

LEMMA FlushIsReturn ==
    ASSUME Layer5, NEW c \in Calls, Flush(c)
    PROVE  Promise!Return(c) \/ UNCHANGED Promise!absVars
<1>1. pc[c] = "sending" /\ UNCHANGED verdict
    BY DEF Flush, serverVars
<1>2. statusBar[c] = "pending"
    BY <1>1, StatusIs DEF StatusOf
<1>3. CASE IsOneway(c)
    BY <1>1, <1>2, <1>3, EndsThere DEF Flush, Promise!Return, Layer5, Layer4, Layer2
<1>4. CASE ~IsOneway(c)
    <2>1. pc' = [pc EXCEPT ![c] = "receiving"] /\ UNCHANGED res
        BY <1>4 DEF Flush
    <2>2. UNCHANGED statusBar
        BY <1>1, <2>1, StatusMoves DEF StatusOf, Layer5, Layer4, Layer2
    <2>. QED  BY <1>1, <2>1, <2>2, Stutters
<1>. QED
    BY <1>3, <1>4

(* A reply is the outcome of the call's own execution, which has ended.        *)
LEMMA ReplyIsReturn ==
    ASSUME AsyncHandlers \cap Throws = {}, Layer5, OwnReply',
           NEW c \in Calls, ReceiveReply(c)
    PROVE  Promise!Return(c)
<1> DEFINE g == gen[c]
           r == rep[g][got[g] + 1]
<1>1. pc[c] = "receiving" /\ got[g] < Len(rep[g]) /\ UNCHANGED verdict /\ Ends(c, r.kind)
    BY DEF ReceiveReply, serverVars
<1>2. g \in Conns /\ lock = c /\ ~IsOneway(c)
    BY <1>1, HolderOnConn DEF Layer5, Layer4, Layer2, HolderIsLast
<1>3. got[g] + 1 \in 1..Len(rep[g]) /\ r \in Reply
    BY <1>1, <1>2, NextReply DEF Layer5, Layer4, Layer2
<1>4. r.call = c
    <2>1. from'[c] = r.call /\ r.call \in Calls
        BY <1>3 DEF ReceiveReply, Layer5, Layer4, Layer2, Layer1, TypeOK, Reply
    <2>. QED  BY <2>1 DEF OwnReply
<1>5. Finished(c) /\ r.kind = Answer(c)
    BY <1>2, <1>3, <1>4 DEF Layer5, ReplyInv, Answers
<1>6. verdict[c] = "declared" => MethodOf[c] \notin AsyncHandlers
    BY DEF Layer5, Layer4, VerdictInv
<1>7. Answer(c) = Promise!Seen(verdict[c])
    BY <1>6 DEF Answer, ReplyKind, Promise!Seen
<1>8. statusBar[c] = "pending"
    BY <1>1, StatusIs DEF StatusOf
<1>. QED
    BY <1>1, <1>2, <1>5, <1>7, <1>8, EndsThere
       DEF Promise!Return, Finished, Layer5, Layer4, Layer2

LEMMA ClientKeepsPromise ==
    ASSUME AsyncHandlers \cap Throws = {}, Layer5, OwnReply', ClientNext
    PROVE  Promise!AbsNext \/ UNCHANGED Promise!absVars
<1>1. ASSUME NEW c \in Calls, StartCall(c) \/ CallNotOpen(c) \/ FlushFails(c) \/
                              ReceiveFails(c) \/ CancelCall(c)
      PROVE  Promise!AbsNext
    BY <1>1, StartIsInvoke, NotOpenIsRefuse, FailureIsLoseTrack DEF Promise!AbsNext
<1>2. ASSUME NEW c \in Calls, WriteFrame(c) PROVE UNCHANGED Promise!absVars
    <2>1. pc[c] = "ready" /\ pc' = [pc EXCEPT ![c] = "sending"] /\ UNCHANGED <<res, verdict>>
        BY <1>2 DEF WriteFrame, serverVars
    <2>2. UNCHANGED statusBar
        BY <2>1, StatusMoves DEF StatusOf, Layer5, Layer4, Layer2
    <2>. QED  BY <2>1, <2>2, Stutters
<1>3. ASSUME NEW c \in Calls, Flush(c) \/ ReceiveReply(c)
      PROVE  Promise!AbsNext \/ UNCHANGED Promise!absVars
    BY <1>3, FlushIsReturn, ReplyIsReturn DEF Promise!AbsNext
<1>4. CASE Dial \/ Close \/ \E g \in Conns : StoreConn(g) \/ CancelOpen(g)
    <2>1. UNCHANGED <<pc, res, verdict>>
        BY <1>4 DEF Dial, Close, StoreConn, CancelOpen, callVars, serverVars
    <2>. QED  BY <2>1, Stutters DEF statusBar
<1>. QED
    BY <1>1, <1>2, <1>3, <1>4 DEF ClientNext, CallStep

-----------------------------------------------------------------------------
(* The server's steps: it judges a request that no verdict was given on, or     *)
(* ends the handler it started.  The request was written, so the caller was     *)
(* not refused.                                                              *)
LEMMA ServerKeepsPromise ==
    ASSUME Layer5, ServerNext
    PROVE  Promise!AbsNext \/ UNCHANGED Promise!absVars
<1>1. PICK g \in Conns : TaskStep(g) \/ Shutdown(g)
    BY DEF ServerNext
<1>2. UNCHANGED <<pc, res>>
    BY ServerLeaves DEF callVars
<1>3. CASE Rests(g) \/ Drops(g)
    <2>1. UNCHANGED <<statusBar, verdict, res>>
        BY <1>2, <1>3 DEF Rests, Drops, statusBar
    <2>. QED  BY <2>1, Stutters
<1>4. CASE Rejects(g) \/ Starts(g)
    <2>1. PICK s \in {"started", "rejected"} : Judges(Requested(g), s)
        BY <1>4 DEF Rejects, Starts
    <2>2. TakesRequest(g)
        BY <1>4 DEF Rejects, Starts
    <2>3. /\ taken[g] + 1 \in OnWire(g) /\ Requested(g) = sent[g][taken[g] + 1]
          /\ Requested(g) \in Calls
        BY <2>2, NextRequest DEF TakesRequest, Requested, Layer5, Layer4, Layer2
    <2>4. verdict[Requested(g)] = "none"
        BY <2>3, WireTypes DEF Layer5, Layer4, VerdictInv
    <2>5. gen[Requested(g)] = g /\ g # 0
        BY <2>3 DEF Layer5, Layer4, Layer2, SentOnce, Conns
    <2>6. statusBar[Requested(g)] # "idle"
        BY <2>3, <2>5, StatusIs DEF StatusOf, Layer5, Layer4, Layer2, Layer1, MutexInv
    <2>7. res[Requested(g)] \notin Promise!Refusals
        BY <2>3, <2>5 DEF Promise!Refusals, Layer5, ReceivedInv
    <2>8. Promise!Serves(Requested(g), s)
        BY <1>2, <2>1, <2>3, ServesThere
    <2>. QED
        BY <2>3, <2>4, <2>6, <2>7, <2>8 DEF Promise!Serve, Promise!AbsNext
<1>5. CASE Finishes(g)
    <2>1. /\ taken[g] \in OnWire(g) /\ Cur(g) = sent[g][taken[g]] /\ Cur(g) \in Calls
          /\ srv[g] = "handling"
        BY <1>5, CurrentRequest DEF Finishes, Cur, Layer5, Layer4, Layer2
    <2>2. verdict[Cur(g)] = "started"
        BY <2>1 DEF Layer5, Layer4, VerdictInv
    <2>3. PICK o \in {"value", "declared", "error"} : Judges(Cur(g), o)
        BY <1>5 DEF Finishes, HandlerOutcomes
    <2>4. Promise!Serves(Cur(g), o)
        BY <1>2, <2>1, <2>3, ServesThere
    <2>. QED
        BY <2>1, <2>2, <2>4 DEF Promise!Serve, Promise!AbsNext
<1>. QED
    BY <1>1, <1>3, <1>4, <1>5, TaskKinds

(* The client and the server keep the promise of AtMostOnceCall: each call is   *)
(* served at most once, a reply is the outcome of the call's own execution,     *)
(* and a call that was refused is never served.  Calls cannot be cancelled,     *)
(* each oneway method has a handler, and the handlers of methods that declare   *)
(* an exception are no coroutines.                                           *)
THEOREM ImplementsPromise ==
    ASSUME NothingStray, AsyncHandlers \cap Throws = {}
    PROVE  Spec => ImplementsAtMostOnce
<1>1. Init => Promise!AbsInit
    BY DEF Init, Promise!AbsInit, statusBar
<1>2. Layer5 /\ OwnReply' /\ [Next]_vars => [Promise!AbsNext]_(Promise!absVars)
    <2>1. UNCHANGED vars => UNCHANGED Promise!absVars
        BY DEF vars, callVars, serverVars, Promise!absVars, statusBar
    <2>. QED
        BY <2>1, ClientKeepsPromise, ServerKeepsPromise DEF Next
<1>3. Spec => []OwnReply
    BY SyncRepliesMatch
<1>. QED
    BY <1>1, <1>2, <1>3, Layer5Always, PTL DEF Spec, ImplementsAtMostOnce, Promise!AbsSpec
=============================================================================
