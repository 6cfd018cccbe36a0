-------------------------- MODULE InProcess_proofs --------------------------
(***************************************************************************)
(* The process of client and server is ThriftRpc as far as it lets it be:    *)
(* the GIL takes steps away and adds none, so what is proved of the parts     *)
(* holds of the process.                                                    *)
(***************************************************************************)
EXTENDS InProcess, RpcHistory_proofs

(* Each step of the process is one of its parts', or leaves them alone.  The  *)
(* stream that open() stores is one of the connections, which is what the     *)
(* types say.                                                               *)
LEMMA StepIsRpc == TypeOK /\ [ProcessNext]_processVars => [Next]_vars
<1> SUFFICES ASSUME TypeOK, [ProcessNext]_processVars
             PROVE  [Next]_vars
    OBVIOUS
<1>1. ASSUME NEW c \in Calls, EnterCall(c) PROVE [Next]_vars
    BY <1>1 DEF EnterCall, Attached, Next, ClientNext
<1>2. ASSUME NEW c \in Calls, Exchange(c) PROVE [Next]_vars
    BY <1>2 DEF Exchange, Detached, Next, ClientNext
<1>3. ASSUME NEW c \in Calls, ReturnCall(c) PROVE [Next]_vars
    BY <1>3 DEF ReturnCall
<1>4. CASE Connect
    BY <1>4 DEF Connect, Detached, Next, ClientNext
<1>5. CASE WaitForMutex
    BY <1>5 DEF WaitForMutex
<1>6. CASE GetMutex
  <2>1. ASSUME NEW g \in dialled, StoreConn(g) PROVE [Next]_vars
    <3>1. g \in Conns
        BY RpcAssumption DEF RpcAssumption, TypeOK, Conns
    <3>. QED
        BY <2>1, <3>1 DEF Next, ClientNext
  <2>2. CASE Close
    BY <2>2 DEF Next, ClientNext
  <2>. QED
    BY <1>6, <2>1, <2>2 DEF GetMutex
<1>7. ASSUME NEW g \in Conns, RustStep(g) PROVE [Next]_vars
    BY <1>7 DEF RustStep, Detached, Next, ServerNext, TaskStep
<1>8. ASSUME NEW g \in Conns, HandlerStep(g) PROVE [Next]_vars
    BY <1>8 DEF HandlerStep, Attached, Next, ServerNext, TaskStep
<1>9. ASSUME NEW g \in Conns, ServerGone(g) PROVE [Next]_vars
    BY <1>9 DEF ServerGone, Detached, Next, ServerNext
<1>10. CASE UNCHANGED processVars
    BY <1>10 DEF processVars
<1>. QED
    BY <1>1, <1>2, <1>3, <1>4, <1>5, <1>6, <1>7, <1>8, <1>9, <1>10 DEF ProcessNext

(* A client and its server in one process are a client and a server: whatever *)
(* ThriftRpc promises, such a process keeps.                                  *)
THEOREM ProcessIsRpc == ProcessSpec => Spec
<1>1. ProcessInit => Init
    BY DEF ProcessInit
<1>2. Layer1 /\ [ProcessNext]_processVars => [Next]_vars
    BY StepIsRpc DEF Layer1
<1>3. Layer1 /\ [ProcessNext]_processVars => Layer1'
    BY <1>2, Layer1Step
<1>4. ProcessSpec => []Layer1
    BY <1>1, <1>3, Layer1Init, PTL DEF ProcessSpec
<1>. QED
    BY <1>1, <1>2, <1>4, PTL DEF ProcessSpec, Spec

(* Its threads get the replies to their own calls, on every connection that no *)
(* cancelled call and no oneway call without a handler was written to.         *)
THEOREM ProcessRepliesMatch == ProcessSpec => []OwnReplyUnlessPoisoned
BY ProcessIsRpc, RepliesMatch

(* Such a process keeps the promise of AtMostOnceCall, whoever waits for the    *)
(* GIL meanwhile, under the hypotheses under which ThriftRpc does.             *)
THEOREM ProcessKeepsPromise ==
    ASSUME NothingStray, AsyncHandlers \cap Throws = {}
    PROVE  ProcessSpec => ImplementsAtMostOnce
BY ProcessIsRpc, ImplementsPromise
=============================================================================
