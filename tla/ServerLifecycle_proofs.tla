----------------------- MODULE ServerLifecycle_proofs -----------------------
(***************************************************************************)
(* What holds of the lifecycle for any number of invocations and any number  *)
(* of connections.                                                          *)
(***************************************************************************)
EXTENDS ServerLifecycle, FiniteSetTheorems, TLAPS

USE LifecycleAssumption DEF LifecycleAssumption

(* Every variable keeps its type.                                           *)
THEOREM LifecycleTypes == Spec => []TypeOK
<1> USE DEF TypeOK
<1>1. Init => TypeOK
    <2> SUFFICES ASSUME Init PROVE TypeOK
        OBVIOUS
    <2>1. "idle" \in CallerStates /\ "none" \in LoopStates
        BY DEF CallerStates, LoopStates
    <2>2. conns \in 0..MaxConns
        BY DEF Init
    <2>. QED  BY <2>1, <2>2 DEF Init
<1>2. TypeOK /\ [Next]_vars => TypeOK'
    <2> SUFFICES ASSUME TypeOK, [Next]_vars PROVE TypeOK'
        OBVIOUS
    <2> USE DEF CallerGoes, LoopGoes, CallerStates, LoopStates
    <2>1. ASSUME NEW s \in Serves, Serve(s) \/ Polls(s) PROVE TypeOK'
        BY <2>1 DEF Serve, Polls, SeesStarted, SeesStopped
    <2>2. ASSUME NEW s \in Serves, Bind(s) \/ BindFails(s) PROVE TypeOK'
        BY <2>2 DEF Bind, BindFails
    <2>3. ASSUME NEW s \in Serves, SetRunning(s) \/ ClearFlag(s) PROVE TypeOK'
        BY <2>3 DEF SetRunning, ClearFlag
    <2>4. ASSUME NEW s \in Serves, Select(s) \/ Leave(s) PROVE TypeOK'
        <3>1. woken' = [woken EXCEPT ![s] = FALSE]
            BY <2>4 DEF Select, Leave
        <3>2. loop' \in [Serves -> LoopStates]
            BY <2>4 DEF Select, Leave
        <3>3. UNCHANGED <<running, caller, backlog, stopping, asked, conns>>
            BY <2>4 DEF Select, Leave
        <3>. QED  BY <3>1, <3>2, <3>3
    <2>5. ASSUME NEW s \in Serves, DropListener(s) PROVE TypeOK'
        BY <2>5 DEF DropListener
    <2>6. ASSUME NEW s \in Serves, Accept(s) PROVE TypeOK'
        <3>1. backlog[s] - 1 \in Nat
            BY <2>6 DEF Accept
        <3>. QED  BY <2>6, <3>1 DEF Accept
    <2>7. ASSUME NEW s \in Serves, Connect(s) PROVE TypeOK'
        BY <2>7 DEF Connect
    <2>8. CASE Stop
        BY <2>8 DEF Stop, StopClears, StopNotifies
    <2>9. CASE CtrlC
        BY <2>9 DEF CtrlC
    <2>10. CASE UNCHANGED vars
        BY <2>10 DEF vars
    <2>. QED
        BY <2>1, <2>2, <2>3, <2>4, <2>5, <2>6, <2>7, <2>8, <2>9, <2>10 DEF Next, LoopStep
<1>. QED
    BY <1>1, <1>2, PTL DEF Spec

-----------------------------------------------------------------------------
(* A server that is gone is not reported as running, whatever was started,   *)
(* stopped and interrupted, on whatever ports.                              *)
THEOREM NoGhost == Spec => []NoGhostServer
<1>1. Init => NoGhostServer
    BY DEF Init, NoGhostServer
<1>2. TypeOK /\ NoGhostServer /\ [Next]_vars => NoGhostServer'
    <2> SUFFICES ASSUME TypeOK, NoGhostServer, [Next]_vars, running'
                 PROVE  \E s \in Serves : loop'[s] \in {"between", "selecting", "leaving"}
        BY DEF NoGhostServer
    <2> USE DEF TypeOK, LoopGoes
    <2>1. CASE UNCHANGED <<loop, running>>
        BY <2>1 DEF NoGhostServer
    <2>2. CASE StopClears
        BY <2>2 DEF StopClears
    <2>3. ASSUME NEW s \in Serves, LoopStep(s) PROVE
              \E t \in Serves : loop'[t] \in {"between", "selecting", "leaving"}
        <3>1. CASE SetRunning(s)
            BY <3>1 DEF SetRunning
        <3>2. CASE Select(s) \/ Accept(s) \/ Leave(s)
            BY <3>2 DEF Select, Accept, Leave
        <3>3. CASE ClearFlag(s)
            BY <3>3 DEF ClearFlag
        <3>4. CASE Bind(s) \/ BindFails(s) \/ DropListener(s)
            <4>1. running
                BY <3>4 DEF Bind, BindFails, DropListener
            <4>2. PICK t \in Serves : loop[t] \in {"between", "selecting", "leaving"}
                BY <4>1 DEF NoGhostServer
            <4>3. loop'[t] = loop[t]
                BY <3>4, <4>2 DEF Bind, BindFails, DropListener
            <4>. QED  BY <4>2, <4>3
        <3>. QED  BY <2>3, <3>1, <3>2, <3>3, <3>4 DEF LoopStep
    <2>4. ASSUME NEW s \in Serves, Serve(s) PROVE
              \E t \in Serves : loop'[t] \in {"between", "selecting", "leaving"}
        BY <2>1, <2>4 DEF Serve
    <2>5. CASE \/ \E s \in Serves : Polls(s) \/ Connect(s)
              \/ StopNotifies \/ CtrlC \/ UNCHANGED vars
        BY <2>1, <2>5 DEF Polls, SeesStarted, SeesStopped, Connect, StopNotifies, CtrlC, vars
    <2>. QED  BY <2>2, <2>3, <2>4, <2>5 DEF Next, Stop
<1>. QED
    BY <1>1, <1>2, LifecycleTypes, PTL DEF Spec

-----------------------------------------------------------------------------
(* The usual deployment: one server object serves on one port.              *)
OnePort == \A s, t \in Serves : PortOf[s] = PortOf[t]

OneListener ==
    \A s, t \in Serves : loop[s] \in Listening /\ loop[t] \in Listening => s = t

PortInv == OneListener /\ RunningWhileAccepting

LEMMA PortInvStep == OnePort /\ TypeOK /\ PortInv /\ [Next]_vars => PortInv'
<1> SUFFICES ASSUME OnePort, TypeOK, PortInv, [Next]_vars PROVE PortInv'
    OBVIOUS
<1> USE DEF TypeOK, LoopGoes, PortInv, OneListener, RunningWhileAccepting,
            Listening, Accepting, Gone
<1>1. ASSUME NEW s \in Serves, Bind(s) PROVE PortInv'
    BY <1>1 DEF Bind, OnePort
<1>2. ASSUME NEW s \in Serves, BindFails(s) \/ SetRunning(s) \/ Select(s) \/ Accept(s)
                              \/ Leave(s) \/ DropListener(s)
      PROVE  PortInv'
    BY <1>2 DEF BindFails, SetRunning, Select, Accept, Leave, DropListener
<1>3. ASSUME NEW s \in Serves, ClearFlag(s) PROVE PortInv'
    BY <1>3 DEF ClearFlag
<1>4. ASSUME NEW s \in Serves, Serve(s) PROVE PortInv'
    BY <1>4 DEF Serve, CallerGoes
<1>5. CASE StopClears
    BY <1>5 DEF StopClears, LoopStates
<1>6. CASE UNCHANGED <<running, loop, asked>>
    BY <1>6
<1>. QED
    BY <1>1, <1>2, <1>3, <1>4, <1>5, <1>6
       DEF Next, LoopStep, Polls, SeesStarted, SeesStopped, Connect, Stop, StopNotifies,
           CtrlC, vars

(* On one port the flag tells the truth: a loop that accepts connections and *)
(* was not told to stop is reported as running.                             *)
THEOREM RunningIsTrue == ASSUME OnePort PROVE Spec => []RunningWhileAccepting
<1>1. Init => PortInv
    BY DEF Init, PortInv, OneListener, RunningWhileAccepting, Listening, Accepting
<1>2. TypeOK /\ PortInv /\ [Next]_vars => PortInv'
    BY PortInvStep
<1>3. PortInv => RunningWhileAccepting
    BY DEF PortInv
<1>. QED
    BY <1>1, <1>2, <1>3, LifecycleTypes, PTL DEF Spec

(* On one port no two loops of a server accept connections, because the port *)
(* and not the flag keeps them apart.                                       *)
THEOREM OneServerOnOnePort == ASSUME OnePort PROVE Spec => []OneServer
<1>1. Init => PortInv
    BY DEF Init, PortInv, OneListener, RunningWhileAccepting, Listening, Accepting
<1>2. TypeOK /\ PortInv /\ [Next]_vars => PortInv'
    BY PortInvStep
<1>3. PortInv => OneServer
    <2> SUFFICES ASSUME PortInv PROVE OneServer
        OBVIOUS
    <2> DEFINE A == {s \in Serves : loop[s] \in Accepting}
    <2>1. \A s, t \in A : s = t
        BY DEF PortInv, OneListener, Listening, Accepting
    <2>2. CASE A = {}
        BY <2>2, FS_EmptySet DEF OneServer
    <2>3. CASE A # {}
        <3>1. PICK s : A = {s}
            BY <2>1, <2>3
        <3>. QED  BY <3>1, FS_Singleton DEF OneServer
    <2>. QED  BY <2>2, <2>3
<1>. QED
    BY <1>1, <1>2, <1>3, LifecycleTypes, PTL DEF Spec
=============================================================================
