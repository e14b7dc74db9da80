---------------------------- MODULE VzNetProofs ----------------------------
(***************************************************************************)
(* Theorems about VzNet, for any set of ports, clients and options.  The   *)
(* network adds steps beside those of the engine and never disturbs it, so *)
(* every theorem of VzEngineProofs holds of the composed system.           *)
(***************************************************************************)
EXTENDS VzNet, VzEngineProofs

Conn == [at : {"none", "queue", "dial", "pipe"}, to : Forward \cup {"none"},
         request : BOOLEAN, answer : BOOLEAN,
         send : {"open", "half", "gone"}, guestOpen : BOOLEAN]

-----------------------------------------------------------------------------
\* Every step of the composed system is a step of the engine or leaves it alone.
LEMMA NetStepIsEngineStep == [NetNext]_allVars => [Next]_vars
<1> SUFFICES ASSUME [NetNext]_allVars PROVE [Next]_vars
  OBVIOUS
<1>1. CASE Engine(Launch) \/ Engine(Launcher) \/ Engine(MachineEnds)
           \/ Engine(Signal) \/ Engine(Crash)
  BY <1>1 DEF Engine, Next
<1>2. CASE Manager
  BY <1>2 DEF Manager, AddressFound, AddressMissed, Readiness, Listen, AcceptError,
              CloseListener, Manage
<1>3. CASE \E c \in Client : Pipe(c) \/ CopyUp(c) \/ Peers(c)
  BY <1>3 DEF Pipe, Accept, Dial, CopyDown, PipeEnds, CopyUp, Peers, Ask, Close,
              Answer, Hangup, Connect, OnConn
<1>4. CASE UNCHANGED allVars
  BY <1>4 DEF allVars
<1> QED
  BY <1>1, <1>2, <1>3, <1>4 DEF NetNext

\* The composition of VzNet with its forwards implements the engine alone: the
\* disks, the machine and the launcher behave as VzEngine says (manageNetwork is
\* started with go and shares nothing with Run's loop).
THEOREM EngineUndisturbed == NetSpec => Spec
<1>1. NetInit => Init
  BY DEF NetInit
<1> QED
  BY <1>1, NetStepIsEngineStep, PTL DEF NetSpec, Spec

-----------------------------------------------------------------------------
\* A connection's record after a step of pipe or of a peer has its type.
LEMMA ConnStep ==
    ASSUME NetTypeOK, NEW c \in Client, NEW r \in Conn, OnConn(c, r),
           r.at # "none" => r.to \in Forward,
           r.at = "queue" => fwd[r.to] \in Open
    PROVE  NetTypeOK'
<1>1. conn' \in [Client -> Conn]
  BY DEF OnConn, NetTypeOK, Conn
<1>2. \A d \in Client : conn'[d] = IF d = c THEN r ELSE conn[d]
  BY DEF OnConn, NetTypeOK
<1> QED
  BY <1>1, <1>2 DEF OnConn, NetTypeOK, Conn, vars

LEMMA NoConnIsConn == NoConn \in Conn /\ NoConn.at = "none"
  BY DEF NoConn, Conn

\* Every action of the composed system keeps the network's types and its place in
\* the process.
LEMMA NetStepInv == IInv /\ IInv' /\ NetTypeOK /\ [NetNext]_allVars => NetTypeOK'
<1> SUFFICES ASSUME IInv, IInv', NetTypeOK, [NetNext]_allVars PROVE NetTypeOK'
  OBVIOUS
<1>0. conn \in [Client -> Conn]
  BY DEF NetTypeOK, Conn
<1>2. CASE \/ Engine(Launch) \/ Engine(Launcher) \/ Engine(MachineEnds)
           \/ Engine(Signal) \/ Engine(Crash)
  <2>1. CASE pc = "start" /\ pc' = "run"
    <3>1. net' = "address" /\ UNCHANGED <<fwd, conn>>
      BY <1>2, <2>1 DEF Engine
    <3>2. net = "off"
      BY <2>1 DEF NetTypeOK, Attending, Leaving
    <3> QED
      BY <2>1, <3>1, <3>2 DEF NetTypeOK, Attending, Conn
  <2>2. CASE pc # "off" /\ pc' = "off"
    <3>1. /\ net' = "off"
          /\ fwd' = [f \in Forward |-> "idle"]
          /\ conn' = [c \in Client |-> NoConn]
      BY <1>2, <2>2 DEF Engine
    <3>2. conn' \in [Client -> Conn]
      BY <3>1, NoConnIsConn
    <3>3. \A c \in Client : conn'[c].at = "none"
      BY <3>1, NoConnIsConn
    <3> QED
      BY <3>1, <3>2, <3>3 DEF NetTypeOK, Conn
  <2>3. CASE ~(pc = "start" /\ pc' = "run") /\ ~(pc # "off" /\ pc' = "off")
    <3>1. UNCHANGED netVars
      BY <1>2, <2>3 DEF Engine
    <3>2. net # "off" => pc' \in Attending \cup Leaving
      <4> SUFFICES ASSUME net # "off" PROVE pc' \in Attending \cup Leaving
        OBVIOUS
      <4>1. pc \in Attending \cup Leaving
        BY DEF NetTypeOK
      <4>2. Launch \/ Launcher \/ MachineEnds \/ Signal \/ Crash
        BY <1>2 DEF Engine
      <4> QED
        BY <4>1, <4>2, <2>3
        DEF Launch, Launcher, Prepare, Reset, Seed, MakeLogs, EnsureOverlay, Clonefile,
            CreateDisk, CopyPart, CopyEnds, Configure, Start, Run, Shutdown,
            RequestStop, AwaitStop, ForceStop, DeferredRemove, Release, MachineEnds,
            Signal, Crash, Step, Attending, Leaving
    <3> QED
      BY <3>1, <3>2 DEF NetTypeOK, netVars
  <2> QED
    BY <2>1, <2>2, <2>3
<1>3. CASE AddressFound \/ AddressMissed \/ Readiness
  BY <1>3 DEF AddressFound, AddressMissed, Readiness, Manage, vars, NetTypeOK, Open
<1>4. ASSUME NEW f \in Forward, Listen(f) \/ AcceptError(f) PROVE NetTypeOK'
  BY <1>4 DEF Listen, AcceptError, Manage, vars, NetTypeOK, Open
<1>5. ASSUME NEW f \in Forward, CloseListener(f) PROVE NetTypeOK'
  <2>1. conn' \in [Client -> Conn]
    BY <1>0, <1>5, NoConnIsConn DEF CloseListener
  <2>2. \A c \in Client :
           \/ conn'[c] = NoConn
           \/ conn'[c] = conn[c] /\ ~(conn[c].at = "queue" /\ conn[c].to = f)
    BY <1>5 DEF CloseListener
  <2>3. fwd' = [fwd EXCEPT ![f] = "closed"] /\ fwd[f] \in Open /\ UNCHANGED <<vars, net>>
    BY <1>5 DEF CloseListener
  <2>4. \A c \in Client : /\ conn'[c].at # "none" => conn'[c].to \in Forward
                          /\ conn'[c].at = "queue" => fwd'[conn'[c].to] \in Open
    BY <2>2, <2>3, NoConnIsConn DEF NetTypeOK
  <2> QED
    BY <2>1, <2>3, <2>4 DEF NetTypeOK, Conn, vars, Open
<1>6. ASSUME NEW c \in Client, Pipe(c) \/ CopyUp(c) \/ Peers(c) PROVE NetTypeOK'
  <2>1. CASE OnConn(c, NoConn)
    BY <2>1, NoConnIsConn, ConnStep
  <2>2. CASE \E f \in Forward : Connect(c, f)
    <3>1. PICK f \in Forward : Connect(c, f)
      BY <2>2
    <3> DEFINE r == [NoConn EXCEPT !.at = "queue", !.to = f]
    <3>2. r \in Conn /\ r.at = "queue" /\ r.to = f
      BY DEF NoConn, Conn
    <3>3. OnConn(c, r) /\ fwd[f] \in Open
      BY <3>1 DEF Connect
    <3> HIDE DEF r
    <3> QED
      BY <3>2, <3>3, ConnStep
  <2>3. ASSUME NEW r \in Conn, OnConn(c, r), r.to = conn[c].to, conn[c].at # "none",
               r.at \in {"dial", "pipe"}
        PROVE  NetTypeOK'
    <3>1. r.to \in Forward
      BY <2>3 DEF NetTypeOK
    <3> QED
      BY <2>3, <3>1, ConnStep
  <2>4. conn[c] \in Conn
    BY <1>0
  <2>5. CASE Accept(c)
    <3> DEFINE r == [conn[c] EXCEPT !.at = "dial"]
    <3>1. r \in Conn /\ r.to = conn[c].to /\ r.at = "dial"
      BY <2>4 DEF Conn
    <3>2. OnConn(c, r) /\ conn[c].at # "none"
      BY <2>5 DEF Accept
    <3> HIDE DEF r
    <3> QED
      BY <2>3, <3>1, <3>2
  <2>6. CASE Dial(c)
    <3> DEFINE r == [conn[c] EXCEPT !.at = "pipe", !.guestOpen = TRUE]
    <3>1. r \in Conn /\ r.to = conn[c].to /\ r.at = "pipe"
      BY <2>4 DEF Conn
    <3>2. OnConn(c, r) \/ OnConn(c, NoConn)
      BY <2>6 DEF Dial
    <3>3. conn[c].at # "none"
      BY <2>6 DEF Dial
    <3> HIDE DEF r
    <3> QED
      BY <2>1, <2>3, <3>1, <3>2, <3>3
  <2>7. CASE CopyDown(c)
    <3> DEFINE r == [conn[c] EXCEPT !.answer = FALSE]
    <3>1. r \in Conn /\ r.to = conn[c].to /\ r.at = conn[c].at
      BY <2>4 DEF Conn
    <3>2. conn[c].at = "pipe" /\ (OnConn(c, r) \/ OnConn(c, NoConn))
      BY <2>7 DEF CopyDown
    <3> HIDE DEF r
    <3> QED
      BY <2>1, <2>3, <3>1, <3>2
  <2>8. CASE PipeEnds(c)
    BY <2>1, <2>8 DEF PipeEnds
  <2>9. CASE CopyUp(c) \/ Ask(c)
    <3> DEFINE r(b) == [conn[c] EXCEPT !.request = b]
    <3>1. \A b \in BOOLEAN : r(b) \in Conn /\ r(b).to = conn[c].to /\ r(b).at = conn[c].at
      BY <2>4 DEF Conn
    <3>2. conn[c].at = "pipe" /\ \E b \in BOOLEAN : OnConn(c, r(b))
      BY <2>9 DEF CopyUp, Ask
    <3> HIDE DEF r
    <3> QED
      BY <2>3, <3>1, <3>2
  <2>10. CASE Close(c)
    <3> DEFINE r(w) == [conn[c] EXCEPT !.send = w]
    <3>1. \A w \in {"half", "gone"} :
             r(w) \in Conn /\ r(w).to = conn[c].to /\ r(w).at = conn[c].at
      BY <2>4 DEF Conn
    <3>2. conn[c].at = "pipe" /\ \E w \in {"half", "gone"} : OnConn(c, r(w))
      BY <2>10 DEF Close
    <3> HIDE DEF r
    <3> QED
      BY <2>3, <3>1, <3>2
  <2>11. CASE Answer(c)
    <3> DEFINE r == [conn[c] EXCEPT !.answer = TRUE]
    <3>1. r \in Conn /\ r.to = conn[c].to /\ r.at = conn[c].at
      BY <2>4 DEF Conn
    <3>2. conn[c].at = "pipe" /\ OnConn(c, r)
      BY <2>11 DEF Answer
    <3> HIDE DEF r
    <3> QED
      BY <2>3, <3>1, <3>2
  <2>12. CASE Hangup(c)
    <3> DEFINE r(b) == [conn[c] EXCEPT !.guestOpen = FALSE, !.answer = b]
    <3>1. \A b \in BOOLEAN : r(b) \in Conn /\ r(b).to = conn[c].to /\ r(b).at = conn[c].at
      BY <2>4 DEF Conn
    <3>2. \A lost \in BOOLEAN : (conn[c].answer /\ ~lost) \in BOOLEAN
      BY Zenon
    <3>3. conn[c].at = "pipe" /\ \E b \in BOOLEAN : OnConn(c, r(b))
      BY <2>12, <3>2 DEF Hangup
    <3> HIDE DEF r
    <3> QED
      BY <2>3, <3>1, <3>3
  <2> QED
    BY <1>6, <2>2, <2>5, <2>6, <2>7, <2>8, <2>9, <2>10, <2>11, <2>12
    DEF Pipe, Peers
<1>7. CASE UNCHANGED allVars
  BY <1>7 DEF allVars, netVars, vars, NetTypeOK
<1> QED
  BY <1>2, <1>3, <1>4, <1>5, <1>6, <1>7 DEF NetNext, Manager

\* Types of the network; it lives only in a process whose machine was started, the
\* forwards wait for the address, and a closed listener has no backlog.
THEOREM NetTypeCorrect == NetSpec => []NetTypeOK
<1>1. NetInit => NetTypeOK
  <2> SUFFICES ASSUME NetInit PROVE NetTypeOK
    OBVIOUS
  <2>1. conn \in [Client -> Conn] /\ \A c \in Client : conn[c].at = "none"
    BY NoConnIsConn DEF NetInit
  <2> QED
    BY <2>1 DEF NetInit, NetTypeOK, Conn
<1>2. NetSpec => []IInv
  BY EngineUndisturbed, InvariantHolds, PTL
<1>3. NetTypeOK /\ IInv /\ IInv' /\ [NetNext]_allVars => NetTypeOK'
  BY NetStepInv
<1> QED
  BY <1>1, <1>2, <1>3, PTL DEF NetSpec

-----------------------------------------------------------------------------
\* pipe never ends the connection of a client that is still there before the guest
\* ended its side and everything it had sent was written, for any number of
\* clients and ports: the foreground copy is the one towards the client.
THEOREM AnswersAreWhole == NetSpec => WholeAnswer
<1> DEFINE Whole(c) ==
       conn[c].at = "pipe" /\ conn'[c].at # "pipe" /\ pc' # "off" /\ conn[c].send # "gone"
       => ~conn[c].guestOpen /\ ~conn[c].answer
<1>1. NetTypeOK /\ [NetNext]_allVars => \A c \in Client : Whole(c)
  <2> SUFFICES ASSUME NetTypeOK, [NetNext]_allVars, NEW c \in Client PROVE Whole(c)
    OBVIOUS
  <2>1. CASE conn'[c] = conn[c]
    BY <2>1
  <2>2. CASE pc' = "off"
    BY <2>2
  <2>3. CASE \E f \in Forward : CloseListener(f)
    BY <2>3 DEF CloseListener
  <2>4. CASE \E d \in Client : Pipe(d) \/ CopyUp(d) \/ Peers(d)
    <3>1. PICK d \in Client : Pipe(d) \/ CopyUp(d) \/ Peers(d)
      BY <2>4
    <3>2. CASE d # c
      <4>1. ASSUME NEW r, OnConn(d, r) PROVE conn'[c] = conn[c]
        BY <3>2, <4>1 DEF OnConn, NetTypeOK
      <4> QED
        BY <3>1, <2>1, <4>1
        DEF Pipe, Accept, Dial, CopyDown, PipeEnds, CopyUp, Peers, Ask, Close, Answer,
            Hangup, Connect
    <3>3. CASE d = c
      <4>1. ASSUME NEW r, OnConn(c, r) PROVE conn'[c] = r
        BY <4>1 DEF OnConn, NetTypeOK
      <4>2. conn[c] \in Conn
        BY DEF NetTypeOK, Conn
      <4>3. CASE Accept(c) \/ Dial(c) \/ \E f \in Forward : Connect(c, f)
        BY <4>3 DEF Accept, Dial, Connect
      <4>4. CASE CopyDown(c)
        BY <4>1, <4>2, <4>4 DEF CopyDown, Conn
      <4>5. CASE PipeEnds(c)
        BY <4>5 DEF PipeEnds
      <4>6. CASE CopyUp(c) \/ Ask(c) \/ Answer(c)
        BY <4>1, <4>2, <4>6 DEF CopyUp, Ask, Answer, Conn
      <4>7. CASE Close(c)
        BY <4>1, <4>2, <4>7 DEF Close, Conn
      <4>8. CASE Hangup(c)
        BY <4>1, <4>2, <4>8 DEF Hangup, Conn
      <4> QED
        BY <3>1, <3>3, <4>3, <4>4, <4>5, <4>6, <4>7, <4>8 DEF Pipe, Peers
    <3> QED
      BY <3>2, <3>3
  <2>5. CASE \/ Engine(Launch) \/ Engine(Launcher) \/ Engine(MachineEnds)
             \/ Engine(Signal) \/ Engine(Crash)
    BY <2>1, <2>2, <2>5 DEF Engine, netVars
  <2>6. CASE \/ AddressFound \/ AddressMissed \/ Readiness
             \/ \E f \in Forward : Listen(f) \/ AcceptError(f)
    BY <2>1, <2>6 DEF AddressFound, AddressMissed, Readiness, Listen, AcceptError, Manage
  <2> QED
    BY <2>1, <2>3, <2>4, <2>5, <2>6 DEF NetNext, Manager, allVars, netVars
<1> QED
  BY <1>1, NetTypeCorrect, PTL DEF NetSpec, WholeAnswer
=============================================================================
