------------------------------- MODULE VzNet -------------------------------
(***************************************************************************)
(* The network of a vz machine, composed with VzEngine: manageNetwork, the *)
(* per-port listeners and the pipes of internal/vz/forward_darwin.go.      *)
(*                                                                         *)
(* All of it runs in goroutines of the dvm process, beside Run's loop: it  *)
(* begins when the machine has started, its context is cancelled when Run  *)
(* returns, and whatever is left ends with the process.  Programs on the   *)
(* host and servers in the guest are free: they may send, stop sending,    *)
(* close, reset or stay silent at any time.  A stream is one message each  *)
(* way, and neither peer lets the proxy's writes wait for it.              *)
(***************************************************************************)
EXTENDS VzEngine

CONSTANTS Forward,  \* the forwarded tcp ports; udp ones are skipped
          Client,   \* programs on the host, each with one connection at a time
          Busy      \* bound: the options of the launches clients connect to, which
                    \* the network's code never looks at

VARIABLES
    net,    \* the place of manageNetwork; "off": not started
    fwd,    \* the listener of a port; "deaf": open, but no longer accepting
    conn    \* the connection of a client and of its pipe

netVars == <<net, fwd, conn>>
allVars == <<vars, netVars>>

NoConn == [at        |-> "none",  \* "queue": not accepted yet; "dial", "pipe": in pipe
           to        |-> "none",  \* the port
           request   |-> FALSE,   \* the client sent something pipe has not passed on
           answer    |-> FALSE,   \* so did the guest
           send      |-> "open",  \* the client's side: also "half" closed, or "gone"
           guestOpen |-> FALSE]   \* the guest has not ended its side of the pipe

Waiting == {"queue", "dial"}
Open    == {"listening", "deaf"}

\* netCancel is the second call Run defers to its end; the disk comes after it.
Cancelled == pc \in Leaving

\* A step of a goroutine or a peer touches one component of the network.
Manage == UNCHANGED <<vars, conn>>
OnConn(c, r) == conn' = [conn EXCEPT ![c] = r] /\ UNCHANGED <<vars, net, fwd>>

-----------------------------------------------------------------------------
NetInit ==
    /\ Init
    /\ net = "off"
    /\ fwd = [f \in Forward |-> "idle"]
    /\ conn = [c \in Client |-> NoConn]

\* A step of the engine, with what it does to the network: vm.Start is followed by
\* go manageNetwork, and the end of the process closes every socket.
Engine(A) ==
    /\ A
    /\ \/ /\ pc = "start" /\ pc' = "run"
          /\ net' = "address"
          /\ UNCHANGED <<fwd, conn>>
       \/ /\ pc # "off" /\ pc' = "off"
          /\ net' = "off"
          /\ fwd' = [f \in Forward |-> "idle"]
          /\ conn' = [c \in Client |-> NoConn]
       \/ /\ ~(pc = "start" /\ pc' = "run")
          /\ ~(pc # "off" /\ pc' = "off")
          /\ UNCHANGED netVars

\* waitGuestIP found the machine's MAC; a goroutine per port is started.
AddressFound ==
    /\ net = "address"
    /\ net' = "probe"
    /\ fwd' = [f \in Forward |-> "spawned"]
    /\ Manage

\* Its deadline or the cancellation: no forwarding for the rest of the run.
AddressMissed ==
    /\ net = "address"
    /\ net' = "ended"
    /\ UNCHANGED fwd
    /\ Manage

\* Mutant: when the guest does not get ready its address is looked up again.
ReadinessRetries ==
    /\ net = "probe"
    /\ net' \in {"ended", "address"}
    /\ UNCHANGED fwd
    /\ Manage

\* The guest's ports answered, or timed out; the services are printed anyhow.
Readiness ==
    /\ net = "probe"
    /\ net' = "ended"
    /\ UNCHANGED fwd
    /\ Manage

\* net.Listen; if it fails there is a warning and the run goes on without the port.
Listen(f) ==
    /\ fwd[f] = "spawned"
    /\ \E s \in {"listening", "failed"} : fwd' = [fwd EXCEPT ![f] = s]
    /\ UNCHANGED net
    /\ Manage

\* Accept fails (out of descriptors): the loop returns, the listener stays open.
AcceptError(f) ==
    /\ fwd[f] = "listening"
    /\ fwd' = [fwd EXCEPT ![f] = "deaf"]
    /\ UNCHANGED net
    /\ Manage

\* The goroutine that waits for the cancellation; the backlog is reset.
CloseListener(f) ==
    /\ Cancelled
    /\ fwd[f] \in Open
    /\ fwd' = [fwd EXCEPT ![f] = "closed"]
    /\ conn' = [c \in Client |-> IF conn[c].at = "queue" /\ conn[c].to = f
                                 THEN NoConn ELSE conn[c]]
    /\ UNCHANGED <<vars, net>>

-----------------------------------------------------------------------------
\* Mutant: pipe is called, not started as a goroutine.
AcceptInTurn(c) ==
    /\ conn[c].at = "queue"
    /\ fwd[conn[c].to] = "listening"
    /\ \A d \in Client : conn[d].to = conn[c].to => conn[d].at \notin {"dial", "pipe"}
    /\ OnConn(c, [conn[c] EXCEPT !.at = "dial"])

Accept(c) ==
    /\ conn[c].at = "queue"
    /\ fwd[conn[c].to] = "listening"
    /\ OnConn(c, [conn[c] EXCEPT !.at = "dial"])

\* DialTimeout: the guest's kernel answers, or the client is closed.
Dial(c) ==
    /\ conn[c].at = "dial"
    /\ \/ vm = "running" /\ OnConn(c, [conn[c] EXCEPT !.at = "pipe", !.guestOpen = TRUE])
       \/ OnConn(c, NoConn)

\* Mutant: the two copies run one after the other, the guest's stream first.
CopyUpLater(c) ==
    /\ conn[c].at = "pipe" /\ conn[c].request
    /\ ~conn[c].guestOpen /\ vm = "running"
    /\ OnConn(c, [conn[c] EXCEPT !.request = FALSE])

\* The goroutine of pipe; at the client's end it returns and tells nobody.
CopyUp(c) ==
    /\ conn[c].at = "pipe" /\ conn[c].request
    /\ conn[c].guestOpen /\ vm = "running"
    /\ OnConn(c, [conn[c] EXCEPT !.request = FALSE])

\* The foreground of pipe; the write fails when the client is gone, and both
\* sides are closed.
CopyDown(c) ==
    /\ conn[c].at = "pipe" /\ conn[c].answer
    /\ \/ OnConn(c, [conn[c] EXCEPT !.answer = FALSE])
       \/ conn[c].send = "gone" /\ OnConn(c, NoConn)

\* Mutant: the client's stream is copied in the foreground, the guest's beside it.
PipeEndsSwapped(c) ==
    /\ conn[c].at = "pipe"
    /\ conn[c].send # "open" /\ ~conn[c].request
    /\ OnConn(c, NoConn)

\* Mutant: the pipe is closed only when both copies are done.
PipeEndsWaits(c) ==
    /\ conn[c].at = "pipe"
    /\ ~conn[c].guestOpen /\ ~conn[c].answer
    /\ conn[c].send # "open"
    /\ OnConn(c, NoConn)

\* The copy down has reached the guest's end: both sides are closed.
PipeEnds(c) ==
    /\ conn[c].at = "pipe"
    /\ ~conn[c].guestOpen /\ ~conn[c].answer
    /\ OnConn(c, NoConn)

-----------------------------------------------------------------------------
Connect(c, f) ==
    /\ conn[c].at = "none"
    /\ fwd[f] \in Open
    /\ opt \in Busy
    /\ OnConn(c, [NoConn EXCEPT !.at = "queue", !.to = f])

\* What a client does before it is connected through is seen from then on.
Ask(c) ==
    /\ conn[c].at = "pipe" /\ conn[c].send = "open"
    /\ ~conn[c].request
    /\ OnConn(c, [conn[c] EXCEPT !.request = TRUE])

\* The client closes its sending side, or leaves.
Close(c) ==
    /\ conn[c].at = "pipe"
    /\ \E s \in {"half", "gone"} :
         /\ conn[c].send \notin {"gone", s}
         /\ OnConn(c, [conn[c] EXCEPT !.send = s])

\* A server in the guest sends something.
Answer(c) ==
    /\ conn[c].at = "pipe" /\ vm = "running"
    /\ conn[c].guestOpen /\ ~conn[c].answer
    /\ OnConn(c, [conn[c] EXCEPT !.answer = TRUE])

\* It closes its side, or resets the connection: what was under way is lost then,
\* and pipe ends the client's side as if nothing had happened.
Hangup(c) ==
    /\ conn[c].at = "pipe" /\ vm = "running"
    /\ conn[c].guestOpen
    /\ \E lost \in BOOLEAN :
         OnConn(c, [conn[c] EXCEPT !.guestOpen = FALSE,
                                   !.answer = conn[c].answer /\ ~lost])

-----------------------------------------------------------------------------
Manager == AddressFound \/ AddressMissed \/ Readiness
           \/ \E f \in Forward : Listen(f) \/ AcceptError(f) \/ CloseListener(f)
Pipe(c) == Accept(c) \/ Dial(c) \/ CopyDown(c) \/ PipeEnds(c)
Peers(c) == Ask(c) \/ Close(c) \/ Answer(c) \/ Hangup(c)
            \/ \E f \in Forward : Connect(c, f)

NetNext ==
    \/ Engine(Launch) \/ Engine(Launcher) \/ Engine(MachineEnds)
    \/ Engine(Signal) \/ Engine(Crash)
    \/ Manager
    \/ \E c \in Client : Pipe(c) \/ CopyUp(c) \/ Peers(c)

NetSpec == NetInit /\ [][NetNext]_allVars

\* The launcher as in VzEngine; each goroutine of a connection runs when it can.
\* Nobody outside the process is obliged to do anything.
NetFairSpec ==
    /\ NetSpec
    /\ WF_allVars(Engine(Launcher))
    /\ \A c \in Client : WF_allVars(Pipe(c)) /\ WF_allVars(CopyUp(c))

-----------------------------------------------------------------------------
\* The values of the state; the network lives in a process whose machine was
\* started, forwards begin once the address is known, and only an open listener
\* has a backlog.
NetTypeOK ==
    /\ net \in {"off", "address", "probe", "ended"}
    /\ fwd \in [Forward -> {"idle", "spawned", "listening", "failed", "deaf", "closed"}]
    /\ conn \in [Client ->
         [at : {"none", "queue", "dial", "pipe"}, to : Forward \cup {"none"},
          request : BOOLEAN, answer : BOOLEAN,
          send : {"open", "half", "gone"}, guestOpen : BOOLEAN]]
    /\ net # "off" => pc \in Attending \cup Leaving
    /\ net \in {"off", "address"} => \A f \in Forward : fwd[f] = "idle"
    /\ \A c \in Client : /\ conn[c].at # "none" => conn[c].to \in Forward
                         /\ conn[c].at = "queue" => fwd[conn[c].to] \in Open

\* While the process lives, the connection of a client that is still there is
\* closed only after the guest ended its side, and only when all that had arrived
\* from the guest is written (after a reset by the guest what was under way is
\* lost); what the client does with its own side cuts nothing.
WholeAnswer ==
    [][\A c \in Client :
         conn[c].at = "pipe" /\ conn'[c].at # "pipe" /\ pc' # "off"
         /\ conn[c].send # "gone"
         => ~conn[c].guestOpen /\ ~conn[c].answer]_allVars

\* When the guest ends its side, pipe ends the client's, even if the client never
\* sends or closes anything.
EndReachesClient ==
    \A c \in Client : conn[c].at = "pipe" /\ ~conn[c].guestOpen
                      ~> conn[c].at # "pipe"

\* What a client sends reaches a guest that is there to hear it, before pipe closes
\* the connection, even if the guest says nothing first and whether or not the
\* client ends its side behind it.  The exception is a client that has left while
\* the guest was sending: the write to it fails, and pipe closes both sides with
\* the request possibly unread (forward_darwin.go:196).
RequestReaches ==
    \A c \in Client :
        conn[c].at = "pipe" /\ conn[c].request ~>
            \/ vm # "running"
            \/ /\ conn[c].at = "pipe"
               /\ \/ ~conn[c].request
                  \/ ~conn[c].guestOpen
                  \/ conn[c].send = "gone" /\ conn[c].answer

\* A client of a port whose accept loop lives is connected or turned away, however
\* long the connections of other clients last (go pipe in proxyPort).
NobodyWaitsInTurn ==
    \A c \in Client : conn[c].at \in Waiting
                      ~> conn[c].at \notin Waiting \/ fwd[conn[c].to] = "deaf"
=============================================================================
