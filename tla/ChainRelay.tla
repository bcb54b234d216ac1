----------------------------- MODULE ChainRelay -----------------------------
(***************************************************************************)
(* One relay of a proxy chain (ChainedProxyRelay of                        *)
(* src/team_protocol/proxy_chain.py): a thread accepts clients on a local  *)
(* port, and a thread of its own serves each of them: it reads the SOCKS5  *)
(* request, asks for the second hop, connects through the local proxy and  *)
(* through the second hop, answers, and copies bytes. stop() may come at   *)
(* any time.                                                               *)
(***************************************************************************)
EXTENDS Naturals, FiniteSets

CONSTANT Clients     \* the connections that are made to the port

ASSUME ChainRelayAssumption == Clients \cap {"accept", "over"} = {}

VARIABLES
  listening,         \* the server socket is open
  stopping,          \* _stopping
  serve,             \* the serving thread: "accept", "over", or the client it has accepted
  active,            \* _active
  handler,           \* the place of each client's thread
  clientSock, upSock,  \* whether each client's socket and its upstream's are open
  answered,          \* what the client was told
  stopAt,            \* the place of stop()
  closing           \* the clients it closes

relayVars == <<listening, stopping, serve, active, handler, clientSock, upSock, answered, stopAt, closing>>

RelayTypeOK ==
  /\ serve \in {"accept", "over"} \cup Clients /\ active \subseteq Clients
  /\ handler \in [Clients -> {"none", "request", "endpoint", "first_hop", "second_hop", "answer",
                              "copy", "close", "over"}]
  /\ clientSock \in [Clients -> {"none", "queued", "open", "closed"}]
  /\ upSock \in [Clients -> {"none", "open", "closed"}]
  /\ answered \in [Clients -> {"nothing", "success", "failure"}]
  /\ stopAt \in {"off", "server", "clients", "join", "stopped"}

RelayInit ==
  /\ listening = TRUE /\ stopping = FALSE /\ serve = "accept" /\ active = {}
  /\ handler = [c \in Clients |-> "none"] /\ clientSock = [c \in Clients |-> "none"]
  /\ upSock = [c \in Clients |-> "none"] /\ answered = [c \in Clients |-> "nothing"]
  /\ stopAt = "off" /\ closing = {}
-----------------------------------------------------------------------------
(* The clients, and the serving thread. *)

ClientConnects(c) ==
  /\ listening /\ clientSock[c] = "none"
  /\ clientSock' = [clientSock EXCEPT ![c] = "queued"]
  /\ UNCHANGED <<listening, stopping, serve, active, handler, upSock, answered, stopAt, closing>>

Accept(c) ==
  /\ serve = "accept" /\ listening /\ clientSock[c] = "queued"
  /\ serve' = c /\ clientSock' = [clientSock EXCEPT ![c] = "open"]
  /\ UNCHANGED <<listening, stopping, active, handler, upSock, answered, stopAt, closing>>

\* The accept fails on a closed socket, or the loop sees the event.
ServeEnds ==
  /\ serve = "accept" /\ (stopping \/ ~listening) /\ serve' = "over"
  /\ UNCHANGED <<listening, stopping, active, handler, clientSock, upSock, answered, stopAt, closing>>

\* Mutant: the event is not looked at once more under the lock.
NotStopping == TRUE

Accepting == ~stopping

\* A client that arrives while the relay stops is closed and not served.
Dispatch(c) ==
  /\ serve = c /\ serve' = "accept"
  /\ IF Accepting
       THEN /\ active' = active \cup {c} /\ handler' = [handler EXCEPT ![c] = "request"]
            /\ UNCHANGED clientSock
       ELSE /\ clientSock' = [clientSock EXCEPT ![c] = "closed"] /\ UNCHANGED <<active, handler>>
  /\ UNCHANGED <<listening, stopping, upSock, answered, stopAt, closing>>
-----------------------------------------------------------------------------
(* The thread of client c. A closed socket makes every step on it fail.    *)

Reaches(c, place) == handler' = [handler EXCEPT ![c] = place]

RelayReads(c) ==
  /\ handler[c] = "request"
  /\ \/ clientSock[c] = "open" /\ Reaches(c, "endpoint") /\ UNCHANGED answered
     \/ /\ Reaches(c, "close")
        /\ answered' = IF clientSock[c] = "open" THEN [answered EXCEPT ![c] = "failure"] ELSE answered
  /\ UNCHANGED <<listening, stopping, serve, active, clientSock, upSock, stopAt, closing>>

Refuse(c) ==
  /\ Reaches(c, "close")
  /\ answered' = IF clientSock[c] = "open" THEN [answered EXCEPT ![c] = "failure"] ELSE answered

\* refresh may fail; connecting may fail at either hop, and closes then what
\* it has opened.
AskSecondHop(c) ==
  /\ handler[c] = "endpoint"
  /\ \/ Reaches(c, "first_hop") /\ UNCHANGED answered
     \/ Refuse(c)
  /\ UNCHANGED <<listening, stopping, serve, active, clientSock, upSock, stopAt, closing>>

ConnectFirstHop(c) ==
  /\ handler[c] = "first_hop"
  /\ \/ /\ upSock' = [upSock EXCEPT ![c] = "open"] /\ Reaches(c, "second_hop") /\ UNCHANGED answered
     \/ Refuse(c) /\ UNCHANGED upSock
  /\ UNCHANGED <<listening, stopping, serve, active, clientSock, stopAt, closing>>

\* Mutant: a failure at the second hop leaves the first one open.
LeaveFirstHop(c) ==
  /\ handler[c] = "second_hop"
  /\ \/ Reaches(c, "answer") /\ UNCHANGED <<upSock, answered>>
     \/ Refuse(c) /\ UNCHANGED upSock
  /\ UNCHANGED <<listening, stopping, serve, active, clientSock, stopAt, closing>>

ConnectSecondHop(c) ==
  /\ handler[c] = "second_hop"
  /\ \/ Reaches(c, "answer") /\ UNCHANGED <<upSock, answered>>
     \/ Refuse(c) /\ upSock' = [upSock EXCEPT ![c] = "closed"]
  /\ UNCHANGED <<listening, stopping, serve, active, clientSock, stopAt, closing>>

RelayAnswers(c) ==
  /\ handler[c] = "answer"
  /\ IF clientSock[c] = "open"
       THEN answered' = [answered EXCEPT ![c] = "success"] /\ Reaches(c, "copy")
       ELSE Reaches(c, "close") /\ UNCHANGED answered
  /\ UNCHANGED <<listening, stopping, serve, active, clientSock, upSock, stopAt, closing>>

CopyEnds(c) == stopping \/ clientSock[c] = "closed"

\* Bytes are copied until an end closes, an error, or the event; only the
\* event and a closed client are sure to come.
CopyOver(c) ==
  /\ handler[c] = "copy" /\ CopyEnds(c) /\ Reaches(c, "close")
  /\ UNCHANGED <<listening, stopping, serve, active, clientSock, upSock, answered, stopAt, closing>>

PeerCloses(c) ==
  /\ handler[c] = "copy" /\ Reaches(c, "close")
  /\ UNCHANGED <<listening, stopping, serve, active, clientSock, upSock, answered, stopAt, closing>>

HandlerCloses(c) ==
  /\ handler[c] = "close" /\ Reaches(c, "over") /\ active' = active \ {c}
  /\ clientSock' = [clientSock EXCEPT ![c] = "closed"]
  /\ upSock' = [upSock EXCEPT ![c] = IF @ = "open" THEN "closed" ELSE @]
  /\ UNCHANGED <<listening, stopping, serve, answered, stopAt, closing>>
-----------------------------------------------------------------------------
(* stop. *)

StopBegin ==
  /\ stopAt = "off" /\ stopAt' = "server" /\ stopping' = TRUE /\ closing' = active
  /\ UNCHANGED <<listening, serve, active, handler, clientSock, upSock, answered>>

\* Clients the kernel has queued are reset with the socket.
StopServer ==
  /\ stopAt = "server" /\ stopAt' = "clients" /\ listening' = FALSE
  /\ clientSock' = [c \in Clients |-> IF clientSock[c] = "queued" THEN "closed" ELSE clientSock[c]]
  /\ UNCHANGED <<stopping, serve, active, handler, upSock, answered, closing>>

StopClients ==
  /\ stopAt = "clients" /\ stopAt' = "join"
  /\ clientSock' = [c \in Clients |-> IF c \in closing THEN "closed" ELSE clientSock[c]]
  /\ UNCHANGED <<listening, stopping, serve, active, handler, upSock, answered, closing>>

\* The serving thread is joined, the clients' threads are not.
StopJoin ==
  /\ stopAt = "join" /\ serve = "over" /\ stopAt' = "stopped" /\ active' = {}
  /\ UNCHANGED <<listening, stopping, serve, handler, clientSock, upSock, answered, closing>>

HandlerStep(c) ==
  \/ RelayReads(c) \/ AskSecondHop(c) \/ ConnectFirstHop(c) \/ ConnectSecondHop(c)
  \/ RelayAnswers(c) \/ CopyOver(c) \/ HandlerCloses(c)

StopSteps == StopServer \/ StopClients \/ StopJoin

RelayNext ==
  \/ \E c \in Clients : ClientConnects(c) \/ Accept(c) \/ Dispatch(c) \/ HandlerStep(c) \/ PeerCloses(c)
  \/ ServeEnds \/ StopBegin \/ StopSteps

\* Every thread runs on; the calls of a handler have timeouts.
RelayFairness ==
  /\ \A c \in Clients : WF_relayVars(HandlerStep(c)) /\ WF_relayVars(Dispatch(c))
  /\ WF_relayVars(ServeEnds) /\ WF_relayVars(StopSteps)

RelaySpec == RelayInit /\ [][RelayNext]_relayVars /\ RelayFairness
-----------------------------------------------------------------------------
(* Properties. *)

\* When stop has returned, every client is disconnected, though it may have
\* been accepted while the relay was stopping.
StoppedHasNoClients == stopAt = "stopped" => \A c \in Clients : clientSock[c] # "open"

\* A client is told that it is connected only when both hops are, and a
\* thread that is over leaves no socket open.
NoSocketIsLeft ==
  \A c \in Clients :
    /\ handler[c] = "copy" => answered[c] = "success" /\ upSock[c] = "open"
    /\ handler[c] = "over" => clientSock[c] = "closed" /\ upSock[c] # "open"
    /\ answered[c] = "failure" => upSock[c] # "open"

\* After a stop all connections to the outside are closed in the end.
StopClosesUpstreams == \A c \in Clients : (stopAt = "server") ~> (stopAt = "stopped" /\ upSock[c] # "open")
=============================================================================
