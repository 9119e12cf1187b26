----------------------------- MODULE EchoServer ------------------------------
(***************************************************************************)
(* The TLS echo server (tcp/ex2/server/s.c) and its clients                *)
(* (tcp/ex2/client/c.c): a parent that selects, accepts, does the          *)
(* handshake itself and forks a child for every connection; a flag that a  *)
(* signal handler clears, tested before select().  Signals reach the       *)
(* parent alone (kill) or every process of the server (Ctrl-C).            *)
(*                                                                         *)
(* External: TCP and TLS deliver in order; a process that ends closes its  *)
(* descriptors; a connection ends for the client when no process of the    *)
(* server holds it; SA_RESTART restarts everything but select(); a write   *)
(* to a connection the other side has closed succeeds, fails or raises     *)
(* SIGPIPE, which nobody handles.  A message is its number.                *)
(***************************************************************************)
EXTENDS Naturals, Sequences

CONSTANTS Clients,     \* the client processes, each with one connection
          MaxMessages, \* what a client says before it quits
          MaxSignals,  \* how many signals are sent
          None

ASSUME EchoAssumption ==
  /\ None \notin Clients
  /\ MaxMessages \in Nat /\ MaxSignals \in Nat

VARIABLES
  parent,   \* where the parent is
  running,  \* its flag
  conn,     \* the connection it is working on
  backlog,  \* the connections that wait for accept()
  fds,      \* the client_fd that the parent has open
  child,    \* where the child of a connection is
  goes_on,  \* the flag of every child
  client,   \* where every client is
  said,     \* how many messages it has sent
  toServer, \* what is on the way to the server
  toClient, \* and back; 0 is close_notify or the end
  signals   \* history: how many signals have been sent

server == <<parent, running, conn, backlog, fds>>
children == <<child, goes_on>>
clients == <<client, said>>
wires == <<toServer, toClient>>
echoVars == <<server, children, clients, wires, signals>>

Bye == 0
Alive(c) == child[c] \notin {"none", "gone"}
\* Some process of the server has the connection open, or will accept it.
Connected(c) == Alive(c) \/ c \in fds \/ \E i \in DOMAIN backlog : backlog[i] = c

EchoInit ==
  /\ parent = "test" /\ running = TRUE /\ conn = None /\ backlog = <<>> /\ fds = {}
  /\ child = [c \in Clients |-> "none"]
  /\ goes_on = [c \in Clients |-> TRUE]
  /\ client = [c \in Clients |-> "start"]
  /\ said = [c \in Clients |-> 0]
  /\ toServer = [c \in Clients |-> <<>>]
  /\ toClient = [c \in Clients |-> <<>>]
  /\ signals = 0

-----------------------------------------------------------------------------
(* main() of the server                                                    *)

\* while (running)
Test ==
  /\ parent = "test"
  /\ parent' = IF running THEN "select" ELSE "cleanup"
  /\ UNCHANGED <<running, conn, backlog, fds, children, clients, wires, signals>>

\* A slip: select() without a timeout.
SelectForEver ==
  /\ parent = "select"
  /\ backlog # <<>>
  /\ parent' = "accept"
  /\ UNCHANGED <<running, conn, backlog, fds, children, clients, wires, signals>>

\* Ready, or after a second not.  The backlog does not shrink in between:
\* a connection the client has closed stays in it.
Select ==
  /\ parent = "select"
  /\ parent' = IF backlog # <<>> THEN "accept" ELSE "test"
  /\ UNCHANGED <<running, conn, backlog, fds, children, clients, wires, signals>>

Accept ==
  /\ parent = "accept"
  /\ parent' = "handshake"
  /\ conn' = Head(backlog) /\ backlog' = Tail(backlog)
  /\ fds' = fds \cup {conn'}
  /\ UNCHANGED <<running, children, clients, wires, signals>>

\* SSL_accept(), which waits for the client's part in it.
Handshake ==
  /\ parent = "handshake"
  /\ client[conn] = "connect"
  /\ parent' = "fork"
  /\ client' = [client EXCEPT ![conn] = "type"]
  /\ UNCHANGED <<running, conn, backlog, fds, children, said, wires, signals>>

\* The client is gone or does not like the certificate.
HandshakeFails ==
  /\ parent = "handshake"
  /\ client[conn] \in {"connect", "gone"}
  /\ parent' = "test" /\ conn' = None
  /\ fds' = fds \ {conn}
  /\ UNCHANGED <<running, backlog, children, clients, wires, signals>>

\* The process ends, with all its descriptors.
End ==
  /\ parent' = "gone" /\ conn' = None
  /\ backlog' = <<>> /\ fds' = {}

\* SIGPIPE in SSL_accept()
HandshakeKills ==
  /\ parent = "handshake"
  /\ client[conn] = "gone"
  /\ End
  /\ UNCHANGED <<running, children, clients, wires, signals>>

\* A slip: the parent keeps its client_fd.
ForkKeeps ==
  /\ parent = "fork"
  /\ parent' = "test" /\ conn' = None
  /\ child' = [child EXCEPT ![conn] = "read"]
  /\ goes_on' = [goes_on EXCEPT ![conn] = running]
  /\ UNCHANGED <<running, backlog, fds, clients, wires, signals>>

Fork ==
  /\ parent = "fork"
  /\ parent' = "test" /\ conn' = None
  /\ fds' = fds \ {conn}
  /\ child' = [child EXCEPT ![conn] = "read"]
  /\ goes_on' = [goes_on EXCEPT ![conn] = running]
  /\ UNCHANGED <<running, backlog, clients, wires, signals>>

\* A slip: nobody closes the connection when there is no child for it.
ForkFailsKeeps ==
  /\ parent = "fork"
  /\ parent' = "test" /\ conn' = None
  /\ UNCHANGED <<running, backlog, fds, children, clients, wires, signals>>

ForkFails ==
  /\ parent = "fork"
  /\ parent' = "test" /\ conn' = None
  /\ fds' = fds \ {conn}
  /\ UNCHANGED <<running, backlog, children, clients, wires, signals>>

\* cleanup_resources(): whoever waits in the backlog is refused.
Cleanup ==
  /\ parent = "cleanup"
  /\ parent' = "wait"
  /\ backlog' = <<>>
  /\ UNCHANGED <<running, conn, fds, children, clients, wires, signals>>

\* wait_for_children(): a child that still runs makes waitpid() return 0,
\* which ends the loop.
WaitForChildren ==
  /\ parent = "wait"
  /\ End
  /\ UNCHANGED <<running, children, clients, wires, signals>>

-----------------------------------------------------------------------------
(* handle_client()                                                         *)

\* A slip: the loop does not end when the client has disconnected.
ChildReadsOn(c) ==
  /\ child[c] = "read"
  /\ toServer[c] # <<>>
  /\ child' = [child EXCEPT ![c] = IF Head(toServer[c]) = Bye THEN "read" ELSE "write"]
  /\ UNCHANGED <<server, goes_on, clients, wires, signals>>

\* SSL_read(): a message, or the end of the connection.
ChildReads(c) ==
  /\ child[c] = "read"
  /\ toServer[c] # <<>>
  /\ child' = [child EXCEPT ![c] = IF Head(toServer[c]) = Bye THEN "close" ELSE "write"]
  /\ UNCHANGED <<server, goes_on, clients, wires, signals>>

\* SSL_write(); the flag is tested after it.
ChildWrites(c) ==
  /\ child[c] = "write"
  /\ toServer' = [toServer EXCEPT ![c] = Tail(@)]
  /\ toClient' = [toClient EXCEPT ![c] = Append(@, Head(toServer[c]))]
  /\ child' = [child EXCEPT ![c] = IF goes_on[c] THEN "read" ELSE "close"]
  /\ UNCHANGED <<server, goes_on, clients, signals>>

\* The client is gone: the write fails or raises SIGPIPE.
ChildWriteFails(c) ==
  /\ child[c] = "write"
  /\ client[c] = "gone"
  /\ toServer' = [toServer EXCEPT ![c] = Tail(@)]
  /\ child' = [child EXCEPT ![c] = "close"] \/ child' = [child EXCEPT ![c] = "gone"]
  /\ UNCHANGED <<server, goes_on, clients, toClient, signals>>

\* The first SSL_shutdown(); the connection stays open for the second one if
\* the client has not said goodbye yet.
ChildShutsDown(c) ==
  /\ child[c] = "close"
  /\ toClient' = [toClient EXCEPT ![c] = Append(@, Bye)]
  /\ child' = [child EXCEPT ![c] = IF toServer[c] = <<Bye>> THEN "gone" ELSE "drain"]
  /\ UNCHANGED <<server, goes_on, clients, toServer, signals>>

\* The second one, which reads until the client says anything.
ChildDrains(c) ==
  /\ child[c] = "drain"
  /\ toServer[c] # <<>>
  /\ child' = [child EXCEPT ![c] = "gone"]
  /\ UNCHANGED <<server, goes_on, clients, wires, signals>>

-----------------------------------------------------------------------------
(* main() of the client, and its user                                      *)

Connect(c) ==
  /\ client[c] = "start"
  /\ IF parent \in {"wait", "gone"}
     THEN client' = [client EXCEPT ![c] = "gone"] /\ UNCHANGED backlog
     ELSE client' = [client EXCEPT ![c] = "tcp"] /\ backlog' = Append(backlog, c)
  /\ UNCHANGED <<parent, running, conn, fds, children, said, wires, signals>>

\* SSL_connect()
SslConnect(c) ==
  /\ client[c] = "tcp"
  /\ client' = [client EXCEPT ![c] = "connect"]
  /\ UNCHANGED <<server, children, said, wires, signals>>

\* The user types a line, and SSL_write() succeeds, even if the server has
\* just closed the connection.
Say(c) ==
  /\ client[c] = "type" /\ said[c] < MaxMessages
  /\ client' = [client EXCEPT ![c] = "wait"]
  /\ said' = [said EXCEPT ![c] = @ + 1]
  /\ toServer' = [toServer EXCEPT ![c] = Append(@, said'[c])]
  /\ UNCHANGED <<server, children, toClient, signals>>

\* The end of a client: "quit", the end of the input, an empty line, which
\* SSL_write() refuses, a signal, or a failure.
Leave(c) ==
  /\ client' = [client EXCEPT ![c] = "gone"]
  /\ toServer' = [toServer EXCEPT ![c] = Append(@, Bye)]
  /\ UNCHANGED <<server, children, said, toClient, signals>>

Leaves(c) == client[c] \in {"tcp", "connect", "type", "wait"} /\ Leave(c)

\* SSL_read() returns the response, or 0.
Hears(c) ==
  /\ client[c] = "wait"
  /\ toClient[c] # <<>>
  /\ IF Head(toClient[c]) = Bye THEN Leave(c)
     ELSE /\ client' = [client EXCEPT ![c] = "type"]
          /\ toClient' = [toClient EXCEPT ![c] = Tail(@)]
          /\ UNCHANGED <<server, children, said, toServer, signals>>

\* The server has closed the connection, and nothing is left to read.
IsCut(c) ==
  /\ client[c] \in {"connect", "wait"}
  /\ toClient[c] = <<>> /\ ~Connected(c)
  /\ Leave(c)

-----------------------------------------------------------------------------
(* handle_signal(): the second signal ends a process at once.               *)

\* In select() the first one makes it return; before select() it does not.
SignalParent ==
  IF ~running THEN End /\ UNCHANGED running
  ELSE /\ running' = FALSE
       /\ (parent = "select" /\ parent' = "test") \/ UNCHANGED parent
       /\ UNCHANGED <<conn, backlog, fds>>

Signal(everybody) ==
  /\ signals < MaxSignals /\ parent # "gone"
  /\ signals' = signals + 1
  /\ SignalParent
  /\ IF everybody
     THEN /\ child' = [c \in Clients |-> IF Alive(c) /\ ~goes_on[c] THEN "gone" ELSE child[c]]
          /\ goes_on' = [c \in Clients |-> goes_on[c] /\ ~Alive(c)]
     ELSE UNCHANGED children
  /\ UNCHANGED <<clients, wires>>

-----------------------------------------------------------------------------
ParentStep ==
  \/ Test \/ Select \/ Accept
  \/ Handshake \/ HandshakeFails \/ HandshakeKills
  \/ Fork \/ ForkFails
  \/ Cleanup \/ WaitForChildren

ChildStep(c) ==
  ChildReads(c) \/ ChildWrites(c) \/ ChildWriteFails(c) \/ ChildShutsDown(c) \/ ChildDrains(c)

ClientStep(c) == SslConnect(c) \/ Hears(c) \/ IsCut(c)

EchoNext ==
  \/ ParentStep
  \/ \E c \in Clients :
       ChildStep(c) \/ ClientStep(c) \/ Connect(c) \/ Say(c) \/ Leaves(c)
  \/ \E everybody \in BOOLEAN : Signal(everybody)

\* Every process runs; a user need not type, and nobody need send a signal.
EchoSpec ==
  /\ EchoInit /\ [][EchoNext]_echoVars
  /\ WF_echoVars(ParentStep)
  /\ \A c \in Clients : WF_echoVars(ChildStep(c)) /\ WF_echoVars(ClientStep(c))

-----------------------------------------------------------------------------
\* Whatever went wrong on the way, the parent goes back to select() without
\* a connection of its own: a client_fd it kept would hold the connection
\* open after the child has ended, and run it out of descriptors.
NoSocketKept == parent \in {"test", "select", "accept"} => fds = {}

\* After a signal the server ends, although the flag may be cleared between
\* its test and select() and although the handshake is not interrupted.
ServerEnds == ~running ~> parent = "gone"

\* A client that does its handshake or waits for a response gets it or
\* learns that nobody is there any more.
AnswerOrEnd ==
  \A c \in Clients : client[c] \in {"connect", "wait"} ~> client[c] \in {"type", "gone"}

\* A child does not outlive its client: not in the middle of a message, not
\* in the shutdown that waits for the client, with or without the parent.
ChildEnds == \A c \in Clients : client[c] = "gone" /\ Alive(c) ~> ~Alive(c)
=============================================================================
