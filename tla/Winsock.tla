------------------------------ MODULE Winsock ------------------------------
(***************************************************************************)
(* The part of Winsock and of the client programs that the concurrent      *)
(* servers of lab8 run against: one non-blocking listening socket, the     *)
(* queue of connections the system has completed and the server has not    *)
(* accepted, and for each client where its one connection stands.  The     *)
(* code is external; each operator is the effect of one library call, for  *)
(* a server module to conjoin with what its own code does around the call. *)
(***************************************************************************)
EXTENDS Naturals, Sequences, FiniteSets

CONSTANTS
    Clients,     \* the clients, each of which connects once
    MaxSockets   \* how many accepted sockets a process may hold

ASSUME WinsockAssumption ==
    /\ IsFiniteSet(Clients)
    /\ MaxSockets \in Nat \ {0}

VARIABLES
    listener,    \* what server_socket names
    backlog,     \* connections waiting for accept(), oldest first
    conn         \* conn[c]: the state of client c's connection

netvars == <<listener, backlog, conn>>

NetTypeOK ==
    /\ listener \in {"none", "created", "listening", "closed"}
    /\ backlog \in Seq(Clients)
    /\ conn \in [Clients -> {"idle", "queued", "reset", "accepted",
                             "refused", "dropped"}]

NetInit ==
    /\ listener = "none"
    /\ backlog = <<>>
    /\ conn = [c \in Clients |-> "idle"]

-----------------------------------------------------------------------------
(* connect() by a client: it is completed by the system and queued while   *)
(* somebody listens, whether or not the server ever calls accept().        *)
Connects(c) ==
    /\ conn[c] = "idle"
    /\ listener = "listening"
    /\ conn' = [conn EXCEPT ![c] = "queued"]
    /\ backlog' = Append(backlog, c)
    /\ UNCHANGED listener

(* connect() by a client when nobody listens: WSAECONNREFUSED.             *)
IsRefused(c) ==
    /\ conn[c] = "idle"
    /\ listener # "listening"
    /\ conn' = [conn EXCEPT ![c] = "refused"]
    /\ UNCHANGED <<listener, backlog>>

(* A client dies while its connection is still queued; the entry stays in  *)
(* the queue and makes the accept() that reaches it fail.                  *)
Resets(c) ==
    /\ conn[c] = "queued"
    /\ conn' = [conn EXCEPT ![c] = "reset"]
    /\ UNCHANGED <<listener, backlog>>

-----------------------------------------------------------------------------
(* Accepted sockets are closed by nobody, so each one stays in use.        *)
SocketsInUse == Cardinality({c \in Clients : conn[c] = "accepted"})

(* accept() returns INVALID_SOCKET and WSAGetLastError() WSAEWOULDBLOCK.   *)
AcceptWouldBlock ==
    /\ listener = "listening"
    /\ backlog = <<>>
    /\ UNCHANGED netvars

(* accept() returns a socket for the oldest connection, that of client c.  *)
AcceptReturns(c) ==
    /\ listener = "listening"
    /\ backlog # <<>>
    /\ c = Head(backlog)
    /\ conn[c] = "queued"
    /\ SocketsInUse < MaxSockets
    /\ backlog' = Tail(backlog)
    /\ conn' = [conn EXCEPT ![c] = "accepted"]
    /\ UNCHANGED listener

(* accept() fails with any other code: WSAENOTSOCK, WSAECONNRESET,         *)
(* WSAEMFILE.                                                              *)
AcceptNotSocket ==
    /\ listener # "listening"
    /\ UNCHANGED netvars

AcceptConnReset ==
    /\ listener = "listening"
    /\ backlog # <<>>
    /\ conn[Head(backlog)] = "reset"
    /\ backlog' = Tail(backlog)
    /\ conn' = [conn EXCEPT ![Head(backlog)] = "dropped"]
    /\ UNCHANGED listener

AcceptNoHandle ==
    /\ listener = "listening"
    /\ backlog # <<>>
    /\ conn[Head(backlog)] = "queued"
    /\ SocketsInUse >= MaxSockets
    /\ UNCHANGED netvars

AcceptMustFail ==
    \/ listener # "listening"
    \/ backlog # <<>> /\ (conn[Head(backlog)] = "reset"
                             \/ SocketsInUse >= MaxSockets)

AcceptFails == AcceptNotSocket \/ AcceptConnReset \/ AcceptNoHandle

(* What becomes of the clients when the listening socket goes away.        *)
DropQueued ==
    /\ backlog' = <<>>
    /\ conn' = [c \in Clients |-> IF conn[c] \in {"queued", "reset"}
                                    THEN "dropped" ELSE conn[c]]

=============================================================================
