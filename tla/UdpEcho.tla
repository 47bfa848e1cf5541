------------------------------ MODULE UdpEcho ------------------------------
(***************************************************************************)
(* lab3: ServerU and its ClientUs, which exchange datagrams with it on one *)
(* host (ClientU's server address is 127.0.0.1), so that a datagram is     *)
(* lost only when the server's receive buffer is full or its socket is     *)
(* closed.  A datagram for a port nobody listens on comes back as an ICMP  *)
(* message, which makes the next call on the sender's socket fail.         *)
(***************************************************************************)
EXTENDS Naturals, Sequences, FiniteSets, Functions

CONSTANTS
    Clients,   \* the client processes
    NoClient,  \* the sender of a datagram that is no ClientU
    Capacity,  \* how many datagrams the server's receive buffer holds
    MaxCount,  \* the largest number of messages a user orders at once
    Faults     \* "crash": a client is killed; "kill": the server is killed;
               \* "winsock": the server's start fails; "empty": another
               \* program sends the server an empty string

ASSUME UdpAssumption ==
    /\ NoClient \notin Clients
    /\ Capacity \in Nat \ {0}
    /\ MaxCount \in Nat \ {0}
    /\ Faults \subseteq {"crash", "kill", "winsock", "empty"}

VARIABLES
    server,   \* where ServerU is
    inbox,    \* the datagrams in its receive buffer
    msg,      \* the datagram in serv_buff, and the sender's address
    reset,    \* a call on its socket is due to fail with WSAECONNRESET
    client,   \* client[c]: where ClientU c is
    left,     \* left[c]: messages of the current order still to send
    mail      \* mail[c]: what c's socket has received

vars == <<server, inbox, msg, reset, client, left, mail>>

Over == {"off", "dead"}
Open == {"greet", "prompt", "send", "await", "leaving"}
Datagram == [from : Clients, what : {"hello", "text", "q"}]
Empty == [from |-> NoClient, what |-> "empty"]

TypeOK ==
    /\ server \in {"boot", "recv", "echo"} \cup Over
    /\ inbox \in Seq(Datagram \cup {Empty})
    /\ Len(inbox) <= Capacity
    /\ msg \in Datagram \cup {Empty}
    /\ reset \in BOOLEAN
    /\ client \in [Clients -> Open \cup {"idle", "gone", "dead"}]
    /\ left \in [Clients -> 0..MaxCount]
    /\ mail \in [Clients -> Seq({"hello", "text", "q", "unreach"})]

(* serv_buff starts as 255 zeros and client as an address of zeros.        *)
Init ==
    /\ server = "boot"
    /\ inbox = <<>>
    /\ msg = Empty
    /\ reset = FALSE
    /\ client = [c \in Clients |-> "idle"]
    /\ left = [c \in Clients |-> 0]
    /\ mail = [c \in Clients |-> <<>>]

-----------------------------------------------------------------------------
(* ServerU.                                                                *)
Bound == server \in {"recv", "echo"}

ServerGoes(from, to) ==
    /\ server = from
    /\ server' = to
    /\ UNCHANGED <<client, left>>

(* What is still in its buffer is dropped without a word to the senders.   *)
ServerEnds(how) ==
    /\ ServerGoes(server, how)
    /\ inbox' = <<>>
    /\ reset' = FALSE
    /\ UNCHANGED <<msg, mail>>

Boot == ServerGoes("boot", "recv") /\ UNCHANGED <<inbox, msg, reset, mail>>

BootFails == server = "boot" /\ "winsock" \in Faults /\ ServerEnds("dead")

(* Mutant: MSG_PEEK is left in the flags of recvfrom().                    *)
Peeked == inbox

Taken == Tail(inbox)

Recv ==
    /\ ServerGoes("recv", "echo")
    /\ inbox # <<>> /\ Head(inbox) # Empty
    /\ msg' = Head(inbox)
    /\ inbox' = Taken
    /\ UNCHANGED <<reset, mail>>

(* strcmp(serv_buff, "") == 0.  No ClientU sends that: its q is "q\n".     *)
Shutdown ==
    /\ server = "recv"
    /\ inbox # <<>> /\ Head(inbox) = Empty
    /\ ServerEnds("off")

(* recvfrom() or sendto() fails because an earlier answer met no socket.   *)
Throws == Bound /\ reset /\ ServerEnds("dead")

(* Mutants: the message is printed but not sent back; it is sent twice.    *)
NotEchoed == <<>>
EchoedTwice == <<msg.what, msg.what>>

(* What the sendto() of the buffer sends.                                  *)
Echoed == <<msg.what>>

(* A firewall may keep the ICMP message from coming back.                  *)
Echo ==
    /\ ServerGoes("echo", "recv")
    /\ IF client[msg.from] \in Open
         THEN mail' = [mail EXCEPT ![msg.from] = @ \o Echoed] /\ UNCHANGED reset
         ELSE reset' \in {reset, TRUE} /\ UNCHANGED mail
    /\ UNCHANGED <<inbox, msg>>

Server == Boot \/ BootFails \/ Recv \/ Shutdown \/ Throws \/ Echo

Kill == "kill" \in Faults /\ server \notin Over /\ ServerEnds("dead")

Stranger ==
    /\ "empty" \in Faults
    /\ Bound /\ Len(inbox) < Capacity
    /\ inbox' = Append(inbox, Empty)
    /\ UNCHANGED <<server, msg, reset, client, left, mail>>

-----------------------------------------------------------------------------
(* ClientU.  What becomes of a datagram it sends.                          *)
Post(c, what) ==
    \/ /\ Bound /\ Len(inbox) < Capacity
       /\ inbox' = Append(inbox, [from |-> c, what |-> what])
       /\ UNCHANGED mail
    \/ Bound /\ Len(inbox) = Capacity /\ UNCHANGED <<inbox, mail>>
    \/ /\ ~Bound
       /\ mail' \in {mail, [mail EXCEPT ![c] = Append(@, "unreach")]}
       /\ UNCHANGED inbox

Goes(c, from, to) ==
    /\ client[c] = from
    /\ client' = [client EXCEPT ![c] = to]
    /\ UNCHANGED <<server, msg, reset>>

(* The socket is closed, and drops what it has received.                   *)
Drops(c) == mail' = [mail EXCEPT ![c] = <<>>] /\ UNCHANGED <<inbox, left>>

Hello(c) == Goes(c, "idle", "greet") /\ Post(c, "hello") /\ UNCHANGED left

(* recv(), whose result is not looked at.                                  *)
Greet(c) ==
    /\ Goes(c, "greet", "prompt")
    /\ mail[c] # <<>>
    /\ mail' = [mail EXCEPT ![c] = Tail(@)]
    /\ UNCHANGED <<inbox, left>>

Order(c) ==
    /\ Goes(c, "prompt", "send")
    /\ \E count \in 1..MaxCount : left' = [left EXCEPT ![c] = count]
    /\ UNCHANGED <<inbox, mail>>

Send(c) == Goes(c, "send", "await") /\ Post(c, "text") /\ UNCHANGED left

(* Mutant: i <= count.                                                     *)
MorePastCount(c) == left[c] > 0

(* i < count, after i++.                                                   *)
More(c) == left[c] > 1

Failed(c) == mail[c] # <<>> /\ Head(mail[c]) = "unreach"

(* Mutant: recvfrom() does not wait.                                       *)
NotAwaited(c) == ~Failed(c)

Answered(c) == mail[c] # <<>> /\ ~Failed(c)

Reply(c) ==
    /\ Goes(c, "await", IF More(c) THEN "send" ELSE "prompt")
    /\ Answered(c)
    /\ left' = [left EXCEPT ![c] = @ - 1]
    /\ mail' = [mail EXCEPT ![c] = SubSeq(@, 2, Len(@))]
    /\ UNCHANGED inbox

ReplyThrows(c) == Failed(c) /\ Goes(c, "await", "dead") /\ Drops(c)

(* The line that begins with q is sent, with its end, and main returns.    *)
Quit(c) == Goes(c, "prompt", "leaving") /\ Post(c, "q") /\ UNCHANGED left

(* The system closes the socket, which ClientU does not do itself.         *)
Exit(c) == Goes(c, "leaving", "gone") /\ Drops(c)

Crash(c) ==
    /\ "crash" \in Faults
    /\ client[c] \in Open
    /\ Goes(c, client[c], "gone")
    /\ Drops(c)

Works(c) == Greet(c) \/ Send(c) \/ Reply(c) \/ ReplyThrows(c) \/ Exit(c)

User(c) == Hello(c) \/ Order(c) \/ Quit(c)

Next ==
    \/ Server \/ Kill \/ Stranger
    \/ \E c \in Clients : Works(c) \/ User(c) \/ Crash(c)

Spec == Init /\ [][Next]_vars

(* The processes run; a user owes nothing.                                 *)
FairSpec ==
    Spec /\ WF_vars(Server) /\ \A c \in Clients : WF_vars(Works(c))

-----------------------------------------------------------------------------
InHand(c) == server = "echo" /\ msg.from = c

(* The places of the datagrams of c in the buffer.                         *)
Inbound(c) == {n \in DOMAIN inbox : inbox[n].from = c}

(* A client's phase in the service.                                        *)
Phase(c) ==
    IF client[c] \in {"leaving", "gone", "dead"}     THEN "gone"
    ELSE IF client[c] \in {"idle", "prompt", "send"} THEN "free"
    ELSE IF mail[c] # <<>>                           THEN "answered"
    ELSE IF Inbound(c) # {} \/ InHand(c)             THEN "asked"
                                                     ELSE "lost"

Service == INSTANCE LossyEcho WITH phase <- [c \in Clients |-> Phase(c)]

(* The programs implement the lossy echo service.                          *)
ImplementsService == Service!LossySpec

(* A client that waits has at most one datagram under way, of the kind it  *)
(* waits for, and one that does not wait has none: no answer is left over  *)
(* to be taken for that of a later message.                                *)
OneOutstanding ==
    \A c \in Clients :
        LET pending == Cardinality(Inbound(c)) + Len(mail[c])
                         + (IF InHand(c) THEN 1 ELSE 0)
        IN  /\ client[c] \in {"idle", "prompt", "send"} => pending = 0
            /\ client[c] \in {"greet", "await"} => pending <= 1
            /\ client[c] = "await" =>
                   Range(mail[c]) \subseteq {"text", "unreach"}

(* A server that goes on loses no datagram it has in its buffer or in      *)
(* hand, whatever happens to the clients of the others.                    *)
LossHasCause ==
    [][\A c \in Clients :
          Phase(c) = "asked" /\ Phase(c)' = "lost" => server' \in Over]_vars

(* Every datagram in the buffer has its turn: it is answered, or lost with *)
(* the server.                                                             *)
AnsweredOrLost == \A c \in Clients : Phase(c) = "asked" ~> Phase(c) # "asked"

-----------------------------------------------------------------------------
(* Guide, chapter 7, practical 3, task 8: one ServerU and two clients at   *)
(* the same time, each of which sends and receives its messages.  It is    *)
(* asked of a message the server has received only, since one sent before  *)
(* the server has its port, or to a full buffer, is lost anyhow.           *)
EveryAnswerArrives ==
    \A c \in Clients :
        client[c] = "await" /\ Phase(c) = "asked" ~> client[c] # "await"

=============================================================================
