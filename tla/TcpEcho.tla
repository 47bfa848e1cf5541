------------------------------ MODULE TcpEcho ------------------------------
(***************************************************************************)
(* lab2: ServerT and the ClientT programs that connect to it.  Blocking    *)
(* sockets, one client served at a time; a message is a block of 255 bytes *)
(* that the server classifies by comparing its buffer with "" and "z".     *)
(***************************************************************************)
EXTENDS Naturals, Sequences, FiniteSets, SequencesExt

CONSTANTS
    Clients,    \* the client processes, each of which connects once
    NoClient,   \* client_sock before the first client
    MaxCount,   \* the largest number of messages a user orders at once
    Faults      \* "crash": a client is killed; "abort": a client that ends
                \* resets its connection; "kill": the server is killed;
                \* "winsock": the server's start fails; "split": a block of
                \* 255 bytes is received in two parts, once per client

ASSUME TcpAssumption ==
    /\ NoClient \notin Clients
    /\ MaxCount \in Nat \ {0}
    /\ Faults \subseteq {"crash", "abort", "kill", "winsock", "split"}

VARIABLES
    server,   \* where ServerT is
    backlog,  \* connections it has not accepted, oldest first
    cur,      \* the client whose socket is client_sock
    buff,     \* what serv_buff compares as: "empty", "z" or "text"
    client,   \* client[c]: where ClientT c is
    left,     \* left[c]: messages of the current order still to send
    up,       \* up[c]: what the system holds for ServerT to receive from c
    down,     \* down[c]: what it holds for c to receive
    split     \* the clients to or from which a block has come in two parts

vars == <<server, backlog, cur, buff, client, left, up, down, split>>

Over == {"off", "dead"}
Connected == {"greet", "prompt", "send", "await"}
Message == {"empty", "z", "text"}

TypeOK ==
    /\ server \in {"boot", "accept", "recv", "judge"} \cup Over
    /\ backlog \in Seq(Clients)
    /\ cur \in Clients \cup {NoClient}
    /\ buff \in Message
    /\ client \in [Clients -> Connected \cup
                        {"idle", "quit", "left", "killed", "dead", "refused"}]
    /\ left \in [Clients -> 0..MaxCount]
    /\ up \in [Clients -> Seq(Message \cup {"fin", "rst"})]
    /\ down \in [Clients -> Seq({"welcome", "echo", "fin", "rst"})]
    /\ split \subseteq Clients

(* serv_buff is a vector of 255 zeros.                                     *)
Init ==
    /\ server = "boot"
    /\ backlog = <<>>
    /\ cur = NoClient
    /\ buff = "empty"
    /\ client = [c \in Clients |-> "idle"]
    /\ left = [c \in Clients |-> 0]
    /\ up = [c \in Clients |-> <<>>]
    /\ down = [c \in Clients |-> <<>>]
    /\ split = {}

(* recv() into a buffer of 255 bytes takes what has come of a block, which *)
(* need not be all of it: the rest is what the next recv() gets.           *)
MayComeInParts(c) == "split" \in Faults /\ c \notin split /\ split' = split \cup {c}

-----------------------------------------------------------------------------
(* ServerT.                                                                *)
ServerGoes(from, to) ==
    /\ server = from
    /\ server' = to
    /\ UNCHANGED <<client, left>>

(* When it ends, for whatever reason, every connection to it ends:         *)
(* gracefully, or by a reset if something was left unread.                 *)
ServerEnds(how) ==
    /\ ServerGoes(server, how)
    /\ \E end \in [Clients -> {"fin", "rst"}] :
          down' = [c \in Clients |->
                     IF c = cur \/ c \in Range(backlog)
                       THEN Append(down[c], end[c]) ELSE down[c]]
    /\ backlog' = <<>>
    /\ UNCHANGED <<cur, buff, up, split>>

Boot == ServerGoes("boot", "accept") /\ UNCHANGED <<backlog, cur, buff, up, down, split>>

BootFails == server = "boot" /\ "winsock" \in Faults /\ ServerEnds("dead")

(* Mutant: serv_buff is declared in the loop, and all zeros again.         *)
FreshBuffer == "empty"

(* serv_buff is declared before the loop, and outlives the client.         *)
KeptBuffer == buff

(* accept() and the send() of the client's number, whose result is not     *)
(* looked at.                                                              *)
Accept ==
    /\ ServerGoes("accept", "recv")
    /\ backlog # <<>>
    /\ up[Head(backlog)] # <<"rst">>
    /\ cur' = Head(backlog)
    /\ down' = [down EXCEPT ![cur'] = Append(@, "welcome")]
    /\ backlog' = Tail(backlog)
    /\ buff' = KeptBuffer
    /\ UNCHANGED <<up, split>>

AcceptThrows ==
    /\ server = "accept"
    /\ backlog # <<>>
    /\ up[Head(backlog)] = <<"rst">>
    /\ ServerEnds("dead")

Arrived(what) == up[cur] # <<>> /\ Head(up[cur]) \in what

(* Mutant: MSG_PEEK is left in the flags of recv().                        *)
Peeked == up[cur]

Taken == Tail(up[cur])

(* The parts of a block are judged as a message each: the first begins as  *)
(* the text does, the second with whatever comes at that place, in the     *)
(* text or after its end, where the client has sent what it never wrote.   *)
Recv ==
    /\ ServerGoes("recv", "judge")
    /\ Arrived(Message)
    /\ buff' = Head(up[cur])
    /\ \/ up' = [up EXCEPT ![cur] = Taken] /\ UNCHANGED split
       \/ /\ buff' = "text" /\ MayComeInParts(cur)
          /\ \E rest \in Message : up' = [up EXCEPT ![cur] = <<rest>> \o Tail(@)]
    /\ UNCHANGED <<backlog, cur, down>>

(* recv() returns 0 at the end of the stream, which is not SOCKET_ERROR,   *)
(* so the buffer is judged again as the last message left it.              *)
RecvEndOfStream ==
    /\ ServerGoes("recv", "judge")
    /\ Arrived({"fin"})
    /\ UNCHANGED <<backlog, cur, buff, up, down, split>>

RecvThrows == server = "recv" /\ Arrived({"rst"}) /\ ServerEnds("dead")

(* strcmp(serv_buff, "") == 0: both sockets are closed and the server ends. *)
Shutdown == server = "judge" /\ buff = "empty" /\ ServerEnds("off")

(* Mutant: continue instead of break.                                      *)
SameClient == "recv"

(* Where the break of the inner loop leads.                                *)
OtherClient == "accept"

(* strcmp(serv_buff, "z") == 0: this client is done, on to the next.  The  *)
(* connection ends in order, or by a reset if a message is left unread,    *)
(* as one may be of a client with a block in parts.                        *)
NextClient ==
    /\ ServerGoes("judge", OtherClient)
    /\ buff = "z"
    /\ \E end \in {"fin", "rst"} :
          /\ end = "rst" => Message \cap Range(up[cur]) # {}
          /\ down' = [down EXCEPT ![cur] = Append(@, end)]
    /\ UNCHANGED <<backlog, cur, buff, up, split>>

(* Mutants: the message is printed but not sent back; it is sent twice.    *)
NotEchoed == <<>>
EchoedTwice == <<"echo", "echo">>

(* What one send() of the buffer puts on the stream.                       *)
Echoed == <<"echo">>

(* The buffer goes back.  A client that has closed answers it by a reset.  *)
Echo ==
    /\ ServerGoes("judge", "recv")
    /\ buff = "text"
    /\ up[cur] # <<"rst">>
    /\ IF Contains(up[cur], "fin")
         THEN up' = [up EXCEPT ![cur] = <<"rst">>] /\ UNCHANGED down
         ELSE down' = [down EXCEPT ![cur] = @ \o Echoed] /\ UNCHANGED up
    /\ UNCHANGED <<backlog, cur, buff, split>>

EchoThrows ==
    server = "judge" /\ buff = "text" /\ up[cur] = <<"rst">> /\ ServerEnds("dead")

Kill == "kill" \in Faults /\ server \notin Over /\ ServerEnds("dead")

Server ==
    \/ Boot \/ BootFails \/ Accept \/ AcceptThrows
    \/ Recv \/ RecvEndOfStream \/ RecvThrows
    \/ Shutdown \/ NextClient \/ Echo \/ EchoThrows

-----------------------------------------------------------------------------
(* ClientT.                                                                *)
Goes(c, from, to) ==
    /\ client[c] = from
    /\ client' = [client EXCEPT ![c] = to]
    /\ UNCHANGED <<server, cur, buff>>

Connect(c) ==
    /\ server \notin Over \cup {"boot"}
    /\ Goes(c, "idle", "greet")
    /\ backlog' = Append(backlog, c)
    /\ UNCHANGED <<left, up, down, split>>

ConnectThrows(c) ==
    /\ server \in Over \cup {"boot"}
    /\ Goes(c, "idle", "refused")
    /\ UNCHANGED <<backlog, left, up, down, split>>

(* The first recv(), whose result is not looked at.  What is left of the   *)
(* server's block passes for the reply to the first message.               *)
Greet(c) ==
    /\ Goes(c, "greet", "prompt")
    /\ down[c] # <<>>
    /\ \/ /\ down' = [down EXCEPT ![c] = IF Head(@) = "welcome" THEN Tail(@) ELSE @]
          /\ UNCHANGED split
       \/ /\ Head(down[c]) = "welcome" /\ MayComeInParts(c)
          /\ down' = [down EXCEPT ![c] = <<"echo">> \o Tail(@)]
    /\ UNCHANGED <<backlog, left, up>>

(* The process ends as soon as it has sent "" or "z", without closesocket: *)
(* its connection ends in order, or by a reset that overtakes what is      *)
(* still to be received.                                                   *)
EndOf(c, last) ==
    /\ \/ up' = [up EXCEPT ![c] = @ \o last \o <<"fin">>]
       \/ "abort" \in Faults /\ up' = [up EXCEPT ![c] = <<"rst">>]
    /\ UNCHANGED <<backlog, left, down, split>>

Quit(c) == Goes(c, "prompt", "quit") /\ EndOf(c, <<"empty">>)

Leave(c) == Goes(c, "prompt", "left") /\ EndOf(c, <<"z">>)

Order(c) ==
    /\ Goes(c, "prompt", "send")
    /\ \E count \in 1..MaxCount : left' = [left EXCEPT ![c] = count]
    /\ UNCHANGED <<backlog, up, down, split>>

(* A block of 255 bytes.  If the server has closed the connection its      *)
(* system answers by a reset, which the client's recv() sees before or     *)
(* after the end of the stream.                                            *)
Send(c) ==
    /\ Goes(c, "send", "await")
    /\ ~Contains(down[c], "rst")
    /\ up' = [up EXCEPT ![c] = Append(@, "text")]
    /\ \/ UNCHANGED down
       \/ Contains(down[c], "fin") /\ down' = [down EXCEPT ![c] = <<"rst">>]
    /\ UNCHANGED <<backlog, left, split>>

SendThrows(c) ==
    /\ Goes(c, "send", "dead")
    /\ Contains(down[c], "rst")
    /\ UNCHANGED <<backlog, left, up, down, split>>

(* Mutant: i <= count.                                                     *)
MorePastCount(c) == left[c] > 0

(* i < count, after i++.                                                   *)
More(c) == left[c] > 1

(* The reply, or a part of it, or 0 at the end of the stream, which passes *)
(* for a reply.                                                            *)
Reply(c) ==
    /\ Goes(c, "await", IF More(c) THEN "send" ELSE "prompt")
    /\ down[c] # <<>>
    /\ Head(down[c]) # "rst"
    /\ left' = [left EXCEPT ![c] = @ - 1]
    /\ \/ /\ down' = [down EXCEPT ![c] = IF Head(@) = "fin" THEN <<"rst">> ELSE Tail(@)]
          /\ UNCHANGED split
       \/ Head(down[c]) = "echo" /\ MayComeInParts(c) /\ UNCHANGED down
    /\ UNCHANGED <<backlog, up>>

ReplyThrows(c) ==
    /\ Goes(c, "await", "dead")
    /\ down[c] # <<>>
    /\ Head(down[c]) = "rst"
    /\ UNCHANGED <<backlog, left, up, down, split>>

Crash(c) ==
    /\ "crash" \in Faults
    /\ client[c] \in Connected
    /\ Goes(c, client[c], "killed")
    /\ EndOf(c, <<>>)

Works(c) ==
    \/ Greet(c) \/ Send(c) \/ SendThrows(c) \/ Reply(c) \/ ReplyThrows(c)

User(c) == Connect(c) \/ ConnectThrows(c) \/ Quit(c) \/ Leave(c) \/ Order(c)

Next == Server \/ Kill \/ \E c \in Clients : Works(c) \/ User(c) \/ Crash(c)

Spec == Init /\ [][Next]_vars

(* The processes run; a user who is asked again and again says z in time.  *)
FairSpec ==
    /\ Spec
    /\ WF_vars(Server)
    /\ \A c \in Clients : WF_vars(Works(c)) /\ SF_vars(Leave(c))

-----------------------------------------------------------------------------
Admitted(c) ==
    /\ client[c] \in Connected /\ c \notin split
    /\ c = cur /\ server \in {"recv", "judge"}

(* A client's phase in the echo service, which ends with the first block   *)
(* that comes in parts.                                                    *)
Phase(c) ==
    IF client[c] \in Connected /\ c \in Range(backlog) THEN "queued"
    ELSE IF ~Admitted(c) THEN "out"
    ELSE IF Contains(down[c], "echo") THEN "answered"
    ELSE IF client[c] = "await" THEN "asked" ELSE "ready"

Service == INSTANCE EchoService WITH phase <- [c \in Clients |-> Phase(c)]

(* The pair of programs implements the echo service, for every client      *)
(* until a block of its own comes in parts.                                *)
ImplementsService == Service!EchoSpec

Places(seq, what) == {n \in DOMAIN seq : seq[n] = what}

InHand(c) == c = cur /\ server = "judge" /\ buff = "text"

InFlight(c) ==
    Cardinality(Places(up[c], "text")) + Cardinality(Places(down[c], "echo"))
      + (IF InHand(c) THEN 1 ELSE 0)

(* While both ends live, a client that awaits a reply has exactly one      *)
(* message on the way, in one of the three places it can be, and any other *)
(* client has none.  A block that comes in parts adds to what is on the    *)
(* way and never takes from it, so that nobody waits for nothing.          *)
EchoedOnce ==
    server \notin Over =>
        \A c \in Clients :
            client[c] \in Connected =>
                LET due == IF client[c] = "await" THEN 1 ELSE 0
                IN  IF c \in split THEN InFlight(c) >= due ELSE InFlight(c) = due

(* The server switches itself off because a client's user has said so,     *)
(* because the second part of a block begins with a zero, or because a     *)
(* client is killed before the first message of all: after a z the buffer  *)
(* it judges again is not empty.                                           *)
OffHasCause ==
    [][server' = "off" /\ server # "off" =>
          \/ client[cur] = "quit"
          \/ cur \in split
          \/ client[cur] = "killed" /\ \A c \in Clients : client[c] # "left"]_vars

(* A client in the queue is greeted, when those before it have left, or it *)
(* is told that the server has ended.                                      *)
QueueMoves == \A c \in Clients : client[c] = "greet" ~> client[c] # "greet"

(* An order of messages comes to its end, or the connection does.          *)
OrderEnds ==
    \A c \in Clients : client[c] = "send" ~> client[c] \notin {"send", "await"}

=============================================================================
