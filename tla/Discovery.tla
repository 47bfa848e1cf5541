----------------------------- MODULE Discovery -----------------------------
(***************************************************************************)
(* lab4: servers that answer, on port 2000 of their hosts, whoever sends   *)
(* them the call sign.  ServerB first broadcasts it too, to find out       *)
(* whether there is another server with that call sign; ClientB broadcasts *)
(* it, and takes the first answer; ClientC sends it to one host, known by  *)
(* name.  Each of them waits for its answer without a time limit, over UDP *)
(* sockets: a call sign may reach some of the servers only, because one is *)
(* lost or finds a full buffer, and an answer may be lost.                 *)
(***************************************************************************)
EXTENDS Naturals, Sequences, FiniteSets, Functions

CONSTANTS
    Servers,  \* the ServerB processes
    Hosts,    \* the hosts they may run on
    Askers,   \* the ClientB processes
    Callers,  \* the ClientC processes
    Named,    \* the host that ClientC asks
    Nobody,   \* the sender of no call sign
    Faults    \* "check": a call in check_server fails; "kill": a server ends
              \* at once, killed or because another call fails; "crash": a
              \* client does; "loss": the network loses a datagram

Clients == Askers \cup Callers
Parties == Servers \cup Clients

ASSUME DiscoveryAssumption ==
    /\ Servers \cap Clients = {} /\ Askers \cap Callers = {}
    /\ Nobody \notin Parties /\ "unreach" \notin Servers
    /\ Named \in Hosts
    /\ Faults \subseteq {"check", "kill", "crash", "loss"}

VARIABLES
    host,    \* host[s]: the host that s runs on, which does not change
    server,  \* server[s]: where ServerB s is
    failed,  \* the servers whose check_server caught an error and did not
             \* close its socket
    inbox,   \* inbox[s]: who sent s a call sign that s has not read
    clnt,    \* clnt[s]: the sender of the call sign that s is to answer
    reset,   \* the servers whose socket has a WSAECONNRESET to report
    client,  \* client[c]: where client c is
    mail,    \* mail[p]: what has come back to p's own socket
    lost     \* <<s, p>> for each answer of s to p that the network lost,
             \* which no process sees

vars == <<host, server, failed, inbox, clnt, reset, client, mail, lost>>

Init ==
    /\ host \in [Servers -> Hosts]
    /\ server = [s \in Servers |-> "check"]
    /\ failed = {}
    /\ inbox = [s \in Servers |-> <<>>]
    /\ clnt = [s \in Servers |-> Nobody]
    /\ reset = {}
    /\ client = [c \in Clients |-> "idle"]
    /\ mail = [p \in Parties |-> <<>>]
    /\ lost = {}

-----------------------------------------------------------------------------
(* The network.                                                            *)
Bound(s) == server[s] \in {"recv", "answer"}

(* p waits for an answer at the socket it has asked with.                  *)
Waits(p) == IF p \in Servers THEN server[p] = "wait" ELSE client[p] = "wait"

(* A socket that is closed, or that nobody reads, holds nothing.           *)
TypeOK ==
    /\ host \in [Servers -> Hosts]
    /\ server \in [Servers -> {"check", "wait", "bind", "recv", "answer", "dead"}]
    /\ failed \subseteq Servers
    /\ inbox \in [Servers -> Seq(Parties)]
    /\ clnt \in [Servers -> Parties \cup {Nobody}]
    /\ reset \subseteq Servers
    /\ client \in [Clients -> {"idle", "wait", "gone", "dead"}]
    /\ mail \in [Parties -> Seq(Servers \cup {"unreach"})]
    /\ lost \subseteq Servers \X Parties
    /\ \A s \in Servers : ~Bound(s) => inbox[s] = <<>>
    /\ \A p \in Parties : ~Waits(p) => mail[p] = <<>>

(* A datagram to p's socket finds it there, although nobody may read it.   *)
Reachable(p) == Waits(p) \/ (p \in failed /\ server[p] # "dead")

(* The call sign of p, on its way to some servers, reaches all of them but *)
(* where it is lost or the receive buffer is full.                         *)
Reaches(p, all) ==
    \E there \in SUBSET all :
        /\ there = all \/ "loss" \in Faults
        /\ inbox' = [s \in Servers |->
                        IF s \in there THEN Append(inbox[s], p) ELSE inbox[s]]
        /\ UNCHANGED mail

(* A broadcast goes to every bound socket, and no ICMP message answers it. *)
Broadcast(p) == Reaches(p, {s \in Servers : Bound(s)})

Unicast(p, to) ==
    LET there == {s \in Servers : Bound(s) /\ host[s] = to} IN
      \/ there # {} /\ Reaches(p, there)
      \/ /\ there = {}
         /\ mail' \in {mail, [mail EXCEPT ![p] = Append(@, "unreach")]}
         /\ UNCHANGED inbox

(* Mutant: recvfrom() does not wait.                                       *)
NotAwaited(p) == TRUE

(* recvfrom() returns.                                                     *)
Answered(p) == mail[p] # <<>>

(* Mutant: the socket stays open.                                          *)
SocketKept(p) == mail

(* What closesocket() does to the mail of p.                               *)
SocketClosed(p) == [mail EXCEPT ![p] = <<>>]

-----------------------------------------------------------------------------
(* ServerB.                                                                *)
ServerGoes(s, from, to) ==
    /\ server[s] = from
    /\ server' = [server EXCEPT ![s] = to]
    /\ UNCHANGED <<host, client>>

(* Its sockets are closed, and what they have received is dropped.         *)
ServerEnds(s) ==
    /\ ServerGoes(s, server[s], "dead")
    /\ inbox' = [inbox EXCEPT ![s] = <<>>]
    /\ mail' = SocketClosed(s)
    /\ reset' = reset \ {s}
    /\ clnt' = [clnt EXCEPT ![s] = Nobody]
    /\ UNCHANGED <<failed, lost>>

(* check_server as far as recvfrom().                                      *)
Check(s) ==
    /\ ServerGoes(s, "check", "wait")
    /\ Broadcast(s)
    /\ UNCHANGED <<failed, clnt, reset, lost>>

(* An answer is always the call sign, so "Found same server!!!" is printed *)
(* and main, which ignores the result, goes on.                            *)
CheckAnswered(s) ==
    /\ Answered(s)
    /\ ServerGoes(s, "wait", "bind")
    /\ mail' = SocketClosed(s)
    /\ UNCHANGED <<failed, inbox, clnt, reset, lost>>

(* The socket of the check is not closed, but nobody reads it again.       *)
CheckThrows(s) ==
    /\ "check" \in Faults
    /\ ServerGoes(s, server[s], "bind")
    /\ server[s] \in {"check", "wait"}
    /\ failed' = failed \cup {s}
    /\ mail' = [mail EXCEPT ![s] = <<>>]
    /\ UNCHANGED <<inbox, clnt, reset, lost>>

Bind(s) ==
    /\ \A t \in Servers : host[t] = host[s] => ~Bound(t)
    /\ ServerGoes(s, "bind", "recv")
    /\ UNCHANGED <<failed, inbox, clnt, reset, mail, lost>>

BindThrows(s) ==
    /\ server[s] = "bind"
    /\ \E t \in Servers : host[t] = host[s] /\ Bound(t)
    /\ ServerEnds(s)

(* Mutant: MSG_PEEK is left in the flags of recvfrom().                    *)
Peeked(s) == inbox[s]

Taken(s) == Tail(inbox[s])

(* get_request_from_client.  The clients send strlen(call) + 1 bytes, which*)
(* match.  A server sends sizeof(name) bytes, the size of a pointer: with  *)
(* four bytes the call sign lacks its last letter and its end, and what is *)
(* compared is whatever the buffer held before.                            *)
GetRequest(s) ==
    /\ inbox[s] # <<>>
    /\ \/ /\ ServerGoes(s, "recv", "answer")
          /\ clnt' = [clnt EXCEPT ![s] = Head(inbox[s])]
       \/ /\ Head(inbox[s]) \in Servers
          /\ ServerGoes(s, "recv", "recv")
          /\ UNCHANGED clnt
    /\ inbox' = [inbox EXCEPT ![s] = Taken(s)]
    /\ UNCHANGED <<failed, reset, mail, lost>>

(* Mutant: the call sign that matched is not answered.                     *)
NotSent(s) == <<>>

Sent(s) == <<s>>

(* put_answer_to_client: sendto() succeeds whether the answer arrives or   *)
(* is lost.  Where nobody has that socket any more an ICMP message comes   *)
(* back, unless a firewall keeps it.                                       *)
Arrives(s) ==
    /\ Waits(clnt[s])
    /\ mail' = [mail EXCEPT ![clnt[s]] = @ \o Sent(s)]
    /\ UNCHANGED <<reset, lost>>

IsLost(s) ==
    /\ "loss" \in Faults
    /\ Waits(clnt[s])
    /\ lost' = lost \cup {<<s, clnt[s]>>}
    /\ UNCHANGED <<reset, mail>>

FindsNobody(s) ==
    /\ ~Waits(clnt[s])
    /\ reset' \in {reset} \cup
                   (IF Reachable(clnt[s]) THEN {} ELSE {reset \cup {s}})
    /\ UNCHANGED <<mail, lost>>

PutAnswer(s) ==
    /\ ServerGoes(s, "answer", "recv")
    /\ Arrives(s) \/ IsLost(s) \/ FindsNobody(s)
    /\ clnt' = [clnt EXCEPT ![s] = Nobody]
    /\ UNCHANGED <<failed, inbox>>

(* recvfrom() or sendto() fails with the error of an earlier answer.       *)
Throws(s) == Bound(s) /\ s \in reset /\ ServerEnds(s)

Kill(s) == "kill" \in Faults /\ server[s] # "dead" /\ ServerEnds(s)

-----------------------------------------------------------------------------
(* ClientB and ClientC.                                                    *)
ClientGoes(c, from, to) ==
    /\ client[c] = from
    /\ client' = [client EXCEPT ![c] = to]
    /\ UNCHANGED <<host, server, failed, clnt, reset, lost>>

GetServer(c) == c \in Askers /\ ClientGoes(c, "idle", "wait") /\ Broadcast(c)

GetServerByName(c) ==
    c \in Callers /\ ClientGoes(c, "idle", "wait") /\ Unicast(c, Named)

(* The first answer is taken, and closesocket() drops the others.          *)
Receive(c) ==
    /\ c \in Askers /\ Answered(c)
    /\ ClientGoes(c, "wait", "gone")
    /\ mail' = SocketClosed(c)
    /\ UNCHANGED inbox

(* Only the call to a named host can have failed: nobody listens there.    *)
ReceiveByName(c) ==
    /\ c \in Callers /\ Answered(c)
    /\ ClientGoes(c, "wait", IF "unreach" \in Range(mail[c]) THEN "dead" ELSE "gone")
    /\ mail' = SocketClosed(c)
    /\ UNCHANGED inbox

Crash(c) ==
    /\ "crash" \in Faults
    /\ ClientGoes(c, "wait", "dead")
    /\ mail' = SocketClosed(c)
    /\ UNCHANGED inbox

Server(s) ==
    Check(s) \/ CheckAnswered(s) \/ Bind(s) \/ GetRequest(s) \/ PutAnswer(s)

Fails(s) ==
    CheckThrows(s) \/ BindThrows(s) \/ Throws(s) \/ Kill(s)

Next ==
    \/ \E s \in Servers : Server(s) \/ Fails(s)
    \/ \E c \in Clients :
          \/ GetServer(c) \/ GetServerByName(c)
          \/ Receive(c) \/ ReceiveByName(c) \/ Crash(c)

Spec == Init /\ [][Next]_vars

(* The processes run; nothing says when a client is started.               *)
FairSpec ==
    /\ Spec
    /\ \A s \in Servers : WF_vars(Server(s))
    /\ \A c \in Clients : WF_vars(Receive(c) \/ ReceiveByName(c))

-----------------------------------------------------------------------------
(* How far the search of a party is, and which servers may answer it.      *)
Phase(p) ==
    LET at == IF p \in Servers THEN server[p] ELSE client[p] IN
      IF at \in {"check", "idle"} THEN "silent"
      ELSE IF at = "wait"         THEN "asking"
      ELSE IF at = "dead"         THEN "over"
      ELSE IF p \in failed        THEN "failed"
                                  ELSE "found"

Heard(p) ==
    IF ~Waits(p) THEN {}
    ELSE {s \in Servers : p \in Range(inbox[s]) \/ clnt[s] = p \/ s \in Range(mail[p])}

Search == INSTANCE CallSign WITH
    phase <- [p \in Parties |-> Phase(p)],
    listening <- {s \in Servers : Bound(s)},
    heard <- [p \in Parties |-> Heard(p)],
    lost <- lost

(* The programs implement the call sign: who finds a server finds one that *)
(* was listening when he asked, and a client that has reached a server     *)
(* finds one if that goes on and its answer is not lost, whoever else asks *)
(* it and whatever else is lost.                                           *)
ImplementsCallSign == Search!CallSpec

(* Nobody has asked a server, or is answered by it, more than once, and    *)
(* nobody hears himself; so what a process waits for cannot be an answer   *)
(* to something else.                                                      *)
OneAnswerEach ==
    \A s \in Servers, p \in Parties :
        LET asked == {n \in DOMAIN inbox[s] : inbox[s][n] = p}
            inHand == IF server[s] = "answer" /\ clnt[s] = p THEN 1 ELSE 0
            answers == {n \in DOMAIN mail[p] : mail[p][n] = s}
        IN  Cardinality(asked) + inHand + Cardinality(answers)
              <= (IF p = s THEN 0 ELSE 1)

(* check_server returns only if a server that listens answers it, or by an *)
(* error; so the first server of a network listens, if ever, by an error.  *)
ListeningNeedsError == (\E s \in Servers : Bound(s)) => failed # {}

=============================================================================
