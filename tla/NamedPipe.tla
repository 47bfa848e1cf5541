----------------------------- MODULE NamedPipe -----------------------------
(***************************************************************************)
(* lab6: ServerNP and its clients ClientNP, ClientNPt and ClientNPct over  *)
(* the one instance of the pipe Tube.  The pipe has no buffers (both sizes *)
(* are 0), so WriteFile returns when the other end has read the data.      *)
(***************************************************************************)
EXTENDS Naturals, FiniteSets

CONSTANTS
    Clients,    \* the client processes
    Kind,       \* Kind[c]: the program c runs
    NoClient,   \* the pipe has no client
    MaxCount,   \* the largest number of messages a user asks for
    Faults      \* "crash": a client is killed; "kill": the server is killed;
                \* "create": CreateNamedPipe fails

ASSUME PipeAssumption ==
    /\ NoClient \notin Clients
    /\ Kind \in [Clients -> {"ClientNP", "ClientNPt", "ClientNPct"}]
    /\ MaxCount \in Nat
    /\ Faults \subseteq {"crash", "kill", "create"}

VARIABLES
    server,   \* where ServerNP is
    is_work,
    buf,      \* what ServerNP's buf holds
    pipe,     \* the state of the instance
    peer,     \* the client whose handle the instance is or was connected to
    req,      \* what a client's WriteFile waits for the server to read
    rep,      \* what the server's WriteFile waits for the client to read
    client,   \* client[c]: where the client program c is
    left      \* left[c]: messages c has still to send

vars == <<server, is_work, buf, pipe, peer, req, rep, client, left>>
instance == <<pipe, peer, req, rep>>

Over == {"off", "dead"}
Messages == {"text", "ClientNPct"}
Ended == {"done", "dead"}

TypeOK ==
    /\ server \in {"boot", "connect", "connecting", "read", "write", "writing",
                   "disconnect"} \cup Over
    /\ is_work \in BOOLEAN
    /\ buf \in Messages \cup {"none", "STOP", "EXIT"}
    /\ pipe \in {"none", "listening", "connected", "closing", "disconnected"}
    /\ peer \in Clients \cup {NoClient}
    /\ req \in Messages \cup {"none", "STOP", "EXIT"}
    /\ rep \in Messages \cup {"none"}
    /\ client \in [Clients -> {"idle", "mode", "prompt", "send", "await", "ask",
                               "last", "close", "call", "wait", "retry"} \cup Ended]
    /\ left \in [Clients -> 0..MaxCount]

Init ==
    /\ server = "boot"
    /\ is_work = TRUE
    /\ buf = "none"
    /\ pipe = "none"
    /\ peer = NoClient
    /\ req = "none"
    /\ rep = "none"
    /\ client = [c \in Clients |-> IF Kind[c] = "ClientNPct" THEN "prompt"
                                                             ELSE "idle"]
    /\ left = [c \in Clients |-> 0]

-----------------------------------------------------------------------------
(* ServerNP.                                                               *)
ServerGoes(from, to) ==
    /\ server = from
    /\ server' = to
    /\ UNCHANGED left

(* What the instance held, and who had it, is gone.                        *)
InstanceIs(state) ==
    /\ pipe' = state
    /\ peer' = NoClient
    /\ req' = "none"
    /\ rep' = "none"

(* The instance goes with the process that has created it.                 *)
ServerEnds(how) ==
    /\ ServerGoes(server, how)
    /\ InstanceIs("none")
    /\ UNCHANGED <<is_work, buf, client>>

Create ==
    /\ ServerGoes("boot", "connect")
    /\ pipe' = "listening"
    /\ UNCHANGED <<is_work, buf, peer, req, rep, client>>

CreateThrows == server = "boot" /\ "create" \in Faults /\ ServerEnds("dead")

(* ConnectNamedPipe is called ...                                          *)
Connect ==
    /\ ServerGoes("connect", "connecting")
    /\ pipe \in {"listening", "disconnected"}
    /\ pipe' = "listening"
    /\ UNCHANGED <<is_work, buf, peer, req, rep, client>>

(* ... and fails (ERROR_PIPE_CONNECTED, ERROR_NO_DATA) if a client was     *)
(* quicker.                                                                *)
ConnectThrows ==
    server = "connect" /\ pipe \in {"connected", "closing"} /\ ServerEnds("dead")

Connected ==
    /\ ServerGoes("connecting", "read")
    /\ pipe \in {"connected", "closing"}
    /\ UNCHANGED <<is_work, buf, instance, client>>

(* ReadFile lets the client's last WriteFile return, as the messages' do.  *)
Released == [c \in Clients |->
               IF c = peer /\ client[c] = "last" THEN "close" ELSE client[c]]

(* Mutant: PeekNamedPipe, which leaves the message in the pipe.            *)
Peeked == req

(* What ReadFile leaves in the pipe.                                       *)
Emptied == "none"

(* Mutant: is_work is not cleared by EXIT.                                 *)
AlwaysWorks == TRUE

StillWorks == req # "EXIT"

Read ==
    /\ ServerGoes("read", IF req \in {"STOP", "EXIT"} THEN "disconnect" ELSE "write")
    /\ req # "none"
    /\ buf' = req
    /\ req' = Emptied
    /\ is_work' = StillWorks
    /\ client' = Released
    /\ UNCHANGED <<pipe, peer, rep>>

ReadThrows ==
    server = "read" /\ pipe = "closing" /\ req = "none" /\ ServerEnds("dead")

(* Mutant: the message is printed but not sent back.                       *)
NotSentBack == "none"

SentBack == buf

Write ==
    /\ ServerGoes("write", "writing")
    /\ pipe = "connected"
    /\ rep' = SentBack
    /\ UNCHANGED <<is_work, buf, pipe, peer, req, client>>

WriteThrows ==
    /\ pipe = "closing"
    /\ server = "write" \/ (server = "writing" /\ rep # "none")
    /\ ServerEnds("dead")

(* Mutant: the pipe has buffers, so WriteFile does not wait.               *)
Buffered == TRUE

(* WriteFile returns when the client has read.                             *)
Received == rep = "none"

Written ==
    /\ ServerGoes("writing", IF buf = "ClientNPct" THEN "disconnect" ELSE "read")
    /\ Received
    /\ UNCHANGED <<is_work, buf, instance, client>>

(* DisconnectNamedPipe drops what is still in the pipe.                    *)
Disconnect ==
    /\ ServerGoes("disconnect", "connect")
    /\ is_work
    /\ InstanceIs("disconnected")
    /\ UNCHANGED <<is_work, buf, client>>

DisconnectLast == server = "disconnect" /\ ~is_work /\ ServerEnds("off")

Server ==
    \/ Create \/ CreateThrows \/ Connect \/ ConnectThrows \/ Connected
    \/ Read \/ ReadThrows \/ Write \/ WriteThrows \/ Written
    \/ Disconnect \/ DisconnectLast

Kill == "kill" \in Faults /\ server \notin Over /\ ServerEnds("dead")

-----------------------------------------------------------------------------
(* The clients.                                                            *)
Mine(c) == peer = c /\ pipe = "connected"

Goes(c, from, to) ==
    /\ client[c] = from
    /\ client' = [client EXCEPT ![c] = to]
    /\ UNCHANGED <<server, is_work, buf>>

Message(c) == IF Kind[c] = "ClientNPct" THEN "ClientNPct" ELSE "text"

(* Where c goes when it has n messages to send.                            *)
Step(c, n) ==
    IF Kind[c] = "ClientNPct" THEN IF n = 0 THEN "done" ELSE "call"
                              ELSE IF n = 0 THEN "ask" ELSE "send"

Throws(c) == Goes(c, client[c], "dead") /\ UNCHANGED <<instance, left>>

(* The client has the instance from now on.                                *)
Takes(c) ==
    /\ pipe = "listening"
    /\ pipe' = "connected"
    /\ peer' = c
    /\ UNCHANGED <<rep, left>>

(* CreateFile; it does not wait for the instance.                          *)
Open(c) ==
    /\ Goes(c, "idle", IF Kind[c] = "ClientNPt" THEN "mode" ELSE "prompt")
    /\ Takes(c)
    /\ UNCHANGED req

OpenThrows(c) == client[c] = "idle" /\ pipe # "listening" /\ Throws(c)

SetMode(c) == Mine(c) /\ Goes(c, "mode", "prompt") /\ UNCHANGED <<instance, left>>

(* The user enters a number of messages.                                   *)
Order(c) ==
    /\ \E n \in 0..MaxCount :
          /\ Goes(c, "prompt", Step(c, n))
          /\ left' = [left EXCEPT ![c] = n]
    /\ UNCHANGED instance

(* WriteFile and ReadFile, or TransactNamedPipe.                           *)
Send(c) ==
    /\ Goes(c, "send", "await")
    /\ Mine(c)
    /\ req' = Message(c)
    /\ UNCHANGED <<pipe, peer, rep, left>>

(* Mutant: i <= messages_count.                                            *)
LeftPastCount(c) == left[c]

(* How many messages are left for the loop when this one is answered.      *)
LeftAfter(c) == left[c] - 1

Reply(c) ==
    /\ Goes(c, "await", Step(c, LeftAfter(c)))
    /\ Mine(c)
    /\ rep # "none"
    /\ rep' = "none"
    /\ left' = [left EXCEPT ![c] = @ - 1]
    /\ pipe' = IF Kind[c] = "ClientNPct" THEN "closing" ELSE pipe
    /\ UNCHANGED <<peer, req>>

(* Each of these calls fails when the other end has gone.                  *)
PipeBreaks(c) ==
    /\ client[c] \in {"mode", "send", "await", "ask", "last"}
    /\ ~Mine(c)
    /\ Throws(c)

Last(c) ==
    /\ Goes(c, "ask", "last")
    /\ Mine(c)
    /\ req' \in {"STOP", "EXIT"}
    /\ UNCHANGED <<pipe, peer, rep, left>>

Close(c) ==
    /\ Goes(c, "close", "done")
    /\ pipe' = IF Mine(c) THEN "closing" ELSE pipe
    /\ UNCHANGED <<peer, req, rep, left>>

(* CallNamedPipe opens the pipe, transacts a message and closes it.  If    *)
(* the pipe cannot be opened it waits for it and tries once more.          *)
Call(c) ==
    /\ Goes(c, "call", "await") \/ Goes(c, "retry", "await")
    /\ Takes(c)
    /\ req' = Message(c)

CallWaits(c) ==
    pipe # "listening" /\ Goes(c, "call", "wait") /\ UNCHANGED <<instance, left>>

CallWakes(c) ==
    /\ pipe \in {"listening", "none"}
    /\ Goes(c, "wait", "retry")
    /\ UNCHANGED <<instance, left>>

CallThrows(c) == client[c] = "retry" /\ pipe # "listening" /\ Throws(c)

(* A client is killed: its handle is closed, its WriteFile given up.       *)
Crash(c) ==
    /\ "crash" \in Faults
    /\ client[c] \notin Ended
    /\ Goes(c, client[c], "dead")
    /\ pipe' = IF Mine(c) THEN "closing" ELSE pipe
    /\ req' = IF Mine(c) THEN "none" ELSE req
    /\ UNCHANGED <<peer, rep, left>>

Works(c) ==
    \/ SetMode(c) \/ Send(c) \/ Reply(c) \/ PipeBreaks(c) \/ Close(c)
    \/ Call(c) \/ CallWaits(c) \/ CallWakes(c) \/ CallThrows(c)

User(c) == Order(c) \/ Last(c)

Next ==
    \/ Server \/ Kill
    \/ \E c \in Clients :
          Works(c) \/ User(c) \/ Open(c) \/ OpenThrows(c) \/ Crash(c)

Spec == Init /\ [][Next]_vars

(* The processes run, and a user answers the question of a program.        *)
FairSpec ==
    /\ Spec
    /\ WF_vars(Server)
    /\ \A c \in Clients : WF_vars(Works(c) \/ User(c))

-----------------------------------------------------------------------------
(* A client's phase in the echo service.                                   *)
Phase(c) ==
    IF ~Mine(c) \/ client[c] \in {"last", "close"} THEN "out"
    ELSE IF server \in {"connect", "connecting"}    THEN "queued"
    ELSE IF rep # "none"                            THEN "answered"
    ELSE IF req # "none" \/ server = "write"        THEN "asked"
                                                    ELSE "ready"

Service == INSTANCE EchoService WITH phase <- [c \in Clients |-> Phase(c)]

(* The programs implement the echo service.                                *)
ImplementsService == Service!EchoSpec

(* DisconnectNamedPipe never drops a reply the client has not read, or a   *)
(* message the server has not.                                             *)
NothingDiscarded == server = "disconnect" => (req = "none" /\ rep = "none")

(* A program that has sent a message, or waits for the pipe, does not wait *)
(* for ever.                                                               *)
CallersServed ==
    \A c \in Clients :
        client[c] \in {"await", "wait"} ~> client[c] \notin {"await", "wait"}

(* EXIT ends the server.                                                   *)
ExitObeyed == req = "EXIT" ~> server \in Over

-----------------------------------------------------------------------------
(* Guide, chapter 7, task 5 of the practical on named pipes: the programs  *)
(* interact as ServerT and ClientT do in tasks 14 and 15 of practical 2:   *)
(* a message that is sent is sent back.                                    *)
SentIsAnswered ==
    \A c \in Clients :
        client[c] = "await" ~> client[c] \notin {"await", "dead"}

=============================================================================
