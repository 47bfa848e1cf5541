--------------------------- MODULE Concurent_Server ---------------------------
(***************************************************************************)
(* lab8/Concurent_Server: the other concurrent server.  Its accept thread  *)
(* has no catch, so whatever one of its calls throws ends the process; its *)
(* dispatcher walks the whole list, round after round, but obeys a copy of *)
(* the command that it takes once, when it starts.                         *)
(***************************************************************************)
EXTENDS ContactList

CONSTANTS
    AS_SQ,            \* how many accept() calls one accept_cycle may make
    ConsoleCommands,  \* what a console, not written yet, may store in cmd
    Faults            \* calls that may fail: "thread", "winsock", "reset"

TalkersCommand == {"START", "STOP", "EXIT", "STATISTICS", "WAIT", "SHUTDOWN",
                   "GETCOMMAND", "LOAD_LIB", "UNLOAD_LIB"}

ASSUME ServerAssumption ==
    /\ AS_SQ \in Nat \ {0}
    /\ ConsoleCommands \subseteq TalkersCommand
    /\ Faults \subseteq {"thread", "winsock", "reset"}

VARIABLES
    main,    \* the main thread: "boot", "spawned", "dispatcher" or "accepter"
             \* while it waits for one, "returned", "aborted"
    cmd,     \* the command, in main's frame and shared by all threads
    acc,     \* where the accept thread is
    squirt,  \* command_cycle's count of accept() calls to make
    tries,   \* accept_cycle's copy of it, counted down
    disp,    \* where the dispatcher is: "none", "copy", "scan", "returned"
    at       \* the node it is about to visit, end before begin()

accvars == <<acc, squirt, tries>>
dispvars == <<disp, at>>
vars == <<netvars, listvars, main, cmd, accvars, dispvars>>

AcceptThread == {"none", "startup", "loop", "switch", "start", "open", "stop",
                 "close", "accept", "push", "reply", "cleanup", "returned"}

TypeOK ==
    /\ ListTypeOK
    /\ main \in {"boot", "spawned", "dispatcher", "accepter", "returned",
                 "aborted"}
    /\ cmd \in TalkersCommand
    /\ acc \in AcceptThread
    /\ squirt \in {0, AS_SQ}
    /\ tries \in 0..AS_SQ
    /\ disp \in {"none", "copy", "scan", "returned"}
    /\ at \in 0..Len(contacts)

Init ==
    /\ ListInit
    /\ main = "boot"
    /\ cmd = "START"
    /\ acc = "none"
    /\ squirt = 0
    /\ tries = 0
    /\ disp = "none"
    /\ at = end

-----------------------------------------------------------------------------
(* A process that has ended takes its threads and its sockets with it.     *)
Alive == main \notin {"returned", "aborted"}

ProcessEnds(how) ==
    /\ main' = how
    /\ listener' = "closed"
    /\ DropQueued
    /\ held' = {}
    /\ UNCHANGED <<contacts, cmd, accvars, dispvars>>

(* Nobody catches: std::terminate.                                         *)
Throws == ProcessEnds("aborted")

(* main checks no handle: after a CreateThread that failed there is one    *)
(* thread less, and waiting for its null handle returns at once.           *)
CreateAcceptThread ==
    /\ main = "boot"
    /\ main' = "spawned"
    /\ acc' \in {"startup"} \cup (IF "thread" \in Faults THEN {"none"} ELSE {})
    /\ UNCHANGED <<netvars, listvars, cmd, squirt, tries, dispvars>>

CreateDispatchThread ==
    /\ main = "spawned"
    /\ main' = "dispatcher"
    /\ disp' \in {"copy"} \cup (IF "thread" \in Faults THEN {"none"} ELSE {})
    /\ UNCHANGED <<netvars, listvars, cmd, accvars, at>>

(* Mutant: main waits for the accept thread only.                          *)
NotJoined == TRUE

DispatcherEnded == disp \in {"none", "returned"}

JoinDispatcher ==
    /\ main = "dispatcher" /\ DispatcherEnded
    /\ main' = "accepter"
    /\ UNCHANGED <<netvars, listvars, cmd, accvars, dispvars>>

(* Mutant: main does not wait for the accept thread.                       *)
AccepterNotJoined == TRUE

AccepterEnded == acc \in {"none", "returned"}

JoinAccepter ==
    /\ main = "accepter" /\ AccepterEnded
    /\ ProcessEnds("returned")

Main == CreateAcceptThread \/ CreateDispatchThread
            \/ JoinDispatcher \/ JoinAccepter

-----------------------------------------------------------------------------
AccAt(place) == Alive /\ acc = place

(* A step of the accept thread that only moves it on.                      *)
AccGoes(from, to) ==
    /\ AccAt(from)
    /\ acc' = to
    /\ UNCHANGED <<netvars, listvars, main, cmd, squirt, tries, dispvars>>

WSAStartup == AccGoes("startup", "loop")

WSAStartupFails == AccAt("startup") /\ "winsock" \in Faults /\ Throws

LoopTest == AccGoes("loop", IF cmd = "EXIT" THEN "cleanup" ELSE "switch")

Switch ==
    \/ cmd = "START" /\ AccGoes("switch", "start")
    \/ cmd = "STOP" /\ AccGoes("switch", "stop")
    \/ cmd \notin {"START", "STOP"} /\ AccAt("switch")
         /\ acc' = "accept"
         /\ tries' = squirt
         /\ UNCHANGED <<netvars, listvars, main, cmd, squirt, dispvars>>

(* Both commands are cleared before they are carried out.                  *)
Start ==
    /\ AccAt("start")
    /\ cmd' = "GETCOMMAND"
    /\ squirt' = AS_SQ
    /\ acc' = "open"
    /\ UNCHANGED <<netvars, listvars, main, tries, dispvars>>

OpenSocket ==
    /\ AccAt("open")
    /\ listener # "listening"
    /\ listener' = "listening"
    /\ acc' = "accept"
    /\ tries' = squirt
    /\ UNCHANGED <<backlog, conn, listvars, main, cmd, squirt, dispvars>>

(* bind() fails with WSAEADDRINUSE while the socket of an earlier START is *)
(* open, and any of the four calls may fail by itself.                     *)
OpenSocketFails ==
    /\ AccAt("open")
    /\ listener = "listening" \/ "winsock" \in Faults
    /\ Throws

(* Mutant: STOP leaves the count of tries.                                 *)
CountKept == squirt

StoppedCount == 0

Stop ==
    /\ AccAt("stop")
    /\ cmd' = "GETCOMMAND"
    /\ squirt' = StoppedCount
    /\ acc' = "close"
    /\ UNCHANGED <<netvars, listvars, main, tries, dispvars>>

CloseSocket ==
    /\ AccAt("close")
    /\ listener = "listening"
    /\ listener' = "closed"
    /\ DropQueued
    /\ acc' = "accept"
    /\ tries' = squirt
    /\ UNCHANGED <<listvars, main, cmd, squirt, dispvars>>

CloseSocketFails == AccAt("close") /\ listener # "listening" /\ Throws

(* accept_cycle, as in the other server but for what a failure does.       *)
(* Mutant: the loop tests the count after the decrement.                   *)
PastZero == tries >= 0

TriesLeft == tries > 0

(* Mutant: accept_cycle takes sq by reference and counts it down for good. *)
CountedDown == tries - 1

CountAfterTry == squirt

AcceptGivesUp == ~TriesLeft /\ AccGoes("accept", "loop")

AcceptNothing ==
    /\ AccAt("accept") /\ TriesLeft
    /\ AcceptWouldBlock
    /\ tries' = tries - 1
    /\ squirt' = CountAfterTry
    /\ UNCHANGED <<listvars, main, cmd, acc, dispvars>>

AcceptClient ==
    /\ AccAt("accept") /\ TriesLeft
    /\ \E c \in Clients : AcceptTakes(c)
    /\ acc' = "push"
    /\ UNCHANGED <<main, cmd, squirt, tries, dispvars>>

Push ==
    /\ AccAt("push")
    /\ \E c \in held : PushFront(c)
    /\ acc' = "reply"
    /\ UNCHANGED <<main, cmd, squirt, tries, dispvars>>

AcceptThrows ==
    /\ AccAt("accept") /\ TriesLeft
    /\ AcceptMustFail
    /\ Throws

Reply ==
    /\ AccAt("reply")
    /\ cmd' = "GETCOMMAND"
    /\ acc' = "loop"
    /\ UNCHANGED <<netvars, listvars, main, squirt, tries, dispvars>>

(* WSACleanup closes the sockets the thread leaves open.                   *)
WSACleanup ==
    /\ AccAt("cleanup")
    /\ listener' = IF listener = "none" THEN "none" ELSE "closed"
    /\ DropQueued
    /\ acc' = "returned"
    /\ UNCHANGED <<listvars, main, cmd, squirt, tries, dispvars>>

AcceptServer ==
    \/ WSAStartup \/ WSAStartupFails \/ LoopTest \/ Switch
    \/ Start \/ OpenSocket \/ OpenSocketFails
    \/ Stop \/ CloseSocket \/ CloseSocketFails
    \/ AcceptGivesUp \/ AcceptNothing \/ AcceptClient \/ Push \/ AcceptThrows
    \/ Reply \/ WSACleanup

-----------------------------------------------------------------------------
(* dispatch_server takes its own copy of cmd; `while (cmd != EXIT)' tests  *)
(* that copy, so it ends at once or never.                                 *)
CopyCommand ==
    /\ Alive
    /\ disp = "copy"
    /\ disp' = IF cmd = "EXIT" THEN "returned" ELSE "scan"
    /\ UNCHANGED <<netvars, listvars, main, cmd, accvars, at>>

(* contacts.begin(), read without the lock, may be any front the list has  *)
(* had; i++ goes from a node to the one pushed before it.                  *)
BeginAt(front) ==
    /\ Alive
    /\ disp = "scan"
    /\ at = end
    /\ at' = front
    /\ UNCHANGED <<netvars, listvars, main, cmd, accvars, disp>>

Begin == \E front \in 1..Len(contacts) : BeginAt(front)

BeginAtLatest == contacts # <<>> /\ BeginAt(Len(contacts))

(* Mutant: the loop does not advance, as the one in ConcurrentServer.      *)
AdvanceNowhere(node) == node

Advance(node) == node - 1

AtNode == Alive /\ disp = "scan" /\ at # end

(* Every contact the loop passes becomes CONTACT.  For one that was ACCEPT *)
(* recv() on its socket, 0, fails and leaves message[10] uninitialised;    *)
(* strcpy_s copies whatever is there ...                                   *)
Visit ==
    /\ AtNode
    /\ contacts' = [contacts EXCEPT ![at].type = "CONTACT"]
    /\ at' = Advance(at)
    /\ UNCHANGED <<netvars, held, main, cmd, accvars, disp>>

(* ... or, if it finds no terminator in time, ends the process.            *)
CopyOverruns ==
    /\ AtNode
    /\ contacts[at].type = "ACCEPT"
    /\ Throws

DispatchServer == CopyCommand \/ Begin \/ Visit \/ CopyOverruns

-----------------------------------------------------------------------------
Console ==
    /\ Alive
    /\ \E command \in ConsoleCommands : cmd' = command
    /\ UNCHANGED <<netvars, listvars, main, accvars, dispvars>>

Client(c) ==
    /\ \/ Connects(c)
       \/ IsRefused(c)
       \/ "reset" \in Faults /\ Resets(c)
    /\ UNCHANGED <<listvars, main, cmd, accvars, dispvars>>

Next ==
    \/ Main
    \/ AcceptServer
    \/ DispatchServer
    \/ Console
    \/ \E c \in Clients : Client(c)

Spec == Init /\ [][Next]_vars

(* The system runs every thread that can run, and the dispatcher, which    *)
(* reads begin() afresh in every round, does not always read an old one.   *)
Fairness ==
    /\ WF_vars(Main)
    /\ WF_vars(AcceptServer)
    /\ WF_vars(DispatchServer)
    /\ SF_vars(BeginAtLatest)

FairSpec == Spec /\ Fairness

-----------------------------------------------------------------------------
(* An accepted connection is in the list, once, but for the one             *)
(* accept_cycle is about to push, and a main that returns has waited for   *)
(* it.  A throw may lose that one: the dispatcher's copy of a message can  *)
(* overrun, and end the process, between accept() and push_front.          *)
AcceptedAreListed ==
    /\ ListMatches
    /\ held # {} => Alive /\ acc = "push"
    /\ Unlisted # held => main = "aborted"

(* accept() is only called on a socket that listens: STOP leaves no tries. *)
AcceptOnListening ==
    Alive /\ acc = "accept" /\ tries > 0 => listener = "listening"

(* The process only ever returns from main without having dispatched one   *)
(* client: a dispatcher that has found work never ends.                    *)
ReturnsUnused ==
    main \in {"accepter", "returned"} =>
        \A n \in DOMAIN contacts : contacts[n].type = "ACCEPT"

(* What the steps preserve together.                                       *)
SocketMatchesCount ==
    Alive /\ acc \notin {"open", "returned"} =>
        /\ squirt > 0 => listener = "listening"
        /\ acc = "accept" => tries <= squirt
        /\ acc = "close" => squirt = 0

DispatcherUnused ==
    /\ disp # "scan" => \A n \in DOMAIN contacts : contacts[n].type = "ACCEPT"
    /\ main \in {"boot", "spawned"} => disp = "none"
    /\ main \in {"accepter", "returned"} => disp \in {"none", "returned"}
    /\ main = "boot" => acc = "none" /\ squirt = 0

IndInv ==
    /\ TypeOK
    /\ AcceptedAreListed
    /\ SocketMatchesCount
    /\ DispatcherUnused

(* Each contact is dispatched, however new contacts are pushed in front of *)
(* the walk, unless copying its message ends the process.                  *)
ContactsDispatched ==
    \A n \in 1..Cardinality(Clients) :
        n \in DOMAIN contacts ~>
            (n \in DOMAIN contacts /\ contacts[n].type = "CONTACT") \/ ~Alive

(* A queued client is accepted and listed, unless the process ends: by an  *)
(* overrun of the dispatcher's, maybe when the client is accepted and not  *)
(* listed yet, or because the sockets nobody closes are used up.           *)
QueuedIsListed ==
    \A c \in Clients :
        conn[c] = "queued" ~> c \in Range(AddressesOf(contacts)) \/ ~Alive

=============================================================================
