-------------------------- MODULE ConcurrentServer --------------------------
(***************************************************************************)
(* lab8/ConcurrentServer: main starts an accept thread, which obeys the    *)
(* command in cmd and accepts clients into a list of contacts, and a       *)
(* dispatcher, which takes contacts off that list's front to serve them.   *)
(***************************************************************************)
EXTENDS ContactList

CONSTANTS
    AS_SQ,            \* how many accept() calls one AcceptCycle may make
    ConsoleCommands,  \* what ConsolePipe, declared but not written, may store
    Faults            \* calls that may fail: "thread", "winsock", "reset"

TalkersCommand == {"START", "STOP", "EXIT", "STATISTICS", "WAIT", "SHUTDOWN",
                   "GETCOMMAND", "LOAD_LIB", "UNLOAD_LIB"}

ASSUME ServerAssumption ==
    /\ AS_SQ \in Nat \ {0}
    /\ ConsoleCommands \subseteq TalkersCommand
    /\ Faults \subseteq {"thread", "winsock", "reset"}

VARIABLES
    main,              \* the main thread: "boot", "spawned", "joining", "aborted"
    cmd,               \* the command, in main's frame and shared by all threads
    previous_command,  \* the last START carried out
    acc,               \* where the accept thread is
    sq,                \* CommandsCycle's count of accept() calls to make
    tries,             \* AcceptCycle's copy of it, counted down
    at,                \* the node the dispatcher stands on, end before begin()
    asleep             \* the dispatcher is about to call SleepEx

accvars == <<previous_command, acc, sq, tries>>
dispvars == <<at, asleep>>
vars == <<netvars, listvars, main, cmd, accvars, dispvars>>

AcceptThread == {"none", "startup", "loop", "switch", "start", "open", "stop",
                 "guard", "accept", "push", "reply", "cleanup", "exited",
                 "dead"}

TypeOK ==
    /\ ListTypeOK
    /\ main \in {"boot", "spawned", "joining", "aborted"}
    /\ cmd \in TalkersCommand
    /\ previous_command \in {"GETCOMMAND", "START"}
    /\ acc \in AcceptThread
    /\ sq \in {0, AS_SQ}
    /\ tries \in 0..AS_SQ
    /\ at \in 0..Len(contacts)
    /\ asleep \in BOOLEAN

Init ==
    /\ ListInit
    /\ main = "boot"
    /\ cmd = "START"
    /\ previous_command = "GETCOMMAND"
    /\ acc = "none"
    /\ sq = 0
    /\ tries = 0
    /\ at = end
    /\ asleep = FALSE

-----------------------------------------------------------------------------
(* main: two CreateThread calls, each of which throws if it fails.  Nobody *)
(* catches it, so the process ends, with every thread in it.  Once both    *)
(* threads run main waits for the dispatcher, which never returns.         *)
CreateAcceptThread ==
    /\ main = "boot"
    /\ main' = "spawned"
    /\ acc' = "startup"
    /\ UNCHANGED <<netvars, listvars, cmd, previous_command, sq, tries, dispvars>>

CreateDispatchThread ==
    /\ main = "spawned"
    /\ main' = "joining"
    /\ UNCHANGED <<netvars, listvars, cmd, accvars, dispvars>>

CreateThreadFails ==
    /\ "thread" \in Faults
    /\ main \in {"boot", "spawned"}
    /\ main' = "aborted"
    /\ listener' = IF listener = "none" THEN "none" ELSE "closed"
    /\ DropQueued
    /\ acc' = "dead"
    /\ held' = {}
    /\ UNCHANGED <<contacts, cmd, previous_command, sq, tries, dispvars>>

-----------------------------------------------------------------------------
(* A step of the accept thread that only moves it on.                      *)
AccGoes(from, to) ==
    /\ acc = from
    /\ acc' = to
    /\ UNCHANGED <<netvars, listvars, main, cmd, previous_command, sq, tries, dispvars>>

(* The accept thread.  A string that one of its calls throws ends in the   *)
(* catch of accept_server: the thread is "dead", the listening socket is   *)
(* left as it is, WSACleanup is skipped.                                   *)
WSAStartup ==
    \/ AccGoes("startup", "loop")
    \/ "winsock" \in Faults /\ AccGoes("startup", "dead")

LoopTest == AccGoes("loop", IF cmd = "EXIT" THEN "cleanup" ELSE "switch")

Switch ==
    \/ cmd = "START" /\ AccGoes("switch", "start")
    \/ cmd = "STOP" /\ AccGoes("switch", "stop")
    \/ cmd \notin {"START", "STOP"} /\ AccGoes("switch", "guard")

(* case START clears the command before it does anything else.             *)
Start ==
    /\ acc = "start"
    /\ cmd' = "GETCOMMAND"
    /\ acc' = "open"
    /\ UNCHANGED <<netvars, listvars, main, previous_command, sq, tries, dispvars>>

StartAlreadyDone == previous_command = "START" /\ AccGoes("open", "guard")

(* Mutant: previous_command is not set.                                    *)
Unmarked == previous_command

StartDone == "START"

(* open_socket: socket, bind, listen, ioctlsocket.                         *)
OpenSocket ==
    /\ acc = "open"
    /\ previous_command # "START"
    /\ sq' = AS_SQ
    /\ listener' = "listening"
    /\ previous_command' = StartDone
    /\ acc' = "guard"
    /\ UNCHANGED <<backlog, conn, listvars, main, cmd, tries, dispvars>>

(* One of the four calls fails; if it is ioctlsocket the socket listens.   *)
OpenSocketFails ==
    /\ acc = "open"
    /\ previous_command # "START"
    /\ "winsock" \in Faults
    /\ sq' = AS_SQ
    /\ listener' \in {"none", "created", "listening"}
    /\ acc' = "dead"
    /\ UNCHANGED <<backlog, conn, listvars, main, cmd, previous_command, tries, dispvars>>

(* Mutant: STOP leaves the count of tries.                                 *)
CountKept == sq

StoppedCount == 0

(* case STOP keeps the command, so unless another one replaces it in time  *)
(* the next round closes the socket again, which fails.                    *)
Stop ==
    /\ acc = "stop"
    /\ listener = "listening"
    /\ sq' = StoppedCount
    /\ listener' = "closed"
    /\ DropQueued
    /\ acc' = "guard"
    /\ UNCHANGED <<listvars, main, cmd, previous_command, tries, dispvars>>

StopFails ==
    /\ acc = "stop"
    /\ listener # "listening"
    /\ sq' = StoppedCount
    /\ acc' = "dead"
    /\ UNCHANGED <<netvars, listvars, main, cmd, previous_command, tries, dispvars>>

StopGuard ==
    \/ cmd = "STOP" /\ AccGoes("guard", "loop")
    \/ /\ acc = "guard" /\ cmd # "STOP"
       /\ acc' = "accept"
       /\ tries' = sq
       /\ UNCHANGED <<netvars, listvars, main, cmd, previous_command, sq, dispvars>>

-----------------------------------------------------------------------------
(* AcceptCycle: at most sq calls of accept(), ended by the first client.   *)
(* Mutant: the loop tests the count after the decrement.                   *)
PastZero == tries >= 0

TriesLeft == tries > 0

(* Mutant: AcceptCycle takes sq by reference and counts it down for good.  *)
CountedDown == tries - 1

CountAfterTry == sq

AcceptGivesUp == ~TriesLeft /\ AccGoes("accept", "loop")

AcceptNothing ==
    /\ acc = "accept" /\ TriesLeft
    /\ AcceptWouldBlock
    /\ tries' = tries - 1
    /\ sq' = CountAfterTry
    /\ UNCHANGED <<listvars, main, cmd, previous_command, acc, dispvars>>

AcceptClient ==
    /\ acc = "accept" /\ TriesLeft
    /\ \E c \in Clients : AcceptTakes(c)
    /\ acc' = "push"
    /\ UNCHANGED <<main, cmd, previous_command, sq, tries, dispvars>>

Push ==
    /\ acc = "push"
    /\ \E c \in held : PushFront(c)
    /\ acc' = "reply"
    /\ UNCHANGED <<main, cmd, previous_command, sq, tries, dispvars>>

AcceptThrows ==
    /\ acc = "accept" /\ TriesLeft
    /\ AcceptFails
    /\ acc' = "dead"
    /\ UNCHANGED <<listvars, main, cmd, previous_command, sq, tries, dispvars>>

(* `if (AcceptCycle(sq)) cmd = GETCOMMAND', whatever cmd has become.       *)
Reply ==
    /\ acc = "reply"
    /\ cmd' = "GETCOMMAND"
    /\ acc' = "loop"
    /\ UNCHANGED <<netvars, listvars, main, previous_command, sq, tries, dispvars>>

(* WSACleanup closes the sockets the thread leaves open.                   *)
WSACleanup ==
    /\ acc = "cleanup"
    /\ listener' = IF listener = "none" THEN "none" ELSE "closed"
    /\ DropQueued
    /\ acc' = "exited"
    /\ UNCHANGED <<listvars, main, cmd, previous_command, sq, tries, dispvars>>

Accepting ==
    AcceptGivesUp \/ AcceptNothing \/ AcceptClient \/ Push \/ AcceptThrows

AcceptServer ==
    \/ WSAStartup \/ LoopTest \/ Switch \/ Start
    \/ StartAlreadyDone \/ OpenSocket \/ OpenSocketFails
    \/ Stop \/ StopFails \/ StopGuard
    \/ Accepting \/ Reply \/ WSACleanup

-----------------------------------------------------------------------------
(* DispatchServer.  contacts.begin() is read without the lock, so it may   *)
(* be any front the list has had.                                          *)
Begin ==
    /\ main = "joining"
    /\ at = end
    /\ at' \in 1..Len(contacts)
    /\ UNCHANGED <<netvars, listvars, main, cmd, accvars, asleep>>

(* Mutant: the loop advances, as the one in Concurent_Server does.         *)
AdvanceToNext(node) == node - 1

(* The third clause of `for (auto i = begin(); i != end();)' is empty.     *)
Advance(node) == node

(* Mutant: the dispatcher looks for contacts that are served already.      *)
IsServed(contact) == contact.type = "CONTACT"

IsNew(contact) == contact.type = "ACCEPT"

(* An ACCEPT contact becomes CONTACT and gets a timer of 60 seconds.  On a  *)
(* CONTACT the loop body does nothing, and the loop stays where it is.     *)
Visit ==
    /\ main = "joining"
    /\ at # end /\ ~asleep
    /\ IsNew(contacts[at])
    /\ contacts' = [contacts EXCEPT ![at].type = "CONTACT", ![at].htimer = "set"]
    /\ asleep' = TRUE
    /\ UNCHANGED <<netvars, held, main, cmd, accvars, at>>

(* SleepEx(0, true), the only alertable wait: it calls ASWTimer, which does *)
(* nothing, for a timer that is due by now.                                *)
Sleep ==
    /\ main = "joining"
    /\ asleep
    /\ contacts' = [n \in DOMAIN contacts |->
                      IF contacts[n].htimer = "due"
                        THEN [contacts[n] EXCEPT !.htimer = "called"]
                        ELSE contacts[n]]
    /\ asleep' = FALSE
    /\ at' = Advance(at)
    /\ UNCHANGED <<netvars, held, main, cmd, accvars>>

DispatchServer == Begin \/ Visit \/ Sleep

(* Sixty seconds pass; the system queues ASWTimer to the dispatcher.       *)
TimerExpires ==
    /\ main = "joining"
    /\ \E n \in DOMAIN contacts :
          /\ contacts[n].htimer = "set"
          /\ contacts' = [contacts EXCEPT ![n].htimer = "due"]
    /\ UNCHANGED <<netvars, held, main, cmd, accvars, dispvars>>

-----------------------------------------------------------------------------
(* What the environment does: an operator's console and the clients.       *)
Console ==
    /\ main = "joining"
    /\ \E command \in ConsoleCommands : cmd' = command
    /\ UNCHANGED <<netvars, listvars, main, accvars, dispvars>>

Client(c) ==
    /\ \/ Connects(c)
       \/ IsRefused(c)
       \/ "reset" \in Faults /\ Resets(c)
    /\ UNCHANGED <<listvars, main, cmd, accvars, dispvars>>

Main == CreateAcceptThread \/ CreateDispatchThread \/ CreateThreadFails

Next ==
    \/ Main
    \/ AcceptServer
    \/ DispatchServer
    \/ TimerExpires
    \/ Console
    \/ \E c \in Clients : Client(c)

Spec == Init /\ [][Next]_vars

(* The operating system runs every thread that can run; neither a client   *)
(* nor the console owes anything.                                          *)
Fairness == WF_vars(Main) /\ WF_vars(AcceptServer) /\ WF_vars(DispatchServer)

FairSpec == Spec /\ Fairness

-----------------------------------------------------------------------------
(* An accepted connection is in the list, once, but for the one AcceptCycle *)
(* is about to push: no command, no failure and no end of the accept       *)
(* thread loses one.  A CreateThread that fails and ends the process may:  *)
(* the accept thread runs from the first of the two, so it may have        *)
(* accepted a client by then, and have it in hand.                         *)
AcceptedAreListed ==
    /\ ListMatches
    /\ held # {} => acc = "push"
    /\ Unlisted # held => main = "aborted"

(* AcceptCycle only calls accept() on a socket that listens, however the   *)
(* commands are interleaved: a count of tries survives no STOP.            *)
AcceptOnListening == acc = "accept" /\ tries > 0 => listener = "listening"

(* open_socket is only called when no socket is bound to the port yet, so  *)
(* bind() cannot fail for a socket the server itself left open.            *)
OpensOnce == acc = "open" /\ previous_command # "START" => listener = "none"

(* Of all contacts at most one is ever dispatched: the one the dispatcher  *)
(* saw first, and stands on for ever.                                      *)
OneContactDispatched ==
    \A n \in DOMAIN contacts : contacts[n].type = "CONTACT" => n = at

(* What the steps preserve together.  A thread that has ended leaves sq and *)
(* previous_command behind, so they only describe the socket until then.   *)
Ended == {"exited", "dead"}

SocketMatchesCount ==
    acc \notin Ended =>
        /\ sq > 0 => listener = "listening"
        /\ previous_command # "START" => listener = "none"
        /\ acc = "accept" => tries <= sq

ThreadsStand ==
    /\ main = "boot" => acc = "none"
    /\ main = "aborted" => acc = "dead"
    /\ at # end \/ ~asleep

IndInv ==
    /\ TypeOK
    /\ AcceptedAreListed
    /\ OneContactDispatched
    /\ SocketMatchesCount
    /\ ThreadsStand

(* A queued client is accepted and listed, whatever the timing of its      *)
(* connection against the bounded rounds of accept() calls, unless the     *)
(* sockets nobody closes are used up, which ends the accept thread.        *)
QueuedIsListed ==
    \A c \in Clients :
        conn[c] = "queued" ~> \/ c \in Range(AddressesOf(contacts))
                              \/ acc = "dead" /\ SocketsInUse = MaxSockets

(* Once there is a contact the dispatcher serves one.                      *)
SomeContactDispatched ==
    contacts # <<>> ~> \E n \in DOMAIN contacts : contacts[n].type = "CONTACT"

Due(n) == n \in DOMAIN contacts /\ contacts[n].htimer = "due"

(* A timer procedure that is not due by the SleepEx of its own contact is  *)
(* never called: the dispatcher comes to no other alertable wait.          *)
LateTimerIsLost ==
    \A n \in 1..Cardinality(Clients) : [](Due(n) /\ ~asleep => []Due(n))

-----------------------------------------------------------------------------
(* Practical 7X, table 7.9.3: the command EXIT ends the server.            *)
ExitIsObeyed == cmd = "EXIT" ~> acc \in {"exited", "dead"}

=============================================================================
