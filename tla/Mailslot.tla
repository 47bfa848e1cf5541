------------------------------ MODULE Mailslot ------------------------------
(***************************************************************************)
(* lab7: ServerMS reads letters from a mailslot until one says STOP, and   *)
(* ClientMS writes as many greetings as its user wants and then a STOP.    *)
(* A mailslot is a queue that several clients may write to and only the    *)
(* process that created it reads; it goes with that process.               *)
(***************************************************************************)
EXTENDS Integers, Sequences, SequencesExt

CONSTANTS
    Servers,   \* the server processes, any of which a user may start
    Clients,   \* the client processes
    NoServer,  \* not a server: what the handle of a client refers to at first
    MaxCount,  \* the largest number of greetings a user orders
    Faults     \* "create": a server's start fails; "kill": a server is
               \* killed; "crash": a client is killed

ASSUME MailslotAssumption ==
    /\ NoServer \notin Servers
    /\ MaxCount \in Nat \ {0}
    /\ Faults \subseteq {"create", "kill", "crash"}

VARIABLES
    server,   \* server[s]: where ServerMS s is
    box,      \* the letters in the mailslot
    printed,  \* the letters the present, or last, server has printed
    client,   \* client[c]: where ClientMS c is
    handle,   \* handle[c]: the server whose mailslot c has opened
    count,    \* count[c]: how many greetings its user ordered
    i         \* i[c]: how many of them it has written

vars == <<server, box, printed, client, handle, count, i>>

STOP == 0  \* in the place of a greeting's number

Letter == [from : Clients, what : STOP..MaxCount]

TypeOK ==
    /\ server \in [Servers -> {"idle", "read", "off", "dead"}]
    /\ box \in Seq(Letter)
    /\ printed \in Seq(Letter)
    /\ client \in [Clients -> {"idle", "prompt", "write", "close", "gone", "dead"}]
    /\ handle \in [Clients -> Servers \cup {NoServer}]
    /\ count \in [Clients -> 0..MaxCount]
    /\ i \in [Clients -> 0..MaxCount]

Init ==
    /\ server = [s \in Servers |-> "idle"]
    /\ box = <<>>
    /\ printed = <<>>
    /\ client = [c \in Clients |-> "idle"]
    /\ handle = [c \in Clients |-> NoServer]
    /\ count = [c \in Clients |-> 0]
    /\ i = [c \in Clients |-> 0]

-----------------------------------------------------------------------------
(* ServerMS.                                                               *)
Reading(s) == server[s] = "read"

Holding == {c \in Clients : client[c] \in {"prompt", "write", "close"}}

Create(s) ==
    /\ server[s] = "idle"
    /\ \A t \in Servers : ~Reading(t)
    /\ server' = [server EXCEPT ![s] = "read"]
    /\ printed' = <<>>
    /\ UNCHANGED <<box, client, handle, count, i>>

(* The name is taken, and may be for as long as a client keeps a handle of *)
(* a mailslot that is gone.                                                *)
CreateThrows(s) ==
    /\ server[s] = "idle"
    /\ (\E t \in Servers : Reading(t)) \/ Holding # {} \/ "create" \in Faults
    /\ server' = [server EXCEPT ![s] = "dead"]
    /\ UNCHANGED <<box, printed, client, handle, count, i>>

(* Mutant: the letter written last is read first.                          *)
LastLetter == Last(box)

NextLetter == Head(box)

(* Mutant: the letter stays in the mailslot.                               *)
BoxAsBefore == box

BoxAfterRead == Tail(box)

(* strcmp(mess_buff, "STOP") == 0.                                         *)
IsStop(letter) == letter.what = STOP

Read(s) ==
    /\ Reading(s)
    /\ box # <<>> /\ ~IsStop(NextLetter)
    /\ printed' = Append(printed, NextLetter)
    /\ box' = BoxAfterRead
    /\ UNCHANGED <<server, client, handle, count, i>>

(* The end of the process that has created a mailslot is the end of what   *)
(* is left in it.                                                          *)
ServerEnds(s, how) ==
    /\ server' = [server EXCEPT ![s] = how]
    /\ box' = <<>>
    /\ UNCHANGED <<printed, client, handle, count, i>>

(* break, and CloseHandle.                                                 *)
ReadStop(s) ==
    /\ Reading(s)
    /\ box # <<>> /\ IsStop(NextLetter)
    /\ ServerEnds(s, "off")

Kill(s) == "kill" \in Faults /\ Reading(s) /\ ServerEnds(s, "dead")

-----------------------------------------------------------------------------
(* ClientMS.                                                               *)
Goes(c, from, to) ==
    /\ client[c] = from
    /\ client' = [client EXCEPT ![c] = to]
    /\ UNCHANGED <<server, printed>>

Open(c) ==
    /\ Goes(c, "idle", "prompt")
    /\ \E s \in Servers : Reading(s) /\ handle' = [handle EXCEPT ![c] = s]
    /\ UNCHANGED <<box, count, i>>

(* There is no mailslot; or another client has it open, which the share    *)
(* mode FILE_SHARE_READ forbids and not every system enforces.             *)
OpenThrows(c) ==
    /\ (\A s \in Servers : ~Reading(s)) \/ Holding # {}
    /\ Goes(c, "idle", "dead")
    /\ UNCHANGED <<box, handle, count, i>>

(* A negative number, or none at all, does as 0 does.                      *)
Order(c) ==
    /\ Goes(c, "prompt", "write")
    /\ \E n \in 0..MaxCount : count' = [count EXCEPT ![c] = n]
    /\ UNCHANGED <<box, handle, i>>

Put(c, what) ==
    /\ Reading(handle[c])
    /\ box' = Append(box, [from |-> c, what |-> what])

(* Mutants: i <= count; i < count - 1.                                     *)
MorePastCount(c) == i[c] <= count[c]
MoreButOne(c) == i[c] < count[c] - 1

(* The condition of the for loop.                                          *)
More(c) == i[c] < count[c]

Write(c) ==
    /\ More(c)
    /\ Goes(c, "write", "write")
    /\ Put(c, i[c] + 1)
    /\ i' = [i EXCEPT ![c] = @ + 1]
    /\ UNCHANGED <<handle, count>>

WriteStop(c) ==
    /\ ~More(c)
    /\ Goes(c, "write", "close")
    /\ Put(c, STOP)
    /\ UNCHANGED <<handle, count, i>>

WriteThrows(c) ==
    /\ Goes(c, "write", "dead")
    /\ ~Reading(handle[c])
    /\ UNCHANGED <<box, handle, count, i>>

Close(c) ==
    /\ Goes(c, "close", "gone")
    /\ UNCHANGED <<box, handle, count, i>>

Crash(c) ==
    /\ "crash" \in Faults
    /\ c \in Holding
    /\ Goes(c, client[c], "dead")
    /\ UNCHANGED <<box, handle, count, i>>

Server(s) == Read(s) \/ ReadStop(s)

Works(c) == Write(c) \/ WriteStop(c) \/ WriteThrows(c) \/ Close(c)

Next ==
    \/ \E s \in Servers : Create(s) \/ CreateThrows(s) \/ Server(s) \/ Kill(s)
    \/ \E c \in Clients :
          Open(c) \/ OpenThrows(c) \/ Order(c) \/ Works(c) \/ Crash(c)

Spec == Init /\ [][Next]_vars

(* Once started, the programs run; a user owes nothing.                    *)
FairSpec ==
    /\ Spec
    /\ \A s \in Servers : WF_vars(Server(s))
    /\ \A c \in Clients : WF_vars(Works(c))

-----------------------------------------------------------------------------
(* What c has written of these letters, and whether it stands there in the *)
(* order it was written, once.                                             *)
Whats(c, letters) ==
    {letters[n].what : n \in {m \in DOMAIN letters : letters[m].from = c}}

Rank(letter) == IF IsStop(letter) THEN MaxCount + 1 ELSE letter.what

InOrder(c, letters) ==
    \A m, n \in DOMAIN letters :
        m < n /\ letters[m].from = c /\ letters[n].from = c =>
            Rank(letters[m]) < Rank(letters[n])

(* printed and box are the log.                                            *)
Log == INSTANCE LetterLog WITH
    Writers <- Clients, Stop <- STOP,
    open <- \E s \in Servers : Reading(s),
    log <- printed \o box, read <- Len(printed)

(* The mailslot, its reader and its writers implement a log that is read   *)
(* once, in order, up to the first STOP; what is in the mailslot of a      *)
(* server is read, and so a STOP ends it, whatever others go on writing.   *)
ImplementsLog == Log!LogSpec

(* What a reading server has printed and has still to read of a client is  *)
(* what that client has written to it, once and in the order it was        *)
(* written, whoever else writes in between, and also when the client has   *)
(* long gone.                                                              *)
ReadAsWritten ==
    \A c \in Clients :
        handle[c] # NoServer /\ Reading(handle[c]) =>
            LET theirs == Whats(c, printed \o box)
            IN  /\ InOrder(c, printed \o box)
                /\ client[c] \in {"prompt", "write"} => theirs = 1..i[c]
                /\ client[c] \in {"close", "gone"} => theirs = STOP..i[c]
                /\ client[c] = "dead" => theirs \in {1..i[c], STOP..i[c]}

(* The STOP a server obeys comes after all its client has ordered, and     *)
(* what is dropped with the mailslot is other clients' only.               *)
StopIsLast ==
    [][\A s \in Servers :
          Reading(s) /\ server'[s] = "off" =>
              LET c == Head(box).from IN
                /\ Whats(c, printed) = 1..count[c]
                /\ Whats(c, Tail(box)) = {}]_vars

=============================================================================
