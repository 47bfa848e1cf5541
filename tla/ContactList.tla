---------------------------- MODULE ContactList ----------------------------
(***************************************************************************)
(* ListContact, the list the accept thread and the dispatcher of a         *)
(* concurrent server share.  Contacts are only ever pushed on the front,   *)
(* so a list node is named by its arrival number: begin() is the node      *)
(* Len(contacts), the node after n is n - 1, and end() is 0.               *)
(***************************************************************************)
EXTENDS Winsock, Functions

VARIABLES
    contacts,  \* the Contact of every node, oldest first
    held       \* whom AcceptCycle has accepted and not pushed yet, if anyone

listvars == <<contacts, held>>

(* The fields of Contact that anything reads or that can go wrong.  The    *)
(* assignment `contact.socket = accept(...) == INVALID_SOCKET' stores the  *)
(* outcome of the comparison, so the socket of a good connection is 0; the *)
(* socket accept() returned is kept nowhere.                               *)
NewContact(c) ==
    [sockaddr_in |-> c, socket |-> 0, type |-> "ACCEPT", htimer |-> "none"]

Contact == [sockaddr_in : Clients, socket : {0, 1},
            type : {"ACCEPT", "CONTACT"},
            htimer : {"none", "set", "due", "called"}]

ListTypeOK ==
    /\ NetTypeOK
    /\ contacts \in Seq(Contact)
    /\ held \subseteq Clients

ListInit ==
    /\ NetInit
    /\ contacts = <<>>
    /\ held = {}

end == 0

(* A successful accept() leaves the connection with AcceptCycle's local    *)
(* contact.  Any other thread may run, and end the process, before ...     *)
AcceptTakes(c) ==
    /\ AcceptReturns(c)
    /\ held' = {c}
    /\ UNCHANGED contacts

(* Mutant: the contact is not pushed.                                      *)
PushLost(c) ==
    /\ held' = {}
    /\ UNCHANGED <<netvars, contacts>>

(* Mutant: the contact is pushed once for each of two iterations.          *)
PushTwice(c) ==
    /\ contacts' = contacts \o <<NewContact(c), NewContact(c)>>
    /\ held' = {}
    /\ UNCHANGED netvars

(* ... it is pushed on the list.  scListContact is entered by no other     *)
(* thread, so entering it never waits.                                     *)
PushFront(c) ==
    /\ contacts' = Append(contacts, NewContact(c))
    /\ held' = {}
    /\ UNCHANGED netvars

AddressesOf(list) == [n \in DOMAIN list |-> list[n].sockaddr_in]

DispatchedOf(list) ==
    {list[n].sockaddr_in : n \in {m \in DOMAIN list : list[m].type = "CONTACT"}}

Accepted == {c \in Clients : conn[c] = "accepted"}

(* Accepted connections that no contact of the list stands for.            *)
Unlisted == Accepted \ Range(AddressesOf(contacts))

(* The list as the registry of clients it is meant to be: a client waits   *)
(* to be entered from the end of its connect() until it is pushed.         *)
Registry == INSTANCE ContactRegistry
    WITH pending    <- {c \in Clients : conn[c] = "queued"} \cup held,
         registered <- AddressesOf(contacts),
         served     <- DispatchedOf(contacts)

ImplementsRegistry == Registry!RegSpec

-----------------------------------------------------------------------------
(* The list holds accepted connections only, each of them once, and at any *)
(* time at most one is missing from it.                                    *)
ListMatches ==
    /\ IsInjective(AddressesOf(contacts))
    /\ Range(AddressesOf(contacts)) \subseteq Accepted
    /\ held \subseteq Unlisted
    /\ \A c, d \in Unlisted : c = d

=============================================================================
