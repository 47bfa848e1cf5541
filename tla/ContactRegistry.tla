-------------------------- MODULE ContactRegistry --------------------------
(***************************************************************************)
(* What both concurrent servers of lab8 promise of ListContact, whatever   *)
(* their threads do: a completed connection is entered in the list at most *)
(* once, entries are never removed or reordered, and an entry is handed to *)
(* a service (ACCEPT becomes CONTACT) at most once.                        *)
(***************************************************************************)
EXTENDS Naturals, Sequences, FiniteSets, Functions

CONSTANT Clients

VARIABLES
    pending,     \* clients connected and not in ListContact yet
    registered,  \* clients in ListContact, in order of arrival
    served       \* those whose contact is of type CONTACT

regvars == <<pending, registered, served>>

Listed == Range(registered)

RegTypeOK ==
    /\ pending \subseteq Clients
    /\ registered \in Seq(Clients)
    /\ served \subseteq Clients

RegInit ==
    /\ pending = {}
    /\ registered = <<>>
    /\ served = {}

(* A client's connection is completed by the system.                       *)
Arrive(c) ==
    /\ c \notin pending \cup Listed
    /\ pending' = pending \cup {c}
    /\ UNCHANGED <<registered, served>>

(* Connections are lost before they are entered in the list.               *)
Withdraw(S) ==
    /\ S # {}
    /\ pending' = pending \ S
    /\ UNCHANGED <<registered, served>>

(* The contact of an accepted connection is pushed on the list.            *)
Register(c) ==
    /\ pending' = pending \ {c}
    /\ registered' = Append(registered, c)
    /\ UNCHANGED served

(* The dispatcher turns a contact over to a service.                       *)
Serve(c) ==
    /\ served' = served \cup {c}
    /\ UNCHANGED <<pending, registered>>

RegNext ==
    \/ \E c \in Clients : Arrive(c)
    \/ \E S \in SUBSET pending : Withdraw(S)
    \/ \E c \in pending : Register(c)
    \/ \E c \in Listed \ served : Serve(c)

RegSpec == RegInit /\ [][RegNext]_regvars

-----------------------------------------------------------------------------
(* No connection is in the list twice: AcceptCycle pushes one Contact for  *)
(* one successful accept().                                                *)
ListedOnce ==
    /\ IsInjective(registered)
    /\ pending \cap Listed = {}
    /\ served \subseteq Listed

(* The list only grows, at the end a new contact is pushed to, and a       *)
(* contact that has been handed over stays so.                             *)
ListOnlyGrows ==
    [][/\ Len(registered') >= Len(registered)
       /\ SubSeq(registered', 1, Len(registered)) = registered
       /\ served \subseteq served']_regvars

=============================================================================
