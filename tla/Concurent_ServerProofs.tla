------------------------ MODULE Concurent_ServerProofs ------------------------
(***************************************************************************)
(* Concurent_Server keeps its types and its safety invariants, and         *)
(* implements the registry of clients, for any set of clients, any AS_SQ,  *)
(* any console and any of the failures.                                    *)
(***************************************************************************)
EXTENDS Concurent_Server, ContactListProofs

LEMMA InitIndInv == Init => IndInv
  <1> SUFFICES ASSUME Init PROVE IndInv
    OBVIOUS
  <1> USE DEF Init, ListInit, NetInit, end
  <1>1. ListTypeOK
    BY DEF ListTypeOK, NetTypeOK
  <1>2. Len(contacts) = 0 /\ 0 \in 0..Len(contacts) /\ 0 \in 0..AS_SQ
    BY ServerAssumption
  <1>3. cmd \in TalkersCommand /\ acc \in AcceptThread
    BY DEF TalkersCommand, AcceptThread
  <1>4. TypeOK
    BY <1>1, <1>2, <1>3 DEF TypeOK
  <1>5. AcceptedAreListed
    BY DEF AcceptedAreListed, ListMatches, Unlisted, Accepted, AddressesOf,
           IsInjective, Range
  <1> QED  BY <1>4, <1>5 DEF IndInv, SocketMatchesCount, DispatcherUnused

-----------------------------------------------------------------------------
(* What every step does to the contact the accept thread has in hand.      *)
HandStep ==
    /\ held' # {} => Alive' /\ acc' = "push"
    /\ Unlisted' # held' => main' = "aborted"

LEMMA KeepsHand ==
    ASSUME IndInv, UNCHANGED <<held, Unlisted, main>>, acc # "push" \/ acc' = acc
    PROVE  HandStep
  BY DEF HandStep, IndInv, AcceptedAreListed, Alive

(* The end of the process withdraws the connections still queued, and the  *)
(* contact in hand: only a throw finds one there.                          *)
LEMMA EndListStep ==
    ASSUME IndInv, NEW how, ProcessEnds(how), how = "aborted" \/ held = {},
           main # "aborted"
    PROVE  ListStep /\ HandStep
  <1>1. ListStep /\ UNCHANGED Unlisted
    BY ListenerCloses DEF ProcessEnds, IndInv, TypeOK, AcceptedAreListed
  <1> QED  BY <1>1 DEF ProcessEnds, HandStep, IndInv, AcceptedAreListed

LEMMA AcceptListStep ==
    ASSUME IndInv, AcceptServer PROVE ListStep /\ HandStep
  <1> USE DEF IndInv, TypeOK, AcceptedAreListed
  <1>1. CASE UNCHANGED <<netvars, listvars, main>> /\ acc # "push"
    <2>1. ListStep /\ UNCHANGED Unlisted
      BY <1>1, ListenerOpens DEF netvars, ListTypeOK, NetTypeOK
    <2> QED  BY <1>1, <2>1, KeepsHand DEF listvars
  <1>2. CASE WSAStartup \/ LoopTest \/ Switch \/ Start \/ Stop
               \/ AcceptGivesUp \/ AcceptNothing \/ Reply
    BY <1>1, <1>2
       DEF WSAStartup, LoopTest, Switch, Start, Stop, AcceptGivesUp,
           AcceptNothing, AcceptWouldBlock, Reply, AccGoes, AccAt
  <1>3. CASE WSAStartupFails \/ OpenSocketFails \/ CloseSocketFails
               \/ AcceptThrows
    BY <1>3, EndListStep
       DEF WSAStartupFails, OpenSocketFails, CloseSocketFails, AcceptThrows,
           Throws, AccAt, Alive
  <1>4. CASE OpenSocket
    <2>1. ListStep /\ UNCHANGED Unlisted
      BY <1>4, ListenerOpens DEF OpenSocket
    <2> QED  BY <1>4, <2>1, KeepsHand DEF OpenSocket, AccAt, listvars
  <1>5. CASE CloseSocket \/ WSACleanup
    <2>1. ListStep /\ UNCHANGED Unlisted
      BY <1>5, ListenerCloses DEF CloseSocket, WSACleanup, listvars
    <2> QED  BY <1>5, <2>1, KeepsHand DEF CloseSocket, WSACleanup, AccAt, listvars
  <1>6. CASE AcceptClient
    <2>1. Alive /\ held = {} /\ Unlisted = {}
      BY <1>6 DEF AcceptClient, AccAt, Alive
    <2>2. PICK c \in Clients : AcceptTakes(c)
      BY <1>6 DEF AcceptClient
    <2>3. ListStep /\ held' = {c} /\ Unlisted' = {c}
      BY <2>1, <2>2, AcceptIsNoEntry
    <2> QED  BY <1>6, <2>1, <2>3 DEF AcceptClient, HandStep, Alive
  <1>7. CASE Push
    <2>1. PICK c \in held : PushFront(c)
      BY <1>7 DEF Push
    <2>2. ListStep /\ held' = {} /\ Unlisted' = {}
      BY <2>1, PushRegisters
    <2> QED  BY <2>2 DEF HandStep
  <1> QED  BY <1>2, <1>3, <1>4, <1>5, <1>6, <1>7 DEF AcceptServer

(* The dispatcher's place and the type of what it has passed.              *)
DispatchStep ==
    /\ at' \in 0..Len(contacts')
    /\ disp # "scan" =>
         \A n \in DOMAIN contacts' : contacts'[n].type = "ACCEPT"

LEMMA VisitStep ==
    ASSUME IndInv, Visit PROVE ListStep /\ HandStep /\ DispatchStep
  <1> DEFINE new == [contacts[at] EXCEPT !.type = "CONTACT"]
             m == IF contacts[at].type = "ACCEPT" THEN at ELSE end
  <1>1. /\ at \in 1..Len(contacts) /\ contacts \in Seq(Contact)
        /\ Len(contacts) \in Nat
        /\ disp = "scan"
    BY LenProperties DEF IndInv, TypeOK, ListTypeOK, Visit, AtNode, end
  <1>2. contacts[at] \in Contact
    BY <1>1, ElementOfSeq
  <1>3. /\ new \in Contact /\ new.sockaddr_in = contacts[at].sockaddr_in
        /\ new.type = "CONTACT"
        /\ contacts[at].type \in {"ACCEPT", "CONTACT"}
    BY <1>2 DEF Contact
  <1>4. contacts' = [contacts EXCEPT ![at] = new]
    BY <1>1, <1>2 DEF Visit, Contact
  <1>5. /\ contacts' \in Seq(Contact)
        /\ Len(contacts') = Len(contacts)
        /\ \A n \in 1..Len(contacts) :
              contacts'[n] = IF n = at THEN new ELSE contacts[n]
    BY <1>1, <1>3, <1>4, ExceptSeq
  <1>6. m \in 0..Len(contacts)
    BY <1>1 DEF end
  <1>7. UNCHANGED <<netvars, held, main, acc>>
    BY DEF Visit, accvars
  <1>8. /\ at' \in 0..Len(contacts')
    BY <1>1, <1>5 DEF Visit, Advance
  <1> HIDE DEF new
  <1>9. \A n \in 1..Len(contacts) :
           /\ contacts'[n].sockaddr_in = contacts[n].sockaddr_in
           /\ n # m => contacts'[n].type = contacts[n].type
    BY <1>1, <1>3, <1>5
  <1>10. m # end => /\ contacts[m].type = "ACCEPT"
                    /\ contacts'[m].type = "CONTACT"
    BY <1>1, <1>3, <1>5 DEF end
  <1> HIDE DEF m
  <1>11. ListStep /\ UNCHANGED Unlisted
    BY <1>1, <1>5, <1>6, <1>7, <1>9, <1>10, DispatchServes
       DEF IndInv, TypeOK, AcceptedAreListed
  <1> QED  BY <1>1, <1>7, <1>8, <1>11, KeepsHand DEF DispatchStep

LEMMA NextListStep ==
    ASSUME IndInv, [Next]_vars PROVE ListStep /\ HandStep
  <1> USE DEF IndInv, TypeOK, AcceptedAreListed
  <1>1. CASE CreateAcceptThread \/ CreateDispatchThread \/ JoinDispatcher
               \/ CopyCommand \/ Begin \/ Console \/ UNCHANGED vars
    <2>1. /\ UNCHANGED <<netvars, listvars>>
          /\ acc = "none" \/ acc' = acc
          /\ main # "aborted" \/ main' = main
          /\ Alive => Alive'
      BY <1>1
         DEF CreateAcceptThread, CreateDispatchThread, JoinDispatcher,
             CopyCommand, Begin, BeginAt, Console, vars, accvars, Alive,
             DispatcherUnused
    <2>2. ListStep /\ UNCHANGED Unlisted
      BY <2>1, ListenerOpens DEF netvars, ListTypeOK, NetTypeOK
    <2> QED  BY <2>1, <2>2 DEF HandStep, listvars, Alive
  <1>2. CASE JoinAccepter
    <2>1. held = {} /\ main # "aborted"
      BY <1>2 DEF JoinAccepter, AccepterEnded
    <2> QED  BY <1>2, <2>1, EndListStep DEF JoinAccepter
  <1>3. CASE AcceptServer
    BY <1>3, AcceptListStep
  <1>4. CASE Visit \/ CopyOverruns
    BY <1>4, VisitStep, EndListStep DEF CopyOverruns, Throws, AtNode, Alive
  <1>5. ASSUME NEW c \in Clients, Client(c) PROVE ListStep /\ HandStep
    <2>1. ListStep /\ UNCHANGED Unlisted
      BY <1>5, ClientMoves DEF Client
    <2> QED  BY <1>5, <2>1, KeepsHand DEF Client, listvars, accvars
  <1> QED  BY <1>1, <1>2, <1>3, <1>4, <1>5 DEF Next, Main, DispatchServer

-----------------------------------------------------------------------------
(* A contact is pushed with type ACCEPT.                                   *)
LEMMA PushDispatchStep ==
    ASSUME IndInv, Push PROVE DispatchStep
  <1>1. PICK c \in Clients : contacts' = Append(contacts, NewContact(c))
    BY DEF Push, PushFront, IndInv, TypeOK, ListTypeOK
  <1>2. NewContact(c) \in Contact /\ NewContact(c).type = "ACCEPT"
    BY DEF NewContact, Contact
  <1>3. contacts \in Seq(Contact) /\ at \in 0..Len(contacts) /\ at' = at
    BY DEF IndInv, TypeOK, ListTypeOK, Push, dispvars
  <1>4. /\ Len(contacts) \in Nat
        /\ DOMAIN contacts = 1..Len(contacts)
        /\ DOMAIN contacts' = 1..(Len(contacts) + 1)
        /\ Len(contacts') = Len(contacts) + 1
        /\ contacts'[Len(contacts) + 1] = NewContact(c)
        /\ \A n \in 1..Len(contacts) : contacts'[n] = contacts[n]
    BY <1>1, <1>2, <1>3
  <1>5. \A n \in 1..(Len(contacts) + 1) :
           n = Len(contacts) + 1 \/ n \in 1..Len(contacts)
    BY <1>4
  <1> QED  BY <1>2, <1>3, <1>4, <1>5 DEF DispatchStep, DispatcherUnused, IndInv

LEMMA NextDispatchStep ==
    ASSUME IndInv, [Next]_vars PROVE DispatchStep
  <1>1. CASE UNCHANGED <<contacts, at>>
    BY <1>1 DEF DispatchStep, DispatcherUnused, IndInv, TypeOK
  <1>2. CASE Main \/ Console \/ UNCHANGED vars
    BY <1>1, <1>2
       DEF Main, CreateAcceptThread, CreateDispatchThread, JoinDispatcher,
           JoinAccepter, ProcessEnds, Console, vars, listvars, dispvars
  <1>3. CASE AcceptServer
    BY <1>1, <1>3, PushDispatchStep
       DEF AcceptServer, WSAStartup, WSAStartupFails, LoopTest, Switch, Start,
           OpenSocket, OpenSocketFails, Stop, CloseSocket, CloseSocketFails,
           AcceptGivesUp, AcceptNothing, AcceptClient, AcceptTakes,
           AcceptThrows, Reply, WSACleanup, AccGoes, Throws, ProcessEnds,
           listvars, dispvars
  <1>4. CASE CopyCommand \/ CopyOverruns
    BY <1>1, <1>4 DEF CopyCommand, CopyOverruns, Throws, ProcessEnds, listvars,
                     dispvars
  <1>5. CASE Begin
    <2>1. contacts' = contacts /\ at' \in 1..Len(contacts) /\ disp = "scan"
      BY <1>5 DEF Begin, BeginAt, listvars
    <2>2. Len(contacts) \in Nat
      BY LenProperties DEF IndInv, TypeOK, ListTypeOK
    <2> QED  BY <2>1, <2>2 DEF DispatchStep
  <1>6. CASE Visit
    BY <1>6, VisitStep
  <1>7. ASSUME NEW c \in Clients, Client(c) PROVE DispatchStep
    BY <1>1, <1>7 DEF Client, listvars, dispvars
  <1> QED  BY <1>2, <1>3, <1>4, <1>5, <1>6, <1>7 DEF Next, DispatchServer

-----------------------------------------------------------------------------
(* The variables of the three threads.                                     *)
ThreadsOK ==
    /\ main \in {"boot", "spawned", "dispatcher", "accepter", "returned",
                 "aborted"}
    /\ cmd \in TalkersCommand
    /\ acc \in AcceptThread
    /\ squirt \in {0, AS_SQ}
    /\ tries \in 0..AS_SQ
    /\ disp \in {"none", "copy", "scan", "returned"}
    /\ SocketMatchesCount
    /\ main \in {"boot", "spawned"} => disp = "none"
    /\ main \in {"accepter", "returned"} => disp \in {"none", "returned"}
    /\ main = "boot" => acc = "none" /\ squirt = 0

(* A dispatcher that scans never stops.                                    *)
DispatcherGoesOn == disp' # "scan" => disp # "scan"

LEMMA NextThreadsOK ==
    ASSUME IndInv, [Next]_vars PROVE ThreadsOK' /\ DispatcherGoesOn
  <1> USE ServerAssumption
      DEF IndInv, TypeOK, SocketMatchesCount, DispatcherUnused, Alive,
          AcceptThread, ThreadsOK, DispatcherGoesOn
  <1>1. ASSUME NEW how \in {"returned", "aborted"}, ProcessEnds(how),
               how = "returned" => main = "accepter"
        PROVE  ThreadsOK' /\ DispatcherGoesOn
    BY <1>1 DEF ProcessEnds, accvars, dispvars
  <1>2. CASE Main
    BY <1>1, <1>2
       DEF Main, CreateAcceptThread, CreateDispatchThread, JoinDispatcher,
           DispatcherEnded, JoinAccepter, AccepterEnded, netvars, accvars, dispvars
  <1>3. CASE AcceptServer
    <2> USE DEF AccAt, AccGoes, TriesLeft, netvars, dispvars
    <2>1. CASE WSAStartup \/ LoopTest \/ Switch
      BY <2>1 DEF WSAStartup, LoopTest, Switch
    <2>2. CASE Start \/ Stop \/ Reply
      BY <2>2 DEF Start, Stop, StoppedCount, Reply, TalkersCommand
    <2>3. CASE OpenSocket \/ CloseSocket \/ WSACleanup
      BY <2>3 DEF OpenSocket, CloseSocket, WSACleanup
    <2>4. CASE WSAStartupFails \/ OpenSocketFails \/ CloseSocketFails
                 \/ AcceptThrows
      BY <2>4, <1>1
         DEF WSAStartupFails, OpenSocketFails, CloseSocketFails, AcceptThrows,
             Throws
    <2>5. CASE AcceptGivesUp \/ AcceptNothing
      BY <2>5 DEF AcceptGivesUp, AcceptNothing, AcceptWouldBlock, CountAfterTry
    <2>6. CASE AcceptClient \/ Push
      BY <2>6 DEF AcceptClient, AcceptTakes, AcceptReturns, Push, PushFront
    <2> QED  BY <1>3, <2>1, <2>2, <2>3, <2>4, <2>5, <2>6 DEF AcceptServer
  <1>4. CASE CopyCommand \/ Begin \/ Visit
    BY <1>4 DEF CopyCommand, Begin, BeginAt, Visit, AtNode, netvars, accvars
  <1>5. CASE CopyOverruns
    BY <1>1, <1>5 DEF CopyOverruns, Throws
  <1>6. CASE Console \/ UNCHANGED vars
    BY <1>6 DEF Console, vars, netvars, accvars, dispvars
  <1>7. ASSUME NEW c \in Clients, Client(c)
        PROVE  ThreadsOK' /\ DispatcherGoesOn
    BY <1>7 DEF Client, Connects, IsRefused, Resets, accvars, dispvars
  <1> QED  BY <1>2, <1>3, <1>4, <1>5, <1>6, <1>7 DEF Next, DispatchServer

-----------------------------------------------------------------------------
(* All conjuncts of the inductive invariant hold in every reachable state. *)
THEOREM Inductive == Spec => []IndInv
  <1>1. Init => IndInv
    BY InitIndInv
  <1>2. IndInv /\ [Next]_vars => IndInv'
    <2> SUFFICES ASSUME IndInv, [Next]_vars PROVE IndInv'
      OBVIOUS
    <2>1. ListStep /\ HandStep
      BY NextListStep
    <2>2. DispatchStep
      BY NextDispatchStep
    <2>3. ThreadsOK' /\ DispatcherGoesOn
      BY NextThreadsOK
    <2> QED  BY <2>1, <2>2, <2>3
             DEF IndInv, TypeOK, AcceptedAreListed, ListStep, HandStep,
                 DispatchStep, ThreadsOK, DispatcherGoesOn, DispatcherUnused
  <1> QED  BY <1>1, <1>2, PTL DEF Spec

(* Every variable keeps its type.                                          *)
THEOREM TypeCorrect == Spec => []TypeOK
  <1>1. IndInv => TypeOK
    BY DEF IndInv
  <1> QED  BY <1>1, Inductive, PTL

(* An accepted connection is in the list once, or in the accept thread's   *)
(* hand between accept() and push_front; only a throw can lose one there,  *)
(* never a main that returns.                                              *)
THEOREM AcceptedIsListedOrInHand == Spec => []AcceptedAreListed
  <1>1. IndInv => AcceptedAreListed
    BY DEF IndInv
  <1> QED  BY <1>1, Inductive, PTL

(* accept() is only called on a socket that listens.                       *)
THEOREM AcceptsOnlyListening == Spec => []AcceptOnListening
  <1>1. IndInv => AcceptOnListening
    BY ServerAssumption
       DEF IndInv, TypeOK, SocketMatchesCount, AcceptOnListening
  <1> QED  BY <1>1, Inductive, PTL

(* A process that returns from main has dispatched nobody.                 *)
THEOREM ReturnsOnlyUnused == Spec => []ReturnsUnused
  <1>1. IndInv => ReturnsUnused
    BY DEF IndInv, DispatcherUnused, ReturnsUnused
  <1> QED  BY <1>1, Inductive, PTL

(* The server implements the registry of clients.                          *)
THEOREM RegistryImplemented == Spec => ImplementsRegistry
  <1>1. Init => Registry!RegInit
    BY DEF Init, ListInit, NetInit, Registry!RegInit, AddressesOf, DispatchedOf
  <1>2. IndInv /\ [Next]_vars => [Registry!RegNext]_(Registry!regvars)
    BY NextListStep DEF ListStep
  <1> QED  BY <1>1, <1>2, Inductive, PTL
           DEF Spec, ImplementsRegistry, Registry!RegSpec

(* Its list only grows, and no dispatched contact goes back.               *)
THEOREM ListGrows == Spec => Registry!ListOnlyGrows
  BY RegistryImplemented, RegistryOnlyGrows

=============================================================================
