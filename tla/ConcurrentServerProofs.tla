----------------------- MODULE ConcurrentServerProofs -----------------------
(***************************************************************************)
(* ConcurrentServer keeps its types and its safety invariants, and         *)
(* implements the registry of clients, for any set of clients, any AS_SQ,  *)
(* any console and any of the failures.                                    *)
(***************************************************************************)
EXTENDS ConcurrentServer, ContactListProofs

LEMMA InitIndInv == Init => IndInv
  <1> SUFFICES ASSUME Init PROVE IndInv
    OBVIOUS
  <1> USE DEF Init, ListInit, NetInit, end
  <1>1. ListTypeOK
    BY DEF ListTypeOK, NetTypeOK
  <1>2. TypeOK
    <2>1. Len(contacts) = 0 /\ 0 \in 0..Len(contacts) /\ 0 \in 0..AS_SQ
      BY ServerAssumption
    <2>2. /\ cmd \in TalkersCommand /\ acc \in AcceptThread
          /\ asleep \in BOOLEAN
      BY DEF TalkersCommand, AcceptThread
    <2> QED  BY <1>1, <2>1, <2>2 DEF TypeOK
  <1>3. AcceptedAreListed
    BY DEF AcceptedAreListed, ListMatches, Unlisted, Accepted, AddressesOf,
           IsInjective, Range
  <1> QED  BY <1>2, <1>3
           DEF IndInv, OneContactDispatched, SocketMatchesCount,
               ThreadsStand, Ended

-----------------------------------------------------------------------------
(* What every step does to the dispatcher's place and its contacts.        *)
DispatchStep == OneContactDispatched' /\ at' \in 0..Len(contacts')

(* What every step does to the contact the accept thread has in hand.      *)
HandStep ==
    /\ held' # {} => acc' = "push"
    /\ Unlisted' # held' => main' = "aborted"

LEMMA KeepsHand ==
    ASSUME IndInv, UNCHANGED <<held, Unlisted>>, acc # "push" \/ acc' = acc,
           main = "aborted" => main' = "aborted"
    PROVE  HandStep
  BY DEF HandStep, IndInv, AcceptedAreListed

LEMMA MainListStep ==
    ASSUME IndInv, Main PROVE ListStep /\ HandStep
  <1> USE DEF IndInv, TypeOK, AcceptedAreListed
  <1>1. CASE CreateAcceptThread \/ CreateDispatchThread
    <2>1. ListStep /\ UNCHANGED Unlisted
      BY <1>1, ListenerOpens
         DEF CreateAcceptThread, CreateDispatchThread, netvars, ListTypeOK,
             NetTypeOK
    <2>2. HandStep
      BY <1>1, <2>1, KeepsHand
         DEF CreateAcceptThread, CreateDispatchThread, ThreadsStand, listvars,
             accvars
    <2> QED  BY <2>1, <2>2
  <1>2. CASE CreateThreadFails
    <2>1. ListStep
      BY <1>2, ListenerCloses DEF CreateThreadFails
    <2> QED  BY <1>2, <2>1 DEF CreateThreadFails, HandStep
  <1> QED  BY <1>1, <1>2 DEF Main

LEMMA AcceptListStep ==
    ASSUME IndInv, AcceptServer PROVE ListStep /\ HandStep
  <1> USE DEF IndInv, TypeOK, AcceptedAreListed
  <1>1. CASE WSAStartup \/ LoopTest \/ Switch \/ Start \/ StartAlreadyDone
               \/ StopFails \/ StopGuard \/ AcceptGivesUp \/ AcceptNothing
               \/ Reply
    <2>1. /\ UNCHANGED <<netvars, listvars, main>>
          /\ acc # "push"
      BY <1>1
         DEF WSAStartup, LoopTest, Switch, Start, StartAlreadyDone, StopFails,
             StopGuard, AcceptGivesUp, AcceptNothing, AcceptWouldBlock, Reply,
             AccGoes
    <2>2. ListStep /\ UNCHANGED Unlisted
      BY <2>1, ListenerOpens DEF netvars, ListTypeOK, NetTypeOK
    <2> QED  BY <2>1, <2>2, KeepsHand DEF listvars
  <1>2. CASE OpenSocket \/ OpenSocketFails
    <2>1. ListStep /\ UNCHANGED Unlisted
      BY <1>2, ListenerOpens DEF OpenSocket, OpenSocketFails
    <2> QED  BY <1>2, <2>1, KeepsHand DEF OpenSocket, OpenSocketFails, listvars
  <1>3. CASE Stop \/ WSACleanup
    <2>1. ListStep /\ UNCHANGED Unlisted
      BY <1>3, ListenerCloses DEF Stop, WSACleanup, listvars
    <2> QED  BY <1>3, <2>1, KeepsHand DEF Stop, WSACleanup, listvars
  <1>4. CASE AcceptClient
    <2>1. main # "aborted" /\ held = {} /\ Unlisted = {}
      BY <1>4 DEF AcceptClient, ThreadsStand
    <2>2. PICK c \in Clients : AcceptTakes(c)
      BY <1>4 DEF AcceptClient
    <2>3. ListStep /\ held' = {c} /\ Unlisted' = {c}
      BY <2>1, <2>2, AcceptIsNoEntry
    <2> QED  BY <1>4, <2>3 DEF AcceptClient, HandStep
  <1>5. CASE Push
    <2>1. PICK c \in held : PushFront(c)
      BY <1>5 DEF Push
    <2>2. ListStep /\ held' = {} /\ Unlisted' = {}
      BY <2>1, PushRegisters
    <2> QED  BY <2>2 DEF HandStep
  <1>6. CASE AcceptThrows
    <2>1. ListStep /\ UNCHANGED Unlisted
      BY <1>6, AcceptFailureKeeps DEF AcceptThrows
    <2> QED  BY <1>6, <2>1, KeepsHand DEF AcceptThrows, listvars
  <1> QED  BY <1>1, <1>2, <1>3, <1>4, <1>5, <1>6 DEF AcceptServer, Accepting

(* A contact the dispatcher or the timer rewrites in place.                *)
LEMMA ContactFields ==
    ASSUME NEW k \in Contact
    PROVE  /\ [k EXCEPT !.htimer = "called"] \in Contact
           /\ [k EXCEPT !.htimer = "due"] \in Contact
           /\ [k EXCEPT !.type = "CONTACT", !.htimer = "set"] \in Contact
  BY DEF Contact

LEMMA VisitListStep ==
    ASSUME IndInv, Visit PROVE ListStep /\ HandStep /\ DispatchStep
  <1> DEFINE new == [contacts[at] EXCEPT !.type = "CONTACT", !.htimer = "set"]
  <1>1. at \in 1..Len(contacts) /\ contacts \in Seq(Contact)
    BY LenProperties DEF IndInv, TypeOK, ListTypeOK, Visit, end
  <1>2. contacts[at] \in Contact /\ new \in Contact
    BY <1>1, ElementOfSeq, ContactFields
  <1>3. contacts' = [contacts EXCEPT ![at] = new]
    BY <1>1, <1>2 DEF Visit, Contact
  <1>4. /\ contacts' \in Seq(Contact)
        /\ Len(contacts') = Len(contacts)
        /\ \A n \in 1..Len(contacts) :
              contacts'[n] = IF n = at THEN new ELSE contacts[n]
    BY <1>1, <1>2, <1>3, ExceptSeq
  <1>5. /\ new.sockaddr_in = contacts[at].sockaddr_in
        /\ new.type = "CONTACT"
    BY <1>2 DEF Contact
  <1>6. /\ at \in 0..Len(contacts) /\ at # end
        /\ contacts[at].type = "ACCEPT" /\ contacts'[at].type = "CONTACT"
    BY <1>1, <1>4, <1>5 DEF Visit, IsNew
  <1>7. UNCHANGED <<netvars, held, main, acc>>
    BY DEF Visit, accvars
  <1>8. DispatchStep
    BY <1>1, <1>4, LenProperties
       DEF DispatchStep, OneContactDispatched, Visit, IndInv
  <1> HIDE DEF new
  <1>9. ListStep /\ UNCHANGED Unlisted
    BY <1>1, <1>4, <1>5, <1>6, <1>7, DispatchServes
       DEF IndInv, TypeOK, AcceptedAreListed
  <1> QED  BY <1>7, <1>8, <1>9, KeepsHand

LEMMA SleepListStep ==
    ASSUME IndInv, Sleep PROVE ListStep /\ HandStep /\ DispatchStep
  <1>1. contacts \in Seq(Contact) /\ UNCHANGED <<netvars, held, main, acc>>
    BY DEF IndInv, TypeOK, ListTypeOK, Sleep, accvars
  <1>2. /\ DOMAIN contacts = 1..Len(contacts) /\ Len(contacts) \in Nat
        /\ \A n \in 1..Len(contacts) : contacts[n] \in Contact
    BY <1>1, LenProperties, ElementOfSeq
  <1> DEFINE woken(n) == IF contacts[n].htimer = "due"
                           THEN [contacts[n] EXCEPT !.htimer = "called"]
                           ELSE contacts[n]
  <1>3. /\ contacts' \in Seq(Contact)
        /\ Len(contacts') = Len(contacts)
        /\ \A n \in 1..Len(contacts) : contacts'[n] = woken(n)
    <2>1. \A n \in 1..Len(contacts) : woken(n) \in Contact
      BY <1>2, ContactFields
    <2>2. contacts' = [n \in 1..Len(contacts) |-> woken(n)]
      BY <1>2 DEF Sleep
    <2> HIDE DEF woken
    <2> QED  BY <1>2, <2>1, <2>2
  <1>4. \A n \in 1..Len(contacts) :
           /\ contacts'[n].sockaddr_in = contacts[n].sockaddr_in
           /\ contacts'[n].type = contacts[n].type
    BY <1>2, <1>3 DEF Contact
  <1>5. 0 \in 0..Len(contacts) /\ 0 = end
    BY <1>2 DEF end
  <1>6. DispatchStep
    <2>1. DOMAIN contacts' = 1..Len(contacts)
      BY <1>3, LenProperties
    <2>2. at' = at /\ at \in 0..Len(contacts)
      BY DEF Sleep, Advance, IndInv, TypeOK
    <2> QED  BY <1>2, <1>3, <1>4, <2>1, <2>2
             DEF DispatchStep, OneContactDispatched, IndInv
  <1>7. ListStep /\ UNCHANGED Unlisted
    BY <1>1, <1>3, <1>4, <1>5, DispatchServes
       DEF IndInv, TypeOK, AcceptedAreListed
  <1> QED  BY <1>1, <1>6, <1>7, KeepsHand

LEMMA TimerListStep ==
    ASSUME IndInv, TimerExpires PROVE ListStep /\ HandStep /\ DispatchStep
  <1>1. contacts \in Seq(Contact) /\ UNCHANGED <<netvars, held, main, acc>>
    BY DEF IndInv, TypeOK, ListTypeOK, TimerExpires, accvars
  <1>2. PICK m \in 1..Len(contacts) :
           contacts' = [contacts EXCEPT ![m].htimer = "due"]
    BY <1>1, LenProperties DEF TimerExpires
  <1> DEFINE new == [contacts[m] EXCEPT !.htimer = "due"]
  <1>3. contacts[m] \in Contact /\ new \in Contact
    BY <1>1, ElementOfSeq, ContactFields
  <1>4. contacts' = [contacts EXCEPT ![m] = new]
    BY <1>2
  <1>5. /\ contacts' \in Seq(Contact)
        /\ Len(contacts') = Len(contacts)
        /\ \A n \in 1..Len(contacts) :
              contacts'[n] = IF n = m THEN new ELSE contacts[n]
    BY <1>1, <1>3, <1>4, ExceptSeq
  <1>6. new.sockaddr_in = contacts[m].sockaddr_in /\ new.type = contacts[m].type
    BY <1>3 DEF Contact
  <1>7. 0 \in 0..Len(contacts) /\ 0 = end
    BY <1>1, LenProperties DEF end
  <1>8. DispatchStep
    <2>1. /\ DOMAIN contacts' = 1..Len(contacts)
          /\ DOMAIN contacts = 1..Len(contacts)
      BY <1>1, <1>5, LenProperties
    <2>2. at' = at /\ at \in 0..Len(contacts)
      BY DEF TimerExpires, dispvars, IndInv, TypeOK
    <2> HIDE DEF new
    <2> QED  BY <1>5, <1>6, <2>1, <2>2
             DEF DispatchStep, OneContactDispatched, IndInv
  <1> HIDE DEF new
  <1>9. ListStep /\ UNCHANGED Unlisted
    BY <1>1, <1>5, <1>6, <1>7, DispatchServes
       DEF IndInv, TypeOK, AcceptedAreListed
  <1> QED  BY <1>1, <1>8, <1>9, KeepsHand

LEMMA NextListStep ==
    ASSUME IndInv, [Next]_vars PROVE ListStep /\ HandStep
  <1>1. CASE Main
    BY <1>1, MainListStep
  <1>2. CASE AcceptServer
    BY <1>2, AcceptListStep
  <1>3. CASE Begin \/ Console \/ UNCHANGED vars
    <2>1. UNCHANGED <<netvars, listvars, main, acc>>
      BY <1>3 DEF Begin, Console, vars, accvars
    <2>2. ListStep /\ UNCHANGED Unlisted
      BY <2>1, ListenerOpens
         DEF netvars, IndInv, TypeOK, ListTypeOK, NetTypeOK, AcceptedAreListed
    <2> QED  BY <2>1, <2>2, KeepsHand DEF listvars
  <1>4. CASE Visit \/ Sleep
    BY <1>4, VisitListStep, SleepListStep
  <1>5. CASE TimerExpires
    BY <1>5, TimerListStep
  <1>6. ASSUME NEW c \in Clients, Client(c) PROVE ListStep /\ HandStep
    <2>1. ListStep /\ UNCHANGED Unlisted
      BY <1>6, ClientMoves DEF Client, IndInv, TypeOK, AcceptedAreListed
    <2> QED  BY <1>6, <2>1, KeepsHand DEF Client, listvars, accvars
  <1> QED  BY <1>1, <1>2, <1>3, <1>4, <1>5, <1>6 DEF Next, DispatchServer

-----------------------------------------------------------------------------
(* The dispatcher's invariant: a push adds an ACCEPT contact on the other  *)
(* side of the node it stands on, and begin() is only read while no        *)
(* contact has been handed over.                                           *)
LEMMA PushDispatchStep ==
    ASSUME IndInv, Push PROVE DispatchStep
  <1>1. PICK c \in Clients : contacts' = Append(contacts, NewContact(c))
    BY DEF Push, PushFront, IndInv, TypeOK, ListTypeOK
  <1>2. NewContact(c) \in Contact /\ NewContact(c).type = "ACCEPT"
    BY DEF NewContact, Contact
  <1>3. contacts \in Seq(Contact) /\ at \in 0..Len(contacts) /\ at' = at
    BY DEF IndInv, TypeOK, ListTypeOK, Push, dispvars
  <1>4. /\ Len(contacts) \in Nat
        /\ DOMAIN contacts = 1..Len(contacts)
        /\ DOMAIN contacts' = 1..(Len(contacts) + 1)
        /\ Len(contacts') = Len(contacts) + 1
        /\ contacts'[Len(contacts) + 1] = NewContact(c)
        /\ \A n \in 1..Len(contacts) : contacts'[n] = contacts[n]
    BY <1>1, <1>2, <1>3
  <1>5. \A n \in 1..(Len(contacts) + 1) :
           n = Len(contacts) + 1 \/ n \in 1..Len(contacts)
    BY <1>4
  <1> QED  BY <1>2, <1>3, <1>4, <1>5
           DEF DispatchStep, OneContactDispatched, IndInv

LEMMA BeginDispatchStep ==
    ASSUME IndInv, Begin PROVE DispatchStep
  <1>1. /\ DOMAIN contacts = 1..Len(contacts) /\ Len(contacts) \in Nat
        /\ contacts' = contacts
    BY LenProperties DEF IndInv, TypeOK, ListTypeOK, listvars, Begin
  <1>2. \A n \in DOMAIN contacts : contacts[n].type # "CONTACT"
    BY <1>1 DEF IndInv, OneContactDispatched, Begin, end
  <1>3. at' \in 0..Len(contacts)
    BY <1>1 DEF Begin
  <1> QED  BY <1>1, <1>2, <1>3 DEF DispatchStep, OneContactDispatched

LEMMA NextDispatchStep ==
    ASSUME IndInv, [Next]_vars PROVE DispatchStep
  <1>1. CASE UNCHANGED <<contacts, at>>
    BY <1>1 DEF DispatchStep, IndInv, TypeOK, OneContactDispatched
  <1>2. CASE Main \/ Console \/ UNCHANGED vars
    BY <1>1, <1>2
       DEF Main, CreateAcceptThread, CreateDispatchThread, CreateThreadFails,
           Console, vars, listvars, dispvars
  <1>3. CASE AcceptServer
    BY <1>1, <1>3, PushDispatchStep
       DEF AcceptServer, Accepting, WSAStartup, LoopTest, Switch, Start,
           StartAlreadyDone, OpenSocket, OpenSocketFails, Stop, StopFails,
           StopGuard, AcceptGivesUp, AcceptNothing, AcceptClient, AcceptTakes,
           AcceptThrows, Reply, WSACleanup, AccGoes, listvars, dispvars
  <1>4. CASE DispatchServer \/ TimerExpires
    BY <1>4, BeginDispatchStep, VisitListStep, SleepListStep, TimerListStep
       DEF DispatchServer
  <1>5. ASSUME NEW c \in Clients, Client(c) PROVE DispatchStep
    BY <1>1, <1>5 DEF Client, listvars, dispvars
  <1> QED  BY <1>2, <1>3, <1>4, <1>5 DEF Next

-----------------------------------------------------------------------------
(* The accept thread's variables.                                          *)
AcceptThreadOK ==
    /\ main \in {"boot", "spawned", "joining", "aborted"}
    /\ cmd \in TalkersCommand
    /\ previous_command \in {"GETCOMMAND", "START"}
    /\ acc \in AcceptThread
    /\ sq \in {0, AS_SQ}
    /\ tries \in 0..AS_SQ
    /\ asleep \in BOOLEAN
    /\ SocketMatchesCount
    /\ ThreadsStand

LEMMA NextAcceptThreadOK ==
    ASSUME IndInv, [Next]_vars PROVE AcceptThreadOK'
  <1> USE ServerAssumption
      DEF IndInv, TypeOK, SocketMatchesCount, ThreadsStand, Ended,
          AcceptThread, AcceptThreadOK
  <1>1. CASE Main \/ Console \/ UNCHANGED vars
    BY <1>1 DEF Main, CreateAcceptThread, CreateDispatchThread,
                CreateThreadFails, Console, vars, netvars, accvars, dispvars
  <1>2. CASE AcceptServer
    <2> USE DEF AccGoes, TriesLeft, netvars, dispvars
    <2>1. CASE WSAStartup \/ LoopTest \/ Switch
      BY <2>1 DEF WSAStartup, LoopTest, Switch
    <2>2. CASE Start \/ StartAlreadyDone \/ Reply
      BY <2>2 DEF Start, StartAlreadyDone, Reply, TalkersCommand
    <2>3. CASE OpenSocket \/ OpenSocketFails
      BY <2>3 DEF OpenSocket, OpenSocketFails, StartDone
    <2>4. CASE Stop \/ StopFails \/ WSACleanup
      BY <2>4 DEF Stop, StopFails, StoppedCount, WSACleanup
    <2>5. CASE StopGuard
      BY <2>5 DEF StopGuard
    <2>6. CASE AcceptGivesUp \/ AcceptNothing
      BY <2>6 DEF AcceptGivesUp, AcceptNothing, AcceptWouldBlock, CountAfterTry
    <2>7. CASE AcceptClient \/ Push \/ AcceptThrows
      BY <2>7 DEF AcceptClient, AcceptTakes, AcceptReturns, Push, PushFront,
                  AcceptThrows,
                  AcceptFails, AcceptNotSocket, AcceptConnReset, AcceptNoHandle
    <2> QED  BY <1>2, <2>1, <2>2, <2>3, <2>4, <2>5, <2>6, <2>7
             DEF AcceptServer, Accepting
  <1>3. CASE DispatchServer \/ TimerExpires
    <2> USE DEF netvars, accvars, dispvars
    <2>1. CASE Begin
      BY <2>1 DEF Begin, end
    <2>2. CASE Visit
      BY <2>2 DEF Visit
    <2>3. CASE Sleep
      BY <2>3 DEF Sleep
    <2>4. CASE TimerExpires
      BY <2>4 DEF TimerExpires
    <2> QED  BY <1>3, <2>1, <2>2, <2>3, <2>4 DEF DispatchServer
  <1>4. ASSUME NEW c \in Clients, Client(c) PROVE AcceptThreadOK'
    BY <1>4 DEF Client, Connects, IsRefused, Resets, accvars, dispvars
  <1> QED  BY <1>1, <1>2, <1>3, <1>4 DEF Next

-----------------------------------------------------------------------------
(* All conjuncts of the inductive invariant hold in every reachable state. *)
THEOREM Inductive == Spec => []IndInv
  <1>1. Init => IndInv
    BY InitIndInv
  <1>2. IndInv /\ [Next]_vars => IndInv'
    <2> SUFFICES ASSUME IndInv, [Next]_vars PROVE IndInv'
      OBVIOUS
    <2>1. ListStep /\ HandStep
      BY NextListStep
    <2>2. DispatchStep
      BY NextDispatchStep
    <2>3. AcceptThreadOK'
      BY NextAcceptThreadOK
    <2> QED  BY <2>1, <2>2, <2>3
             DEF IndInv, TypeOK, AcceptedAreListed, ListStep, HandStep,
                 DispatchStep, AcceptThreadOK
  <1> QED  BY <1>1, <1>2, PTL DEF Spec

(* Every variable keeps its type: the dispatcher's node is always a node   *)
(* of the list, and the counts stay within AS_SQ.                          *)
THEOREM TypeCorrect == Spec => []TypeOK
  <1>1. IndInv => TypeOK
    BY DEF IndInv
  <1> QED  BY <1>1, Inductive, PTL

(* accept() is only called on a socket that listens, for any interleaving  *)
(* of any commands with the accept thread.                                 *)
THEOREM AcceptsOnlyListening == Spec => []AcceptOnListening
  <1>1. IndInv => AcceptOnListening
    BY ServerAssumption
       DEF IndInv, TypeOK, SocketMatchesCount, Ended, AcceptOnListening
  <1> QED  BY <1>1, Inductive, PTL

(* open_socket is never called while an earlier socket is bound.           *)
THEOREM OpensOnlyOnce == Spec => []OpensOnce
  <1>1. IndInv => OpensOnce
    BY DEF IndInv, TypeOK, SocketMatchesCount, Ended, OpensOnce
  <1> QED  BY <1>1, Inductive, PTL

(* An accepted connection is in the list once, or in the accept thread's   *)
(* hand between accept() and push_front; only a CreateThread that fails at *)
(* that moment, and ends the process, can lose one.                        *)
THEOREM AcceptedIsListedOrInHand == Spec => []AcceptedAreListed
  <1>1. IndInv => AcceptedAreListed
    BY DEF IndInv
  <1> QED  BY <1>1, Inductive, PTL

(* However many clients connect, one of them at most is ever dispatched.   *)
THEOREM OnlyOneIsDispatched == Spec => []OneContactDispatched
  <1>1. IndInv => OneContactDispatched
    BY DEF IndInv
  <1> QED  BY <1>1, Inductive, PTL

(* The server implements the registry of clients.                          *)
THEOREM RegistryImplemented == Spec => ImplementsRegistry
  <1>1. Init => Registry!RegInit
    BY DEF Init, ListInit, NetInit, Registry!RegInit, AddressesOf, DispatchedOf
  <1>2. IndInv /\ [Next]_vars => [Registry!RegNext]_(Registry!regvars)
    BY NextListStep DEF ListStep
  <1> QED  BY <1>1, <1>2, Inductive, PTL
           DEF Spec, ImplementsRegistry, Registry!RegSpec

(* Its list only grows, and no dispatched contact goes back.               *)
THEOREM ListGrows == Spec => Registry!ListOnlyGrows
  BY RegistryImplemented, RegistryOnlyGrows

-----------------------------------------------------------------------------
(* The timer: a procedure that misses the SleepEx of its own contact is    *)
(* never called.  This is a consequence of the dispatcher's standing on    *)
(* one contact for ever: a contact with a timer is dispatched, so no       *)
(* second one comes to a SleepEx of its own.                               *)
TimedAreDispatched ==
    \A n \in DOMAIN contacts :
        contacts[n].htimer # "none" => contacts[n].type = "CONTACT"

Missed(n) == Due(n) /\ ~asleep

(* What every step preserves, given the invariant.                         *)
TimerStep == TimedAreDispatched' /\ \A n : Missed(n) => Missed(n)'

LEMMA KeepsTimers ==
    ASSUME TimedAreDispatched, UNCHANGED <<contacts, asleep>> PROVE TimerStep
  BY DEF TimerStep, TimedAreDispatched, Missed, Due

(* A contact comes without a timer.                                        *)
LEMMA PushTimerStep ==
    ASSUME IndInv, TimedAreDispatched, Push PROVE TimerStep
  <1>1. PICK c \in Clients : contacts' = Append(contacts, NewContact(c))
    BY DEF Push, PushFront, IndInv, TypeOK, ListTypeOK
  <1>2. NewContact(c) \in Contact /\ NewContact(c).htimer = "none"
    BY DEF NewContact, Contact
  <1>3. contacts \in Seq(Contact) /\ asleep' = asleep
    BY DEF IndInv, TypeOK, ListTypeOK, Push, dispvars
  <1>4. /\ DOMAIN contacts = 1..Len(contacts)
        /\ DOMAIN contacts' = 1..(Len(contacts) + 1)
        /\ contacts'[Len(contacts) + 1] = NewContact(c)
        /\ \A n \in 1..Len(contacts) : contacts'[n] = contacts[n]
        /\ Len(contacts) \in Nat
    BY <1>1, <1>2, <1>3
  <1>5. \A n \in 1..(Len(contacts) + 1) :
           n = Len(contacts) + 1 \/ n \in 1..Len(contacts)
    BY <1>4
  <1>6. 1..Len(contacts) \subseteq 1..(Len(contacts) + 1)
    BY <1>4
  <1>7. TimedAreDispatched'
    BY <1>2, <1>4, <1>5 DEF TimedAreDispatched
  <1>8. ASSUME NEW n, Missed(n) PROVE Missed(n)'
    BY <1>3, <1>4, <1>6, <1>8 DEF Missed, Due
  <1> QED  BY <1>7, <1>8 DEF TimerStep

(* Where a contact is visited no timer has been set before.                *)
LEMMA VisitTimerStep ==
    ASSUME IndInv, TimedAreDispatched, Visit PROVE TimerStep
  <1> DEFINE new == [contacts[at] EXCEPT !.type = "CONTACT", !.htimer = "set"]
  <1>1. at \in 1..Len(contacts) /\ contacts \in Seq(Contact)
    BY LenProperties DEF IndInv, TypeOK, ListTypeOK, Visit, end
  <1>2. contacts[at] \in Contact
    BY <1>1, ElementOfSeq
  <1>3. contacts' = [contacts EXCEPT ![at] = new]
    BY <1>1, <1>2 DEF Visit, Contact
  <1>4. new.type = "CONTACT"
    BY <1>2 DEF Contact
  <1> HIDE DEF new
  <1>5. /\ DOMAIN contacts' = DOMAIN contacts
        /\ \A n \in DOMAIN contacts :
              contacts'[n] = IF n = at THEN new ELSE contacts[n]
    BY <1>3
  <1>6. TimedAreDispatched'
    BY <1>4, <1>5 DEF TimedAreDispatched
  <1>7. \A n : ~Due(n)
    BY DEF IndInv, OneContactDispatched, TimedAreDispatched, Visit, IsNew, Due
  <1> QED  BY <1>6, <1>7 DEF TimerStep, Missed

(* The procedure is called, or was not due; no type changes.               *)
LEMMA SleepTimerStep ==
    ASSUME IndInv, TimedAreDispatched, Sleep PROVE TimerStep
  <1>1. /\ \A n \in DOMAIN contacts : contacts[n] \in Contact
        /\ DOMAIN contacts' = DOMAIN contacts
    BY ElementOfSeq, LenProperties DEF IndInv, TypeOK, ListTypeOK, Sleep
  <1>2. \A n \in DOMAIN contacts :
           /\ contacts'[n].type = contacts[n].type
           /\ contacts'[n].htimer # "none" => contacts[n].htimer # "none"
    BY <1>1 DEF Sleep, Contact
  <1>3. TimedAreDispatched'
    BY <1>1, <1>2 DEF TimedAreDispatched
  <1> QED  BY <1>3 DEF TimerStep, Missed, Sleep

(* Only a timer that was set becomes due.                                  *)
LEMMA ExpiryTimerStep ==
    ASSUME IndInv, TimedAreDispatched, TimerExpires PROVE TimerStep
  <1>1. /\ \A n \in DOMAIN contacts : contacts[n] \in Contact
        /\ asleep' = asleep
    BY ElementOfSeq, LenProperties
       DEF IndInv, TypeOK, ListTypeOK, TimerExpires, dispvars
  <1>2. PICK m \in DOMAIN contacts :
           /\ contacts[m].htimer = "set"
           /\ contacts' = [contacts EXCEPT ![m].htimer = "due"]
    BY DEF TimerExpires
  <1>3. /\ DOMAIN contacts' = DOMAIN contacts
        /\ \A n \in DOMAIN contacts :
              /\ contacts'[n].type = contacts[n].type
              /\ n # m => contacts'[n] = contacts[n]
    BY <1>1, <1>2 DEF Contact
  <1>4. TimedAreDispatched'
    BY <1>2, <1>3 DEF TimedAreDispatched
  <1>5. ASSUME NEW n, Missed(n) PROVE Missed(n)'
    BY <1>1, <1>2, <1>3, <1>5 DEF Missed, Due
  <1> QED  BY <1>4, <1>5 DEF TimerStep

LEMMA NextTimerStep ==
    ASSUME IndInv, TimedAreDispatched, [Next]_vars PROVE TimerStep
  <1>1. CASE Main \/ Begin \/ Console \/ UNCHANGED vars
    BY <1>1, KeepsTimers
       DEF Main, CreateAcceptThread, CreateDispatchThread, CreateThreadFails,
           Begin, Console, vars, listvars, dispvars
  <1>2. CASE AcceptServer
    BY <1>2, KeepsTimers, PushTimerStep
       DEF AcceptServer, Accepting, WSAStartup, LoopTest, Switch, Start,
           StartAlreadyDone, OpenSocket, OpenSocketFails, Stop, StopFails,
           StopGuard, AcceptGivesUp, AcceptNothing, AcceptClient, AcceptTakes,
           AcceptThrows, Reply, WSACleanup, AccGoes, listvars, dispvars
  <1>3. CASE Visit \/ Sleep \/ TimerExpires
    BY <1>3, VisitTimerStep, SleepTimerStep, ExpiryTimerStep
  <1>4. ASSUME NEW c \in Clients, Client(c) PROVE TimerStep
    BY <1>4, KeepsTimers DEF Client, listvars, dispvars
  <1> QED  BY <1>1, <1>2, <1>3, <1>4 DEF Next, DispatchServer

-----------------------------------------------------------------------------
LEMMA TimersInvariant == Spec => []TimedAreDispatched
  <1>1. Init => TimedAreDispatched
    BY DEF Init, ListInit, TimedAreDispatched
  <1>2. IndInv /\ TimedAreDispatched /\ [Next]_vars => TimedAreDispatched'
    BY NextTimerStep DEF TimerStep
  <1> QED  BY <1>1, <1>2, Inductive, PTL DEF Spec

(* A timer procedure that is not due by the SleepEx of its own contact is  *)
(* never called, however many contacts follow.                             *)
THEOREM LateTimersAreLost == Spec => LateTimerIsLost
  <1>1. ASSUME NEW n \in 1..Cardinality(Clients)
        PROVE  Spec => [](Due(n) /\ ~asleep => []Due(n))
    <2>1. IndInv /\ TimedAreDispatched /\ [Next]_vars
             => (Missed(n) => Missed(n)')
      BY NextTimerStep DEF TimerStep
    <2>2. Missed(n) <=> Due(n) /\ ~asleep
      BY DEF Missed
    <2> QED  BY <2>1, <2>2, Inductive, TimersInvariant, PTL DEF Spec
  <1> QED  BY <1>1 DEF LateTimerIsLost

=============================================================================
