-------------------------- MODULE ContactListProofs --------------------------
(***************************************************************************)
(* What the steps shared by the two concurrent servers do to the list of   *)
(* contacts, for any clients, any list and any limit on sockets.           *)
(***************************************************************************)
EXTENDS ContactList, SequenceTheorems, TLAPS

(* A contact list is described by its addresses.                           *)
LEMMA AddressesType ==
    ASSUME NEW list \in Seq(Contact)
    PROVE  /\ AddressesOf(list) \in Seq(Clients)
           /\ Len(AddressesOf(list)) = Len(list)
           /\ DOMAIN AddressesOf(list) = 1..Len(list)
           /\ DOMAIN list = 1..Len(list)
           /\ Len(list) \in Nat
           /\ \A n \in 1..Len(list) : AddressesOf(list)[n] = list[n].sockaddr_in
  <1>1. DOMAIN list = 1..Len(list) /\ Len(list) \in Nat
    BY LenProperties
  <1>2. \A n \in 1..Len(list) : list[n] \in Contact
    BY ElementOfSeq
  <1>3. \A n \in 1..Len(list) : list[n].sockaddr_in \in Clients
    BY <1>2 DEF Contact
  <1> QED  BY <1>1, <1>3 DEF AddressesOf

(* What a step does to the list and, seen through it, to the registry.     *)
ListStep ==
    /\ ListTypeOK'
    /\ ListMatches'
    /\ [Registry!RegNext]_(Registry!regvars)

(* Most steps leave the entries of the list alone, and the registry sees   *)
(* of them what they do to the clients that wait to be entered.            *)
Waiting == {c \in Clients : conn[c] = "queued"} \cup held

LEMMA EntriesStay ==
    ASSUME UNCHANGED contacts
    PROVE  /\ UNCHANGED <<AddressesOf(contacts), DispatchedOf(contacts)>>
           /\ UNCHANGED Waiting => [Registry!RegNext]_(Registry!regvars)
           /\ \A S \in SUBSET Waiting :
                 Waiting' = Waiting \ S => [Registry!RegNext]_(Registry!regvars)
  <1>1. UNCHANGED <<AddressesOf(contacts), DispatchedOf(contacts)>>
    BY DEF AddressesOf, DispatchedOf
  <1>2. UNCHANGED Waiting => [Registry!RegNext]_(Registry!regvars)
    BY <1>1 DEF Registry!regvars, Waiting
  <1>3. ASSUME NEW S \in SUBSET Waiting, Waiting' = Waiting \ S
        PROVE  [Registry!RegNext]_(Registry!regvars)
    <2>1. CASE S = {}
      BY <1>2, <1>3, <2>1
    <2>2. CASE S # {}
      <3>1. Registry!Withdraw(S)
        BY <1>1, <1>3, <2>2 DEF Registry!Withdraw, Waiting
      <3> QED  BY <3>1 DEF Registry!RegNext, Waiting
    <2> QED  BY <2>1, <2>2
  <1> QED  BY <1>1, <1>2, <1>3

(* AcceptCycle: a successful accept() moves a client from the queue to the *)
(* thread's hand, which the registry does not see.                         *)
LEMMA AcceptIsNoEntry ==
    ASSUME NEW c \in Clients, ListTypeOK, ListMatches, Unlisted = {}, AcceptTakes(c)
    PROVE  ListStep /\ held' = {c} /\ Unlisted' = {c}
  <1> DEFINE A == AddressesOf(contacts)
  <1>1. /\ conn \in [Clients -> {"idle", "queued", "reset", "accepted",
                                 "refused", "dropped"}]
        /\ conn[c] = "queued"
        /\ conn' = [conn EXCEPT ![c] = "accepted"]
        /\ held' = {c} /\ held = {}
    BY DEF AcceptTakes, AcceptReturns, ListTypeOK, NetTypeOK, ListMatches
  <1>2. ListTypeOK'
    BY <1>1 DEF AcceptTakes, AcceptReturns, ListTypeOK, NetTypeOK
  <1>3. Waiting' = Waiting
    BY <1>1 DEF Waiting
  <1>4. Accepted' = Accepted \cup {c} /\ c \notin Accepted
    BY <1>1 DEF Accepted
  <1>5. A' = A
    BY EntriesStay DEF AcceptTakes
  <1>6. Unlisted' = {c}
    BY <1>4, <1>5 DEF Unlisted, ListMatches
  <1>7. ListMatches'
    BY <1>1, <1>4, <1>5, <1>6 DEF ListMatches
  <1> QED  BY <1>1, <1>2, <1>3, <1>6, <1>7, EntriesStay DEF AcceptTakes, ListStep

(* The push_front after it enters the client in the list and the registry. *)
LEMMA PushRegisters ==
    ASSUME NEW c \in held, ListTypeOK, ListMatches, PushFront(c)
    PROVE  ListStep /\ held' = {} /\ Unlisted' = {}
  <1> DEFINE A == AddressesOf(contacts)
             N == Len(contacts)
  <1>1. /\ A \in Seq(Clients) /\ Len(A) = N /\ N \in Nat
        /\ DOMAIN A = 1..N /\ DOMAIN contacts = 1..N
        /\ \A n \in 1..N : A[n] = contacts[n].sockaddr_in
    BY AddressesType DEF ListTypeOK
  <1>2. /\ c \in Clients
        /\ NewContact(c) \in Contact
        /\ NewContact(c).sockaddr_in = c
        /\ NewContact(c).type = "ACCEPT"
    BY DEF ListTypeOK, NewContact, Contact
  <1>3. /\ contacts' = Append(contacts, NewContact(c))
        /\ contacts' \in Seq(Contact)
        /\ Len(contacts') = N + 1
        /\ DOMAIN contacts = 1..N /\ N \in Nat /\ DOMAIN contacts' = 1..(N + 1)
        /\ contacts'[N + 1] = NewContact(c)
        /\ \A n \in 1..N : contacts'[n] = contacts[n]
    BY <1>2 DEF PushFront, ListTypeOK
  <1>4. /\ ListTypeOK'
        /\ held' = {} /\ held = {c}
        /\ conn' = conn
        /\ Unlisted = {c}
    BY <1>3 DEF PushFront, netvars, ListTypeOK, NetTypeOK, ListMatches
  <1>5. AddressesOf(contacts)' = Append(A, c)
    <2>1. /\ AddressesOf(contacts') \in Seq(Clients)
          /\ Len(AddressesOf(contacts')) = N + 1
          /\ AddressesOf(contacts')[N + 1] = c
          /\ \A n \in 1..N : AddressesOf(contacts')[n] = A[n]
      <3>1. /\ AddressesOf(contacts') \in Seq(Clients)
            /\ Len(AddressesOf(contacts')) = Len(contacts')
            /\ \A n \in 1..Len(contacts') :
                  AddressesOf(contacts')[n] = contacts'[n].sockaddr_in
        BY <1>3, AddressesType
      <3>2. N + 1 \in 1..(N + 1) /\ \A n \in 1..N : n \in 1..(N + 1)
        BY <1>1
      <3> HIDE DEF A
      <3> QED  BY <3>1, <3>2, <1>1, <1>2, <1>3
    <2>2. /\ Append(A, c) \in Seq(Clients)
          /\ Len(Append(A, c)) = N + 1
          /\ Append(A, c)[N + 1] = c
          /\ \A n \in 1..N : Append(A, c)[n] = A[n]
      BY <1>1, <1>2
    <2>3. \A n \in 1..(N + 1) : AddressesOf(contacts')[n] = Append(A, c)[n]
      BY <2>1, <2>2, <1>3
    <2> QED  BY <2>1, <2>2, <2>3, SeqEqual DEF AddressesOf
  <1>6. \A n \in 1..N : A[n] # c
    BY <1>1, <1>4 DEF Unlisted, Range
  <1>7. Range(AddressesOf(contacts)') = Range(A) \cup {c}
    BY <1>1, <1>3, <1>5 DEF Range
  <1>8. IsInjective(AddressesOf(contacts))'
    <2>1. \A m, n \in 1..(N + 1) :
             AddressesOf(contacts)'[m] = AddressesOf(contacts)'[n] => m = n
      BY <1>1, <1>3, <1>5, <1>6 DEF ListMatches, IsInjective
    <2> QED  BY <2>1, <1>3 DEF IsInjective, AddressesOf
  <1>9. Accepted' = Accepted /\ c \in Accepted
    BY <1>4 DEF Accepted, Unlisted
  <1>10. Unlisted' = Unlisted \ {c}
    BY <1>7, <1>9 DEF Unlisted, Range
  <1>11. ListMatches'
    BY <1>4, <1>7, <1>8, <1>9, <1>10 DEF ListMatches, Range
  <1>12. DispatchedOf(contacts)' = DispatchedOf(contacts)
    BY <1>2, <1>3 DEF DispatchedOf
  <1>13. Waiting' = Waiting \ {c}
    BY <1>4 DEF Waiting, Unlisted, Accepted
  <1>14. Registry!Register(c)
    BY <1>5, <1>12, <1>13 DEF Registry!Register, Waiting
  <1> QED  BY <1>4, <1>10, <1>11, <1>14 DEF ListStep, Registry!RegNext

-----------------------------------------------------------------------------
(* The clients' own moves leave the list alone: a connection that is made  *)
(* arrives, one that is reset is withdrawn.                                *)
LEMMA ClientMoves ==
    ASSUME NEW c \in Clients, ListTypeOK, ListMatches,
           Connects(c) \/ IsRefused(c) \/ Resets(c), UNCHANGED listvars
    PROVE  ListStep /\ UNCHANGED Unlisted
  <1>1. /\ UNCHANGED <<AddressesOf(contacts), DispatchedOf(contacts)>>
        /\ UNCHANGED <<contacts, held>>
    BY EntriesStay DEF listvars
  <1>2. ListTypeOK'
    BY DEF ListTypeOK, NetTypeOK, Connects, IsRefused, Resets, listvars
  <1>3. Accepted' = Accepted
    BY DEF Accepted, ListTypeOK, NetTypeOK, Connects, IsRefused, Resets
  <1>4. Unlisted' = Unlisted
    BY <1>1, <1>3 DEF Unlisted
  <1>5. ListMatches'
    BY <1>1, <1>3, <1>4 DEF ListMatches
  <1>6. CASE Connects(c)
    <2>1. Waiting' = Waiting \cup {c}
      BY <1>1, <1>6 DEF Waiting, ListTypeOK, NetTypeOK, Connects
    <2>2. c \notin Accepted /\ conn[c] # "queued"
      BY <1>6 DEF Accepted, Connects
    <2>3. c \notin Range(AddressesOf(contacts)) /\ c \notin Waiting
      BY <2>2 DEF ListMatches, Unlisted, Waiting
    <2>4. Registry!Arrive(c)
      BY <1>1, <2>1, <2>3
         DEF Registry!Arrive, Registry!Listed, Registry!Range, Range, Waiting
    <2> QED  BY <1>2, <1>4, <1>5, <2>4 DEF ListStep, Registry!RegNext
  <1>7. CASE IsRefused(c)
    <2>1. Waiting' = Waiting
      BY <1>1, <1>7 DEF Waiting, ListTypeOK, NetTypeOK, IsRefused
    <2> QED  BY <1>1, <1>2, <1>4, <1>5, <2>1, EntriesStay DEF ListStep
  <1>8. CASE Resets(c)
    <2>1. c \notin held
      BY <1>8 DEF Resets, ListMatches, Unlisted, Accepted
    <2>2. Waiting' = Waiting \ {c} /\ {c} \in SUBSET Waiting
      BY <1>1, <1>8, <2>1 DEF Waiting, ListTypeOK, NetTypeOK, Resets
    <2> QED  BY <1>1, <1>2, <1>4, <1>5, <2>2, EntriesStay DEF ListStep
  <1> QED  BY <1>6, <1>7, <1>8

(* closesocket, WSACleanup and the end of the process withdraw whatever is *)
(* queued and touch no accepted connection; the end of the process also    *)
(* takes AcceptCycle's contact with it, if there is one.                   *)
LEMMA ListenerCloses ==
    ASSUME ListTypeOK, ListMatches, DropQueued, UNCHANGED contacts,
           held' = held \/ held' = {},
           listener' \in {"none", "created", "listening", "closed"}
    PROVE  ListStep /\ UNCHANGED Unlisted
  <1>1. UNCHANGED <<AddressesOf(contacts), DispatchedOf(contacts)>>
    BY EntriesStay
  <1>2. ListTypeOK'
    BY DEF ListTypeOK, NetTypeOK, DropQueued
  <1>3. Accepted' = Accepted
    BY DEF Accepted, ListTypeOK, NetTypeOK, DropQueued
  <1>4. Unlisted' = Unlisted
    BY <1>1, <1>3 DEF Unlisted
  <1>5. ListMatches'
    BY <1>1, <1>3, <1>4 DEF ListMatches
  <1>6. Waiting' = held' /\ held' \subseteq Waiting
    BY DEF Waiting, ListTypeOK, NetTypeOK, DropQueued
  <1>7. PICK S : S = Waiting \ held'
    OBVIOUS
  <1>8. S \in SUBSET Waiting /\ Waiting' = Waiting \ S
    BY <1>6, <1>7
  <1>9. [Registry!RegNext]_(Registry!regvars)
    BY <1>8, EntriesStay
  <1> QED  BY <1>2, <1>4, <1>5, <1>9 DEF ListStep

(* The calls that succeed on the listening socket without a client.        *)
LEMMA ListenerOpens ==
    ASSUME ListTypeOK, ListMatches, UNCHANGED <<backlog, conn, listvars>>,
           listener' \in {"none", "created", "listening", "closed"}
    PROVE  ListStep /\ UNCHANGED Unlisted
  <1>1. /\ UNCHANGED <<AddressesOf(contacts), DispatchedOf(contacts)>>
        /\ UNCHANGED <<contacts, held>>
    BY EntriesStay DEF listvars
  <1>2. UNCHANGED <<Accepted, Unlisted, Waiting>>
    BY <1>1 DEF Accepted, Unlisted, Waiting
  <1>3. ListTypeOK' /\ ListMatches'
    BY <1>1, <1>2 DEF ListTypeOK, NetTypeOK, ListMatches
  <1> QED  BY <1>1, <1>2, <1>3, EntriesStay DEF ListStep

(* An accept() that fails at most takes a reset connection off the queue.  *)
LEMMA AcceptFailureKeeps ==
    ASSUME ListTypeOK, ListMatches, AcceptFails, UNCHANGED listvars
    PROVE  ListStep /\ UNCHANGED Unlisted
  <1>1. CASE AcceptConnReset
    <2>1. Head(backlog) \in Clients /\ Tail(backlog) \in Seq(Clients)
      BY <1>1, HeadTailProperties DEF AcceptConnReset, ListTypeOK, NetTypeOK
    <2>2. /\ UNCHANGED <<AddressesOf(contacts), DispatchedOf(contacts)>>
          /\ UNCHANGED <<contacts, held>>
      BY EntriesStay DEF listvars
    <2>3. ListTypeOK'
      BY <1>1, <2>1, <2>2 DEF AcceptConnReset, ListTypeOK, NetTypeOK
    <2>4. Accepted' = Accepted /\ Waiting' = Waiting
      BY <1>1, <2>1, <2>2
         DEF Accepted, Waiting, AcceptConnReset, ListTypeOK, NetTypeOK
    <2>5. Unlisted' = Unlisted
      BY <2>2, <2>4 DEF Unlisted
    <2>6. ListMatches'
      BY <2>2, <2>4, <2>5 DEF ListMatches
    <2> QED  BY <2>2, <2>3, <2>4, <2>5, <2>6, EntriesStay DEF ListStep
  <1>2. CASE AcceptNotSocket \/ AcceptNoHandle
    BY <1>2, ListenerOpens
       DEF AcceptNotSocket, AcceptNoHandle, netvars, ListTypeOK, NetTypeOK
  <1> QED  BY <1>1, <1>2 DEF AcceptFails

-----------------------------------------------------------------------------
(* The dispatcher changes contacts in place.  If it hands over at most one *)
(* contact, which was of type ACCEPT, then in the registry it serves that  *)
(* client or does nothing; m says which, end that none.                    *)
LEMMA DispatchServes ==
    ASSUME ListTypeOK, ListMatches, UNCHANGED <<netvars, held>>,
           contacts' \in Seq(Contact), Len(contacts') = Len(contacts),
           NEW m \in 0..Len(contacts),
           \A n \in 1..Len(contacts) :
              /\ contacts'[n].sockaddr_in = contacts[n].sockaddr_in
              /\ n # m => contacts'[n].type = contacts[n].type,
           m # end => /\ contacts[m].type = "ACCEPT"
                      /\ contacts'[m].type = "CONTACT"
    PROVE  ListStep /\ UNCHANGED Unlisted
  <1> DEFINE A == AddressesOf(contacts)
             B == AddressesOf(contacts')
             N == Len(contacts)
             D == DispatchedOf(contacts)
             E == DispatchedOf(contacts')
  <1>1. /\ A \in Seq(Clients) /\ Len(A) = N /\ DOMAIN A = 1..N /\ N \in Nat
        /\ DOMAIN contacts = 1..N
        /\ \A n \in 1..N : A[n] = contacts[n].sockaddr_in
    BY AddressesType DEF ListTypeOK
  <1>2. /\ B \in Seq(Clients) /\ Len(B) = N /\ DOMAIN contacts' = 1..N
        /\ \A n \in 1..N : B[n] = contacts'[n].sockaddr_in
    BY AddressesType
  <1>3. B = A
    <2>1. \A n \in 1..N : B[n] = A[n]
      BY <1>1, <1>2
    <2> HIDE DEF A, B
    <2> QED  BY <1>1, <1>2, <2>1, SeqEqual
  <1>4. ListTypeOK'
    BY DEF ListTypeOK, NetTypeOK, netvars
  <1>5. UNCHANGED <<Accepted, Waiting, held>>
    BY DEF Accepted, Waiting, netvars
  <1>6. AddressesOf(contacts)' = AddressesOf(contacts)
    BY <1>3 DEF AddressesOf
  <1>7. Unlisted' = Unlisted
    BY <1>5, <1>6 DEF Unlisted
  <1>8. ListMatches'
    BY <1>5, <1>6, <1>7 DEF ListMatches
  <1>9. CASE m = end
    <2>1. E = D
      BY <1>1, <1>2, <1>9 DEF DispatchedOf, end
    <2> QED  BY <1>4, <1>5, <1>6, <1>7, <1>8, <2>1
             DEF ListStep, Registry!regvars, Waiting, DispatchedOf
  <1>10. CASE m # end
    <2>1. m \in 1..N
      BY <1>10 DEF end
    <2>2. E = D \cup {A[m]}
      <3>1. {n \in 1..N : contacts'[n].type = "CONTACT"}
              = {n \in 1..N : contacts[n].type = "CONTACT"} \cup {m}
        BY <1>10, <2>1
      <3>2. /\ D = {A[n] : n \in {k \in 1..N : contacts[k].type = "CONTACT"}}
            /\ E = {A[n] : n \in {k \in 1..N : contacts'[k].type = "CONTACT"}}
        BY <1>1, <1>2 DEF DispatchedOf
      <3> HIDE DEF A, D, E
      <3> QED  BY <3>1, <3>2
    <2>3. A[m] \notin D
      <3>1. \A n \in 1..N : contacts[n].type = "CONTACT" => A[n] # A[m]
        BY <1>1, <1>10, <2>1 DEF ListMatches, IsInjective
      <3> QED  BY <1>1, <3>1 DEF DispatchedOf
    <2>4. A[m] \in Registry!Listed
      BY <1>1, <2>1 DEF Registry!Listed, Registry!Range
    <2>5. Registry!Serve(A[m])
      BY <1>5, <1>6, <2>2 DEF Registry!Serve, Waiting, DispatchedOf
    <2> QED  BY <1>4, <1>7, <1>8, <2>3, <2>4, <2>5 DEF ListStep, Registry!RegNext
  <1> QED  BY <1>9, <1>10

-----------------------------------------------------------------------------
(* What the registry guarantees, and so every server that implements it.    *)
(* Appending a client that is not listed yet lists it once.                *)
LEMMA AppendListsOnce ==
    ASSUME NEW S, NEW s \in Seq(S), NEW c \in S, Registry!IsInjective(s),
           c \notin Registry!Range(s)
    PROVE  /\ Append(s, c) \in Seq(S)
           /\ Registry!IsInjective(Append(s, c))
           /\ Registry!Range(Append(s, c)) = Registry!Range(s) \cup {c}
  <1> DEFINE t == Append(s, c)
  <1>1. /\ DOMAIN s = 1..Len(s) /\ Len(s) \in Nat
        /\ t \in Seq(S) /\ DOMAIN t = 1..(Len(s) + 1)
        /\ t[Len(s) + 1] = c
        /\ \A n \in DOMAIN s : t[n] = s[n]
    OBVIOUS
  <1>2. Registry!IsInjective(t)
    BY <1>1 DEF Registry!IsInjective, Registry!Range
  <1>3. Registry!Range(t) \subseteq Registry!Range(s) \cup {c}
    BY <1>1 DEF Registry!Range
  <1>4. ASSUME NEW x \in Registry!Range(s) PROVE x \in Registry!Range(t)
    <2>1. PICK n \in DOMAIN s : s[n] = x
      BY DEF Registry!Range
    <2>2. n \in DOMAIN t /\ t[n] = x
      BY <1>1, <2>1
    <2> QED  BY <2>2 DEF Registry!Range
  <1>5. c \in Registry!Range(t)
    <2>1. Len(s) + 1 \in DOMAIN t
      BY <1>1
    <2> QED  BY <1>1, <2>1 DEF Registry!Range
  <1> QED  BY <1>1, <1>2, <1>3, <1>4, <1>5

LEMMA RegInvInit == Registry!RegInit => Registry!RegTypeOK /\ Registry!ListedOnce
  BY EmptySeq
     DEF Registry!RegInit, Registry!RegTypeOK, Registry!ListedOnce, Registry!Listed,
         Registry!Range, Registry!IsInjective

LEMMA RegInvStep ==
    Registry!RegTypeOK /\ Registry!ListedOnce /\ [Registry!RegNext]_(Registry!regvars)
        => Registry!RegTypeOK' /\ Registry!ListedOnce'
  <1> SUFFICES ASSUME Registry!RegTypeOK, Registry!ListedOnce,
                      [Registry!RegNext]_(Registry!regvars)
               PROVE  Registry!RegTypeOK' /\ Registry!ListedOnce'
    OBVIOUS
  <1> USE DEF Registry!RegTypeOK, Registry!ListedOnce, Registry!Listed
  <1>1. ASSUME NEW c \in Clients, Registry!Arrive(c)
        PROVE  Registry!RegTypeOK' /\ Registry!ListedOnce'
    BY <1>1 DEF Registry!Arrive
  <1>2. ASSUME NEW S, Registry!Withdraw(S)
        PROVE  Registry!RegTypeOK' /\ Registry!ListedOnce'
    BY <1>2 DEF Registry!Withdraw
  <1>3. ASSUME NEW c \in {d \in Clients : conn[d] = "queued"} \cup held,
               Registry!Register(c)
        PROVE  Registry!RegTypeOK' /\ Registry!ListedOnce'
    <2>1. c \in Clients /\ c \notin Registry!Range(AddressesOf(contacts))
      OBVIOUS
    <2>2. /\ AddressesOf(contacts') \in Seq(Clients)
          /\ Registry!IsInjective(AddressesOf(contacts'))
          /\ Registry!Range(AddressesOf(contacts'))
                = Registry!Range(AddressesOf(contacts)) \cup {c}
      BY <1>3, <2>1, AppendListsOnce DEF Registry!Register
    <2> QED  BY <1>3, <2>2 DEF Registry!Register
  <1>4. ASSUME NEW c \in Registry!Listed, Registry!Serve(c)
        PROVE  Registry!RegTypeOK' /\ Registry!ListedOnce'
    <2>1. c \in Clients
      BY ElementOfSeq, LenProperties DEF Registry!Range
    <2> QED  BY <1>4, <2>1 DEF Registry!Serve
  <1>5. CASE UNCHANGED Registry!regvars
    BY <1>5 DEF Registry!regvars
  <1> QED  BY <1>1, <1>2, <1>3, <1>4, <1>5 DEF Registry!RegNext

(* A server that implements the registry never lists a connection twice,   *)
(* or one that is still to be entered, and serves none it does not list.   *)
THEOREM RegistryListsOnce ==
    ImplementsRegistry => [](Registry!RegTypeOK /\ Registry!ListedOnce)
  BY RegInvInit, RegInvStep, PTL DEF ImplementsRegistry, Registry!RegSpec

(* It never removes or reorders an entry, and never takes a contact back   *)
(* from its service.                                                       *)
THEOREM RegistryOnlyGrows == ImplementsRegistry => Registry!ListOnlyGrows
  <1> DEFINE A == AddressesOf(contacts)
             Grows == /\ Len(A') >= Len(A)
                      /\ SubSeq(A', 1, Len(A)) = A
                      /\ DispatchedOf(contacts) \subseteq DispatchedOf(contacts)'
  <1>1. ASSUME Registry!RegTypeOK, [Registry!RegNext]_(Registry!regvars)
        PROVE  [Grows]_(Registry!regvars)
    <2>1. A \in Seq(Clients)
      BY <1>1 DEF Registry!RegTypeOK
    <2> HIDE DEF A
    <2>2. SubSeq(A, 1, Len(A)) = A /\ Len(A) \in Nat
      BY <2>1
    <2>3. ASSUME NEW c \in Clients, Registry!Register(c) PROVE Grows
      <3>1. A' = Append(A, c)
        BY <2>3 DEF Registry!Register, A
      <3>2. DispatchedOf(contacts)' = DispatchedOf(contacts)
        BY <2>3 DEF Registry!Register
      <3> QED  BY <2>1, <3>1, <3>2
    <2>4. ASSUME NEW c, Registry!Arrive(c) \/ Registry!Withdraw(c) \/ Registry!Serve(c)
          PROVE  Grows
      BY <2>2, <2>4 DEF Registry!Arrive, Registry!Withdraw, Registry!Serve, A
    <2>5. {c \in Clients : conn[c] = "queued"} \cup held \subseteq Clients
      BY <1>1 DEF Registry!RegTypeOK
    <2> QED  BY <1>1, <2>3, <2>4, <2>5 DEF Registry!RegNext
  <1>2. ImplementsRegistry => []Registry!RegTypeOK
    BY RegistryListsOnce, PTL
  <1> QED  BY <1>1, <1>2, PTL
           DEF ImplementsRegistry, Registry!RegSpec, Registry!ListOnlyGrows

=============================================================================
