--------------------------- MODULE MailslotProofs ---------------------------
(***************************************************************************)
(* lab7, for any number of servers and clients and any number of letters:  *)
(* a server reads what each client has written to it, once and in order, a *)
(* STOP ends it after all its client has ordered, and the mailslot is a    *)
(* log that is read up to the first STOP.                                  *)
(***************************************************************************)
EXTENDS Mailslot, SequenceTheorems, TLAPS

Letters == printed \o box

OneReads == \A s, t \in Servers : Reading(s) /\ Reading(t) => s = t

BoxOK == (\A s \in Servers : ~Reading(s)) => box = <<>>

ClientsOK ==
    \A c \in Clients :
        /\ client[c] = "idle" => handle[c] = NoServer
        /\ client[c] \in {"idle", "prompt"} => i[c] = 0
        /\ client[c] \in {"prompt", "write", "close", "gone"} => handle[c] # NoServer
        /\ handle[c] # NoServer => server[handle[c]] # "idle"
        /\ client[c] = "write" => i[c] <= count[c]
        /\ client[c] \in {"close", "gone"} => i[c] = count[c]

(* What a client has written, by where it is and how many its user wants.  *)
Standing(c, at, all) ==
    /\ InOrder(c, Letters)
    /\ at \in {"prompt", "write"} => Whats(c, Letters) = 1..i[c]
    /\ at \in {"close", "gone"} => Whats(c, Letters) = STOP..i[c]
    /\ at = "dead" =>
          \/ Whats(c, Letters) = 1..i[c]
          \/ Whats(c, Letters) = STOP..i[c] /\ i[c] = all

WrittenBy(c) == Standing(c, client[c], count[c])

LettersOK ==
    \A s \in Servers, c \in Clients :
        Reading(s) =>
            IF handle[c] = s THEN WrittenBy(c) ELSE Whats(c, Letters) = {}

IndInv == TypeOK /\ OneReads /\ BoxOK /\ ClientsOK /\ LettersOK

-----------------------------------------------------------------------------
(* What sequences of letters keep.                                         *)
LEMMA LetterFields ==
    ASSUME NEW letter \in Letter
    PROVE  letter.from \in Clients /\ letter.what \in 0..MaxCount
  BY DEF Letter, STOP

LEMMA NoLetters == \A c : Whats(c, <<>>) = {} /\ InOrder(c, <<>>)
  BY DEF Whats, InOrder

LEMMA AppendLetter ==
    ASSUME NEW seq \in Seq(Letter), NEW letter \in Letter
    PROVE  /\ Append(seq, letter) \in Seq(Letter)
           /\ \A c : Whats(c, Append(seq, letter)) =
                       Whats(c, seq) \cup (IF c = letter.from THEN {letter.what} ELSE {})
           /\ \A c : /\ InOrder(c, seq)
                     /\ c = letter.from =>
                          \A what \in Whats(c, seq) :
                             what # STOP /\ (what < letter.what \/ letter.what = STOP)
                     => InOrder(c, Append(seq, letter))
  <1> DEFINE N == Len(seq)
             app == Append(seq, letter)
  <1>1. N \in Nat /\ DOMAIN seq = 1..N /\ \A n \in 1..N : seq[n] \in Letter
    BY LenProperties, ElementOfSeq
  <1>2. /\ app \in Seq(Letter) /\ DOMAIN app = 1..(N + 1)
        /\ app[N + 1] = letter /\ \A n \in 1..N : app[n] = seq[n]
    BY <1>1, AppendProperties, LenProperties
  <1>3. 1..(N + 1) = (1..N) \cup {N + 1}
    BY <1>1
  <1> HIDE DEF N, app
  <1>4. \A c : Whats(c, app) = Whats(c, seq) \cup (IF c = letter.from THEN {letter.what} ELSE {})
    BY <1>1, <1>2, <1>3 DEF Whats
  <1>5. ASSUME NEW c, InOrder(c, seq),
               c = letter.from =>
                   \A what \in Whats(c, seq) :
                      what # STOP /\ (what < letter.what \/ letter.what = STOP)
        PROVE  InOrder(c, app)
    <2> SUFFICES ASSUME NEW m \in 1..(N + 1), NEW n \in 1..(N + 1), m < n,
                        app[m].from = c, app[n].from = c
                 PROVE  Rank(app[m]) < Rank(app[n])
      BY <1>2 DEF InOrder
    <2>1. m \in 1..N
      BY <1>1
    <2>2. CASE n \in 1..N
      BY <1>1, <1>2, <1>5, <2>1, <2>2 DEF InOrder
    <2>3. CASE n = N + 1
      <3>1. seq[m].what \in Whats(c, seq)
        BY <1>1, <1>2, <2>1 DEF Whats
      <3>2. /\ seq[m].what # STOP
            /\ seq[m].what < letter.what \/ letter.what = STOP
        BY <1>2, <1>5, <2>3, <3>1
      <3>3. seq[m].what \in 0..MaxCount /\ letter.what \in 0..MaxCount
        BY <1>1, <2>1, LetterFields
      <3> QED
        BY <1>2, <2>1, <2>3, <3>2, <3>3, MailslotAssumption DEF Rank, IsStop
    <2> QED  BY <1>3, <2>2, <2>3
  <1> QED  BY <1>2, <1>4, <1>5 DEF app

LEMMA WriteKeepsBefore ==
    ASSUME NEW read \in Seq(Letter), NEW unread \in Seq(Letter), NEW letter \in Letter
    PROVE  read \o Append(unread, letter) = Append(read \o unread, letter)
  <1>1. <<letter>> \in Seq(Letter) /\ read \o unread \in Seq(Letter)
    BY ConcatProperties
  <1>2. Append(unread, letter) = unread \o <<letter>>
    BY AppendIsConcat
  <1>3. Append(read \o unread, letter) = (read \o unread) \o <<letter>>
    BY <1>1, AppendIsConcat
  <1> QED  BY <1>1, <1>2, <1>3, ConcatAssociative

LEMMA ReadKeepsLetters ==
    ASSUME NEW read \in Seq(Letter), NEW unread \in Seq(Letter), unread # <<>>
    PROVE  /\ Head(unread) \in Letter /\ Tail(unread) \in Seq(Letter)
           /\ Append(read, Head(unread)) \in Seq(Letter)
           /\ Append(read, Head(unread)) \o Tail(unread) = read \o unread
  <1> DEFINE h == Head(unread)
             t == Tail(unread)
  <1>1. h \in Letter /\ t \in Seq(Letter) /\ <<h>> \in Seq(Letter)
    BY HeadTailProperties
  <1>2. <<h>> \o t = unread
    <2>1. /\ Len(unread) \in Nat \ {0} /\ unread[1] = h
          /\ Len(t) = Len(unread) - 1
          /\ \A n \in 1..Len(t) : t[n] = unread[n + 1]
      BY HeadTailProperties, EmptySeq
    <2>2. Len(<<h>>) = 1 /\ <<h>>[1] = h
      OBVIOUS
    <2> HIDE DEF h, t
    <2>3. /\ <<h>> \o t \in Seq(Letter) /\ Len(<<h>> \o t) = 1 + Len(t)
          /\ \A n \in 1..(1 + Len(t)) :
                (<<h>> \o t)[n] = IF n <= 1 THEN <<h>>[n] ELSE t[n - 1]
      BY <1>1, <2>2, ConcatProperties
    <2>4. Len(<<h>> \o t) = Len(unread)
      BY <2>1, <2>3
    <2>5. ASSUME NEW n \in 1..Len(unread) PROVE (<<h>> \o t)[n] = unread[n]
      <3>1. CASE n = 1
        BY <2>1, <2>2, <2>3, <3>1
      <3>2. CASE n # 1
        <4>1. n - 1 \in 1..Len(t) /\ n \in 1..(1 + Len(t)) /\ ~(n <= 1)
          BY <2>1, <3>2
        <4>2. (<<h>> \o t)[n] = t[n - 1]
          BY <2>3, <4>1
        <4> QED  BY <2>1, <4>1, <4>2
      <3> QED  BY <3>1, <3>2
    <2> QED  BY <2>3, <2>4, <2>5, SeqEqual
  <1>3. Append(read, h) = read \o <<h>> /\ Append(read, h) \in Seq(Letter)
    BY <1>1, AppendIsConcat, AppendProperties
  <1>4. (read \o <<h>>) \o t = read \o (<<h>> \o t)
    BY <1>1, ConcatAssociative
  <1> QED  BY <1>1, <1>2, <1>3, <1>4

-----------------------------------------------------------------------------
LEMMA LettersType ==
    ASSUME TypeOK
    PROVE  /\ Letters \in Seq(Letter) /\ box \in Seq(Letter) /\ printed \in Seq(Letter)
           /\ box = <<>> => Letters = printed
  BY ConcatProperties, ConcatEmptySeq DEF TypeOK, Letters

LEMMA InitIndInv == Init => IndInv
  <1> SUFFICES ASSUME Init PROVE IndInv
    OBVIOUS
  <1>1. box = <<>> /\ printed = <<>> /\ \A S : <<>> \in Seq(S)
    BY EmptySeq DEF Init
  <1>2. TypeOK
    BY <1>1, MailslotAssumption DEF Init, TypeOK
  <1>3. OneReads /\ BoxOK /\ ClientsOK /\ LettersOK
    BY DEF Init, OneReads, BoxOK, ClientsOK, LettersOK, Reading
  <1> QED  BY <1>2, <1>3 DEF IndInv

LEMMA CreateStep ==
    ASSUME IndInv, NEW s \in Servers, Create(s) PROVE IndInv'
  <1>1. /\ server[s] = "idle" /\ \A t \in Servers : ~Reading(t)
        /\ server' = [server EXCEPT ![s] = "read"] /\ printed' = <<>> /\ box' = <<>>
        /\ UNCHANGED <<client, handle, count, i>>
    BY DEF Create, IndInv, BoxOK
  <1>2. server'[s] = "read" /\ \A t \in Servers : t # s => server'[t] = server[t]
    BY <1>1 DEF IndInv, TypeOK
  <1>3. \A t \in Servers : Reading(t)' <=> t = s
    BY <1>1, <1>2 DEF Reading
  <1>4. TypeOK'
    BY <1>1, EmptySeq DEF IndInv, TypeOK
  <1>5. OneReads' /\ BoxOK'
    BY <1>1, <1>3 DEF OneReads, BoxOK
  <1>6. ClientsOK' /\ \A c \in Clients : handle[c] # s
    BY <1>1, <1>2, MailslotAssumption DEF IndInv, TypeOK, ClientsOK
  <1>7. \A c : Whats(c, Letters)' = {}
    <2>1. Letters' = <<>>
      BY <1>1, ConcatEmptySeq, EmptySeq DEF Letters
    <2>2. \A c : Whats(c, Letters') = {}
      BY <2>1, NoLetters
    <2> QED  BY <2>2 DEF Whats
  <1>8. LettersOK'
    BY <1>1, <1>3, <1>6, <1>7 DEF LettersOK
  <1> QED  BY <1>4, <1>5, <1>6, <1>8 DEF IndInv

LEMMA CreateThrowsStep ==
    ASSUME IndInv, NEW s \in Servers, CreateThrows(s) PROVE IndInv'
  <1>1. /\ server[s] = "idle" /\ server' = [server EXCEPT ![s] = "dead"]
        /\ UNCHANGED <<box, printed, client, handle, count, i>>
    BY DEF CreateThrows
  <1>2. /\ server'[s] = "dead" /\ \A t \in Servers : t # s => server'[t] = server[t]
        /\ server' \in [Servers -> {"idle", "read", "off", "dead"}]
    BY <1>1 DEF IndInv, TypeOK
  <1>3. \A t \in Servers : Reading(t)' <=> Reading(t)
    BY <1>1, <1>2 DEF Reading
  <1>4. TypeOK' /\ ClientsOK'
    BY <1>1, <1>2, MailslotAssumption DEF IndInv, TypeOK, ClientsOK
  <1>5. OneReads' /\ BoxOK'
    BY <1>1, <1>3 DEF IndInv, OneReads, BoxOK
  <1>6. Letters' = Letters
    BY <1>1 DEF Letters
  <1>7. \A c : WrittenBy(c)' <=> WrittenBy(c)
    BY <1>1, <1>6 DEF WrittenBy, Standing, InOrder, Whats
  <1>8. LettersOK'
    BY <1>1, <1>3, <1>6, <1>7 DEF IndInv, LettersOK, Whats
  <1> QED  BY <1>4, <1>5, <1>8 DEF IndInv

(* What is read moves from the mailslot to what is printed.                *)
LEMMA ReadStep ==
    ASSUME IndInv, NEW s \in Servers, Read(s) PROVE IndInv' /\ Letters' = Letters
  <1>1. /\ box # <<>> /\ printed' = Append(printed, Head(box)) /\ box' = Tail(box)
        /\ Reading(s) /\ UNCHANGED <<server, client, handle, count, i>>
        /\ printed \in Seq(Letter) /\ box \in Seq(Letter)
    BY DEF Read, NextLetter, BoxAfterRead, IndInv, TypeOK
  <1>2. /\ printed' \in Seq(Letter) /\ box' \in Seq(Letter)
        /\ printed' \o box' = printed \o box
    BY <1>1, ReadKeepsLetters
  <1>3. Letters' = Letters
    BY <1>2 DEF Letters
  <1>4. TypeOK' /\ OneReads' /\ ClientsOK' /\ BoxOK'
    BY <1>1, <1>2 DEF IndInv, TypeOK, OneReads, ClientsOK, BoxOK, Reading
  <1>5. LettersOK'
    BY <1>1, <1>3 DEF IndInv, LettersOK, WrittenBy, Standing, InOrder, Whats, Reading
  <1> QED  BY <1>3, <1>4, <1>5 DEF IndInv

LEMMA ServerEndsStep ==
    ASSUME IndInv, NEW s \in Servers, Reading(s), NEW how \in {"off", "dead"},
           ServerEnds(s, how)
    PROVE  IndInv' /\ \A t \in Servers : ~Reading(t)'
  <1>1. /\ server' = [server EXCEPT ![s] = how] /\ box' = <<>>
        /\ UNCHANGED <<printed, client, handle, count, i>>
    BY DEF ServerEnds
  <1>2. /\ server'[s] = how /\ \A t \in Servers : t # s => server'[t] = server[t]
        /\ server' \in [Servers -> {"idle", "read", "off", "dead"}]
    BY <1>1 DEF IndInv, TypeOK
  <1>3. \A t \in Servers : ~Reading(t)'
    BY <1>2 DEF Reading, IndInv, OneReads
  <1>4. TypeOK' /\ ClientsOK'
    BY <1>1, <1>2, EmptySeq, MailslotAssumption DEF IndInv, TypeOK, ClientsOK
  <1>5. OneReads' /\ BoxOK' /\ LettersOK'
    BY <1>1, <1>3 DEF OneReads, BoxOK, LettersOK
  <1> QED  BY <1>3, <1>4, <1>5 DEF IndInv

-----------------------------------------------------------------------------
(* A step of one client that writes nothing.                               *)
LEMMA ClientMoves ==
    ASSUME IndInv, NEW c \in Clients, NEW from, NEW to, Goes(c, from, to),
           to \in {"prompt", "write", "close", "gone", "dead"}, UNCHANGED <<box, i>>,
           handle' \in [Clients -> Servers \cup {NoServer}],
           count' \in [Clients -> 0..MaxCount],
           \A d \in Clients \ {c} : handle'[d] = handle[d] /\ count'[d] = count[d],
           to = "prompt" => i[c] = 0,
           to # "dead" => handle'[c] # NoServer,
           handle'[c] # NoServer => server[handle'[c]] # "idle",
           to = "write" => i[c] <= count'[c],
           to \in {"close", "gone"} => i[c] = count'[c],
           \A s \in Servers :
               Reading(s) =>
               IF handle'[c] = s THEN Standing(c, to, count'[c]) ELSE Whats(c, Letters) = {}
    PROVE  IndInv'
  <1>1. /\ client' = [client EXCEPT ![c] = to] /\ UNCHANGED <<server, printed, box, i>>
        /\ client \in [Clients -> {"idle", "prompt", "write", "close", "gone", "dead"}]
    BY DEF Goes, IndInv, TypeOK
  <1>2. client'[c] = to /\ \A d \in Clients \ {c} : client'[d] = client[d]
    BY <1>1
  <1>3. TypeOK'
    BY <1>1 DEF IndInv, TypeOK
  <1>4. OneReads' /\ BoxOK'
    BY <1>1 DEF IndInv, OneReads, BoxOK, Reading
  <1>5. ClientsOK'
    BY <1>1, <1>2 DEF IndInv, ClientsOK
  <1>6. /\ Letters' = Letters /\ \A s \in Servers : Reading(s)' <=> Reading(s)
        /\ \A d : Whats(d, Letters)' = Whats(d, Letters)
        /\ \A d : InOrder(d, Letters)' <=> InOrder(d, Letters)
    BY <1>1 DEF Letters, Reading, Whats, InOrder
  <1>7. ASSUME NEW s \in Servers, NEW d \in Clients, Reading(s)'
        PROVE  IF handle'[d] = s THEN WrittenBy(d)' ELSE Whats(d, Letters)' = {}
    <2>1. CASE d = c
      BY <1>1, <1>2, <1>6, <1>7, <2>1 DEF WrittenBy, Standing
    <2>2. CASE d # c
      BY <1>1, <1>2, <1>6, <1>7, <2>2 DEF IndInv, LettersOK, WrittenBy, Standing
    <2> QED  BY <2>1, <2>2
  <1>8. LettersOK'
    BY <1>7 DEF LettersOK
  <1> QED  BY <1>3, <1>4, <1>5, <1>8 DEF IndInv

LEMMA ClientStep ==
    ASSUME IndInv, NEW c \in Clients,
           Open(c) \/ OpenThrows(c) \/ Order(c) \/ WriteThrows(c) \/ Close(c) \/ Crash(c)
    PROVE  IndInv'
  <1>1. /\ handle \in [Clients -> Servers \cup {NoServer}]
        /\ count \in [Clients -> 0..MaxCount] /\ i \in [Clients -> 0..MaxCount]
        /\ Letters \in Seq(Letter)
    BY LettersType DEF IndInv, TypeOK
  <1>2. \A s \in Servers :
          Reading(s) => IF handle[c] = s THEN WrittenBy(c)
                                         ELSE Whats(c, Letters) = {}
    BY DEF IndInv, LettersOK
  <1>3. /\ client[c] = "idle" => handle[c] = NoServer
        /\ client[c] \in {"idle", "prompt"} => i[c] = 0
        /\ client[c] \in {"prompt", "write", "close", "gone"} => handle[c] # NoServer
        /\ handle[c] # NoServer => server[handle[c]] # "idle"
        /\ client[c] = "write" => i[c] <= count[c]
        /\ client[c] \in {"close", "gone"} => i[c] = count[c]
    BY DEF IndInv, ClientsOK
  <1>4. CASE Open(c)
    <2>1. PICK s \in Servers : Reading(s) /\ handle' = [handle EXCEPT ![c] = s]
      BY <1>4 DEF Open
    <2>2. Goes(c, "idle", "prompt") /\ UNCHANGED <<box, count, i>> /\ client[c] = "idle"
      BY <1>4 DEF Open, Goes
    <2>3. /\ handle' \in [Clients -> Servers \cup {NoServer}] /\ handle'[c] = s
          /\ \A d \in Clients \ {c} : handle'[d] = handle[d]
      BY <1>1, <2>1
    <2>4. \A t \in Servers : Reading(t) => t = s
      BY <2>1 DEF IndInv, OneReads
    <2>5. Whats(c, Letters) = {}
      BY <1>2, <1>3, <2>1, <2>2, MailslotAssumption
    <2>6. InOrder(c, Letters)
      <3>1. \A n \in DOMAIN Letters : Letters[n].from # c
        BY <2>5 DEF Whats
      <3> QED  BY <3>1 DEF InOrder
    <2>7. 1..i[c] = {}
      BY <1>3, <2>2
    <2>8. Standing(c, "prompt", count'[c])
      BY <2>5, <2>6, <2>7 DEF Standing
    <2>9. \A t \in Servers :
            Reading(t) => IF handle'[c] = t THEN Standing(c, "prompt", count'[c])
                                            ELSE Whats(c, Letters) = {}
      BY <2>5, <2>8
    <2>10. /\ count' \in [Clients -> 0..MaxCount] /\ i[c] = 0
           /\ \A d \in Clients \ {c} : count'[d] = count[d]
           /\ handle'[c] # NoServer /\ server[handle'[c]] # "idle"
      BY <1>1, <1>3, <2>1, <2>2, <2>3, MailslotAssumption DEF Reading
    <2> QED
      BY <2>2, <2>3, <2>9, <2>10, ClientMoves
  <1>5. CASE OpenThrows(c)
    <2>1. Goes(c, "idle", "dead") /\ UNCHANGED <<box, handle, count, i>> /\ client[c] = "idle"
      BY <1>5 DEF OpenThrows, Goes
    <2>2. \A s \in Servers : Reading(s) => handle[c] # s /\ Whats(c, Letters) = {}
      BY <1>2, <1>3, <2>1, MailslotAssumption
    <2> QED
      BY <1>1, <1>3, <2>1, <2>2, ClientMoves
  <1>6. CASE Order(c)
    <2>1. PICK n \in 0..MaxCount : count' = [count EXCEPT ![c] = n]
      BY <1>6 DEF Order
    <2>2. Goes(c, "prompt", "write") /\ UNCHANGED <<box, handle, i>> /\ client[c] = "prompt"
      BY <1>6 DEF Order, Goes
    <2>3. /\ count' \in [Clients -> 0..MaxCount] /\ count'[c] = n
          /\ \A d \in Clients \ {c} : count'[d] = count[d]
          /\ i[c] <= n
      BY <1>1, <1>3, <2>1, <2>2
    <2>4. \A s \in Servers :
            Reading(s) => IF handle'[c] = s THEN Standing(c, "write", count'[c])
                                            ELSE Whats(c, Letters) = {}
      BY <1>2, <2>2 DEF WrittenBy, Standing
    <2>5. /\ handle' \in [Clients -> Servers \cup {NoServer}]
          /\ \A d \in Clients \ {c} : handle'[d] = handle[d]
          /\ handle'[c] # NoServer /\ server[handle'[c]] # "idle"
      BY <1>1, <1>3, <2>2
    <2> QED
      BY <2>2, <2>3, <2>4, <2>5, ClientMoves
  <1>7. CASE Close(c)
    <2>1. Goes(c, "close", "gone") /\ UNCHANGED <<box, handle, count, i>> /\ client[c] = "close"
      BY <1>7 DEF Close, Goes
    <2> QED
      BY <1>1, <1>2, <1>3, <2>1, ClientMoves DEF WrittenBy, Standing
  <1>8. CASE WriteThrows(c) \/ Crash(c)
    <2>1. /\ Goes(c, client[c], "dead") /\ UNCHANGED <<box, handle, count, i>>
          /\ client[c] \in {"prompt", "write", "close"}
      BY <1>8 DEF WriteThrows, Crash, Goes, Holding
    <2>2. \A s \in Servers :
            Reading(s) => IF handle'[c] = s THEN Standing(c, "dead", count'[c])
                                            ELSE Whats(c, Letters) = {}
      BY <1>2, <1>3, <2>1 DEF WrittenBy, Standing
    <2> QED
      BY <1>1, <1>3, <2>1, <2>2, ClientMoves
  <1> QED  BY <1>4, <1>5, <1>6, <1>7, <1>8

(* A client writes its next letter.                                        *)
LEMMA PutStep ==
    ASSUME IndInv, NEW c \in Clients, Write(c) \/ WriteStop(c)
    PROVE  /\ IndInv' /\ client[c] = "write" /\ Reading(handle[c])
           /\ UNCHANGED <<server, printed>>
           /\ \E what \in {STOP} \cup ({i[c] + 1} \cap 1..MaxCount) :
                  Letters' = Append(Letters, [from |-> c, what |-> what])
  <1>1. PICK to \in {"write", "close"}, what \in {STOP, i[c] + 1} :
           /\ Goes(c, "write", to) /\ Put(c, what) /\ UNCHANGED <<handle, count>>
           /\ \/ /\ to = "write" /\ what = i[c] + 1 /\ i[c] < count[c]
                 /\ i' = [i EXCEPT ![c] = @ + 1]
              \/ to = "close" /\ what = STOP /\ ~(i[c] < count[c]) /\ i' = i
    BY DEF Write, WriteStop, More
  <1>2. /\ client[c] = "write" /\ client' = [client EXCEPT ![c] = to]
        /\ Reading(handle[c]) /\ UNCHANGED <<server, printed, handle, count>>
        /\ box' = Append(box, [from |-> c, what |-> what])
    BY <1>1 DEF Goes, Put
  <1>3. /\ client \in [Clients -> {"idle", "prompt", "write", "close", "gone", "dead"}]
        /\ handle \in [Clients -> Servers \cup {NoServer}]
        /\ count \in [Clients -> 0..MaxCount] /\ i \in [Clients -> 0..MaxCount]
        /\ Letters \in Seq(Letter) /\ box \in Seq(Letter) /\ printed \in Seq(Letter)
    BY LettersType DEF IndInv, TypeOK
  <1>4. handle[c] # NoServer /\ i[c] <= count[c]
    BY <1>2 DEF IndInv, ClientsOK
  <1>5. PICK s \in Servers : handle[c] = s
    BY <1>3, <1>4
  <1>6. /\ client'[c] = to /\ \A d \in Clients \ {c} : client'[d] = client[d]
        /\ i' \in [Clients -> 0..MaxCount] /\ \A d \in Clients \ {c} : i'[d] = i[d]
        /\ i'[c] <= count[c]
        /\ to = "close" => i'[c] = count[c]
        /\ to = "close" => i'[c] = i[c]
        /\ to = "write" => i'[c] = i[c] + 1
        /\ what \in 0..MaxCount
        /\ to = "write" => what \in {i[c] + 1} \cap 1..MaxCount
    BY <1>1, <1>2, <1>3, <1>4, MailslotAssumption DEF STOP
  <1> DEFINE letter == [from |-> c, what |-> what]
  <1>7. letter \in Letter /\ letter.from = c /\ letter.what = what
    BY <1>6 DEF Letter, STOP
  <1> HIDE DEF letter
  <1>8. box' = Append(box, letter) /\ box' \in Seq(Letter) /\ Letters' = Append(Letters, letter)
    BY <1>2, <1>3, <1>7, AppendLetter, WriteKeepsBefore DEF Letters, letter
  <1>9. WrittenBy(c)
    BY <1>2, <1>5 DEF IndInv, LettersOK
  <1>10. InOrder(c, Letters) /\ Whats(c, Letters) = 1..i[c]
    BY <1>2, <1>9 DEF WrittenBy, Standing
  <1>11. \A w \in 1..i[c] : w # STOP /\ (w < what \/ what = STOP)
    BY <1>1, <1>3 DEF STOP
  <1>12. /\ \A d : Whats(d, Letters') =
                     Whats(d, Letters) \cup (IF d = c THEN {what} ELSE {})
         /\ \A d : InOrder(d, Letters) => InOrder(d, Letters')
    BY <1>3, <1>7, <1>8, <1>10, <1>11, AppendLetter
  <1>13. TypeOK'
    BY <1>1, <1>2, <1>3, <1>6, <1>8 DEF IndInv, TypeOK
  <1>14. \A t \in Servers : Reading(t)' <=> Reading(t)
    BY <1>2 DEF Reading
  <1>15. OneReads' /\ BoxOK'
    BY <1>2, <1>5, <1>14 DEF IndInv, OneReads, BoxOK
  <1>16. ClientsOK'
    <2>1. \A d \in Clients :
            /\ client'[d] = "idle" => handle'[d] = NoServer
            /\ client'[d] \in {"idle", "prompt"} => i'[d] = 0
            /\ client'[d] \in {"prompt", "write", "close", "gone"} => handle'[d] # NoServer
            /\ handle'[d] # NoServer => server'[handle'[d]] # "idle"
      BY <1>2, <1>4, <1>6 DEF IndInv, ClientsOK
    <2>2. \A d \in Clients :
            /\ client'[d] = "write" => i'[d] <= count'[d]
            /\ client'[d] \in {"close", "gone"} => i'[d] = count'[d]
      <3> SUFFICES ASSUME NEW d \in Clients
                   PROVE  /\ client'[d] = "write" => i'[d] <= count'[d]
                          /\ client'[d] \in {"close", "gone"} => i'[d] = count'[d]
        OBVIOUS
      <3>1. CASE d = c
        BY <1>2, <1>6, <3>1
      <3>2. CASE d # c
        BY <1>2, <1>6, <3>2 DEF IndInv, ClientsOK
      <3> QED  BY <3>1, <3>2
    <2> QED  BY <2>1, <2>2 DEF ClientsOK
  <1>17. WrittenBy(c)'
    <2>1. CASE to = "write"
      <3>1. (1..i[c]) \cup {what} = 1..i'[c]
        BY <1>3, <1>6, <2>1
      <3> QED  BY <1>2, <1>6, <1>10, <1>12, <2>1, <3>1 DEF WrittenBy, Standing
    <2>2. CASE to = "close"
      <3>1. (1..i[c]) \cup {what} = STOP..i'[c]
        BY <1>1, <1>3, <1>6, <2>2 DEF STOP
      <3> QED  BY <1>2, <1>6, <1>10, <1>12, <2>2, <3>1 DEF WrittenBy, Standing
    <2> QED  BY <2>1, <2>2
  <1>18. LettersOK'
    <2> SUFFICES ASSUME NEW t \in Servers, NEW d \in Clients, Reading(t)'
                 PROVE  IF handle'[d] = t THEN WrittenBy(d)'
                                          ELSE Whats(d, Letters)' = {}
      BY DEF LettersOK
    <2>1. t = s
      BY <1>2, <1>5, <1>14 DEF IndInv, OneReads
    <2>2. CASE d = c
      BY <1>2, <1>5, <1>17, <2>1, <2>2
    <2>3. CASE d # c
      <3>1. IF handle[d] = t THEN WrittenBy(d) ELSE Whats(d, Letters) = {}
        BY <1>14 DEF IndInv, LettersOK
      <3>2. /\ Whats(d, Letters') = Whats(d, Letters)
            /\ InOrder(d, Letters) => InOrder(d, Letters')
        BY <1>12, <2>3
      <3> QED  BY <1>2, <1>6, <2>3, <3>1, <3>2 DEF WrittenBy, Standing
    <2> QED  BY <2>2, <2>3
  <1>19. \E w \in {STOP} \cup ({i[c] + 1} \cap 1..MaxCount) :
            Letters' = Append(Letters, [from |-> c, what |-> w])
    BY <1>1, <1>6, <1>8 DEF letter
  <1> QED  BY <1>2, <1>13, <1>15, <1>16, <1>18, <1>19 DEF IndInv

(* What the programs of lab7 keep between any two steps, of which the      *)
(* theorems below are consequences.                                        *)
THEOREM Inductive == Spec => []IndInv
  <1>1. IndInv /\ [Next]_vars => IndInv'
    <2> SUFFICES ASSUME IndInv, [Next]_vars PROVE IndInv'
      OBVIOUS
    <2>1. ASSUME NEW s \in Servers, Create(s) \/ CreateThrows(s) \/ Server(s) \/ Kill(s)
          PROVE  IndInv'
      <3>1. CASE Create(s) \/ CreateThrows(s)
        BY <3>1, CreateStep, CreateThrowsStep
      <3>2. CASE Read(s)
        BY <3>2, ReadStep
      <3>3. CASE ReadStop(s) \/ Kill(s)
        BY <3>3, ServerEndsStep DEF ReadStop, Kill
      <3> QED  BY <2>1, <3>1, <3>2, <3>3 DEF Server
    <2>2. ASSUME NEW c \in Clients,
                 Open(c) \/ OpenThrows(c) \/ Order(c) \/ Works(c) \/ Crash(c)
          PROVE  IndInv'
      BY <2>2, ClientStep, PutStep DEF Works
    <2>3. CASE UNCHANGED vars
      <3>1. TypeOK' /\ OneReads' /\ BoxOK' /\ ClientsOK'
        BY <2>3 DEF vars, IndInv, TypeOK, OneReads, BoxOK, ClientsOK, Reading
      <3>2. Letters' = Letters
        BY <2>3 DEF vars, Letters
      <3>3. LettersOK'
        BY <2>3, <3>2
           DEF vars, IndInv, LettersOK, WrittenBy, Standing, InOrder, Whats, Reading
      <3> QED  BY <3>1, <3>3 DEF IndInv
    <2> QED  BY <2>1, <2>2, <2>3 DEF Next
  <1> QED  BY <1>1, InitIndInv, PTL DEF Spec

(* The variables have their types.                                         *)
THEOREM TypeCorrect == Spec => []TypeOK
  <1>1. IndInv => TypeOK
    BY DEF IndInv
  <1> QED  BY <1>1, Inductive, PTL

(* What a client has written is printed or in the mailslot, once and in    *)
(* the order it was written.                                               *)
THEOREM ReadsAsWritten == Spec => []ReadAsWritten
  <1>1. IndInv => ReadAsWritten
    BY DEF IndInv, TypeOK, LettersOK, WrittenBy, Standing, Letters, ReadAsWritten
  <1> QED  BY <1>1, Inductive, PTL

-----------------------------------------------------------------------------
(* Where the next letter stands among those printed and those to be read.  *)
LEMMA Places ==
    ASSUME TypeOK, box # <<>>
    PROVE  /\ Len(printed) \in Nat /\ Len(Letters) \in Nat
           /\ DOMAIN printed = 1..Len(printed) /\ DOMAIN Letters = 1..Len(Letters)
           /\ Len(printed) < Len(Letters)
           /\ \A n \in 1..Len(printed) : Letters[n] = printed[n]
           /\ Letters[Len(printed) + 1] = Head(box)
           /\ DOMAIN Tail(box) = 1..(Len(Letters) - Len(printed) - 1)
           /\ \A n \in DOMAIN Tail(box) : Tail(box)[n] = Letters[Len(printed) + 1 + n]
           /\ \A n \in DOMAIN Letters : Letters[n] \in Letter
  <1>1. /\ box \in Seq(Letter) /\ printed \in Seq(Letter) /\ Letters \in Seq(Letter)
        /\ Len(printed) \in Nat /\ Len(box) \in Nat \ {0}
    BY LettersType, LenProperties, EmptySeq
  <1>2. /\ Len(Letters) = Len(printed) + Len(box)
        /\ \A n \in 1..(Len(printed) + Len(box)) :
              Letters[n] = IF n <= Len(printed) THEN printed[n]
                                                ELSE box[n - Len(printed)]
    BY <1>1, ConcatProperties DEF Letters
  <1>3. /\ Head(box) = box[1] /\ Tail(box) \in Seq(Letter)
        /\ Len(Tail(box)) = Len(box) - 1
        /\ \A n \in 1..Len(Tail(box)) : Tail(box)[n] = box[n + 1]
    BY <1>1, HeadTailProperties
  <1>4. /\ DOMAIN printed = 1..Len(printed) /\ DOMAIN Letters = 1..Len(Letters)
        /\ DOMAIN Tail(box) = 1..Len(Tail(box))
        /\ \A n \in 1..Len(Letters) : Letters[n] \in Letter
    BY <1>1, <1>3, LenProperties, ElementOfSeq
  <1>5. \A n \in 1..Len(printed) : Letters[n] = printed[n]
    BY <1>1, <1>2
  <1>6. Letters[Len(printed) + 1] = Head(box)
    BY <1>1, <1>2, <1>3
  <1>7. ASSUME NEW n \in 1..Len(Tail(box))
        PROVE  Tail(box)[n] = Letters[Len(printed) + 1 + n]
    BY <1>1, <1>2, <1>3
  <1> QED  BY <1>1, <1>2, <1>3, <1>4, <1>5, <1>6, <1>7

(* The server obeys a STOP only when it has printed all that its client's  *)
(* user ordered, and nothing else of that client is left.                  *)
LEMMA StopStep ==
    ASSUME IndInv, NEW s \in Servers, ReadStop(s)
    PROVE  /\ Whats(Head(box).from, printed) = 1..count[Head(box).from]
           /\ Whats(Head(box).from, Tail(box)) = {}
  <1>1. Reading(s) /\ box # <<>> /\ Head(box).what = STOP /\ TypeOK
    BY DEF IndInv, ReadStop, IsStop, NextLetter
  <1>2. PICK P \in Nat, L \in Nat :
           /\ P < L /\ DOMAIN printed = 1..P /\ DOMAIN Letters = 1..L
           /\ \A n \in 1..P : Letters[n] = printed[n]
           /\ Letters[P + 1] = Head(box)
           /\ DOMAIN Tail(box) = 1..(L - P - 1)
           /\ \A n \in DOMAIN Tail(box) : Tail(box)[n] = Letters[P + 1 + n]
           /\ \A n \in DOMAIN Letters : Letters[n] \in Letter
    BY <1>1, Places
  <1>3. PICK c \in Clients : c = Head(box).from
    BY <1>2, LetterFields
  <1>4. Letters[P + 1].from = c /\ Letters[P + 1].what = STOP /\ P + 1 \in 1..L
    BY <1>1, <1>2, <1>3
  <1>5. STOP \in Whats(c, Letters)
    BY <1>2, <1>4 DEF Whats
  <1>6. WrittenBy(c) /\ handle[c] = s
    BY <1>1, <1>5 DEF IndInv, LettersOK
  <1>7. Whats(c, Letters) = STOP..count[c]
    <2>1. i[c] \in Nat /\ ~(STOP \in 1..i[c])
      BY <1>1 DEF TypeOK, STOP
    <2>2. client[c] # "idle" /\ (client[c] \in {"close", "gone"} => i[c] = count[c])
      BY <1>6, MailslotAssumption DEF IndInv, ClientsOK
    <2>3. client[c] \in {"prompt", "write", "close", "gone", "dead"}
      BY <1>1, <2>2 DEF TypeOK
    <2> QED  BY <1>5, <1>6, <2>1, <2>2, <2>3 DEF WrittenBy, Standing
  <1>8. \A n \in 1..L : Letters[n].from = c /\ n # P + 1 => n \in 1..P /\ Letters[n].what # STOP
    <2> SUFFICES ASSUME NEW n \in 1..L, Letters[n].from = c, n # P + 1
                 PROVE  n \in 1..P /\ Letters[n].what # STOP
      OBVIOUS
    <2>1. InOrder(c, Letters)
      BY <1>6 DEF WrittenBy, Standing
    <2>2. Rank(Letters[P + 1]) = MaxCount + 1
      BY <1>4 DEF Rank, IsStop
    <2>3. Letters[n].what \in 0..MaxCount
      BY <1>2, LetterFields
    <2>4. /\ n < P + 1 => Rank(Letters[n]) < MaxCount + 1
          /\ P + 1 < n => MaxCount + 1 < Rank(Letters[n])
      BY <1>2, <1>4, <2>1, <2>2 DEF InOrder
    <2>5. Rank(Letters[n]) <= MaxCount + 1
      BY <2>3, MailslotAssumption DEF Rank, IsStop
    <2>6. Letters[n].what = STOP => Rank(Letters[n]) = MaxCount + 1
      BY DEF Rank, IsStop
    <2>7. Rank(Letters[n]) \in Nat
      BY <2>3, MailslotAssumption DEF Rank, IsStop
    <2> QED  BY <2>4, <2>5, <2>6, <2>7, MailslotAssumption
  <1>9. Whats(c, printed) = Whats(c, Letters) \ {STOP}
    <2>1. Whats(c, printed) = {Letters[n].what : n \in {m \in 1..P : Letters[m].from = c}}
      BY <1>2 DEF Whats
    <2>2. Whats(c, Letters) = {Letters[n].what : n \in {m \in 1..L : Letters[m].from = c}}
      BY <1>2 DEF Whats
    <2>3. \A n \in 1..P : n \in 1..L /\ n # P + 1
      BY <1>2
    <2> HIDE DEF STOP
    <2> QED  BY <1>4, <1>8, <2>1, <2>2, <2>3
  <1>10. Whats(c, printed) = 1..count[c]
    BY <1>1, <1>7, <1>9 DEF STOP, TypeOK
  <1>11. Whats(c, Tail(box)) = {}
    <2>1. \A n \in DOMAIN Tail(box) :
             P + 1 + n \in 1..L /\ P + 1 + n # P + 1 /\ ~(P + 1 + n \in 1..P)
      BY <1>2
    <2>2. \A n \in DOMAIN Tail(box) : Tail(box)[n].from # c
      BY <1>2, <1>8, <2>1
    <2> QED  BY <2>2 DEF Whats
  <1> QED  BY <1>3, <1>10, <1>11

(* Nothing but a STOP turns a reading server off, and what is dropped with *)
(* its mailslot is other clients' only.                                    *)
THEOREM StopComesLast == Spec => StopIsLast
  <1>1. ASSUME IndInv, [Next]_vars, NEW s \in Servers, Reading(s), server'[s] = "off"
        PROVE  ReadStop(s)
    <2>1. server[s] = "read" /\ server \in [Servers -> {"idle", "read", "off", "dead"}]
      BY <1>1 DEF Reading, IndInv, TypeOK
    <2>2. ASSUME NEW t \in Servers, Create(t) \/ CreateThrows(t) \/ Server(t) \/ Kill(t)
          PROVE  ReadStop(s)
      <3>1. \/ server' = [server EXCEPT ![t] = "read"]
            \/ server' = [server EXCEPT ![t] = "dead"]
            \/ server' = server
            \/ ReadStop(t) /\ server' = [server EXCEPT ![t] = "off"]
        BY <2>2 DEF Create, CreateThrows, Server, Read, ReadStop, Kill, ServerEnds
      <3> QED  BY <1>1, <2>1, <3>1
    <2>3. ASSUME NEW c \in Clients,
                 Open(c) \/ OpenThrows(c) \/ Order(c) \/ Works(c) \/ Crash(c)
          PROVE  server' = server
      BY <2>3 DEF Open, OpenThrows, Order, Works, Write, WriteStop, WriteThrows, Close,
                  Crash, Goes
    <2>4. server' # server
      BY <1>1, <2>1
    <2>5. ~UNCHANGED vars
      BY <2>4 DEF vars
    <2> QED  BY <1>1, <2>2, <2>3, <2>4, <2>5 DEF Next
  <1>2. ASSUME IndInv, [Next]_vars
        PROVE  \A s \in Servers :
                  Reading(s) /\ server'[s] = "off" =>
                      LET c == Head(box).from IN
                        /\ Whats(c, printed) = 1..count[c]
                        /\ Whats(c, Tail(box)) = {}
    BY <1>1, <1>2, StopStep
  <1>3. IndInv /\ [Next]_vars =>
          [\A s \in Servers :
              Reading(s) /\ server'[s] = "off" =>
                  LET c == Head(box).from IN
                    /\ Whats(c, printed) = 1..count[c]
                    /\ Whats(c, Tail(box)) = {}]_vars
    BY <1>2
  <1> QED  BY <1>3, Inductive, PTL DEF Spec, StopIsLast

-----------------------------------------------------------------------------
(* Each step of the programs is a step of the log or none.                 *)
LEMMA LogCreate ==
    ASSUME IndInv, NEW s \in Servers, Create(s) PROVE Log!Start
  <1>1. /\ printed' = <<>> /\ box' = <<>> /\ \A t \in Servers : ~Reading(t)
        /\ server[s] = "idle" /\ server' = [server EXCEPT ![s] = "read"]
    BY DEF Create, IndInv, BoxOK
  <1>2. Reading(s)'
    BY <1>1 DEF Reading, IndInv, TypeOK
  <1>3. printed' \o box' = <<>> /\ Len(printed') = 0
    BY <1>1, ConcatEmptySeq, EmptySeq
  <1> QED  BY <1>1, <1>2, <1>3 DEF Log!Start

LEMMA LogRead ==
    ASSUME IndInv, NEW s \in Servers, Read(s) PROVE Log!ReadOne
  <1>1. /\ box # <<>> /\ printed' = Append(printed, Head(box)) /\ Head(box).what # STOP
        /\ Reading(s) /\ server' = server /\ TypeOK
    BY DEF Read, NextLetter, IsStop, IndInv
  <1>2. /\ Len(printed) < Len(Letters) /\ Letters[Len(printed) + 1] = Head(box)
        /\ Letters' = Letters
    BY <1>1, Places, ReadStep
  <1>3. Len(printed') = Len(printed) + 1
    BY <1>1, HeadTailProperties, AppendProperties DEF TypeOK
  <1>4. (\E t \in Servers : Reading(t)) /\ (\E t \in Servers : Reading(t)')
    BY <1>1 DEF Reading
  <1> QED  BY <1>1, <1>2, <1>3, <1>4 DEF Log!ReadOne, Letters

(* What has not been read is dropped, and what has been is kept.           *)
LEMMA LogDrop ==
    ASSUME IndInv, NEW s \in Servers, Reading(s), NEW how \in {"off", "dead"},
           ServerEnds(s, how)
    PROVE  Log!Drop
  <1>1. box' = <<>> /\ printed' = printed /\ TypeOK
    BY DEF ServerEnds, IndInv
  <1>2. ~(\E t \in Servers : Reading(t)')
    BY ServerEndsStep
  <1>3. printed \in Seq(Letter) /\ box \in Seq(Letter) /\ <<>> \in Seq(Letter)
    BY <1>1, EmptySeq DEF TypeOK
  <1>4. printed' \o box' = printed
    BY <1>1, <1>3, ConcatEmptySeq
  <1>5. SubSeq(printed \o box, 1, Len(printed)) = printed
    <2>1. /\ printed \o box \in Seq(Letter) /\ Len(printed) \in Nat /\ Len(box) \in Nat
          /\ Len(printed \o box) = Len(printed) + Len(box)
          /\ \A n \in 1..(Len(printed) + Len(box)) :
                (printed \o box)[n] = IF n <= Len(printed) THEN printed[n]
                                                           ELSE box[n - Len(printed)]
      BY <1>3, ConcatProperties, LenProperties
    <2>2. \A n \in 1..Len(printed) : (printed \o box)[n] = printed[n]
      BY <2>1
    <2>3. /\ SubSeq(printed \o box, 1, Len(printed)) \in Seq(Letter)
          /\ Len(SubSeq(printed \o box, 1, Len(printed))) = Len(printed)
          /\ \A n \in 1..Len(printed) :
                SubSeq(printed \o box, 1, Len(printed))[n] = (printed \o box)[n]
      BY <1>3, <2>1, SubSeqProperties
    <2> QED  BY <1>3, <2>2, <2>3, SeqEqual
  <1> QED  BY <1>1, <1>2, <1>4, <1>5 DEF Log!Drop

LEMMA LogWrite ==
    ASSUME IndInv, NEW c \in Clients, Write(c) \/ WriteStop(c) PROVE Log!Write(c)
  <1>1. /\ client[c] = "write" /\ Reading(handle[c]) /\ UNCHANGED <<server, printed>>
        /\ \E what \in {STOP} \cup ({i[c] + 1} \cap 1..MaxCount) :
              Letters' = Append(Letters, [from |-> c, what |-> what])
    BY PutStep
  <1>2. handle[c] \in Servers /\ i[c] \in 0..MaxCount
    BY <1>1 DEF IndInv, TypeOK, ClientsOK
  <1>3. Whats(c, Letters) = 1..i[c]
    BY <1>1, <1>2 DEF IndInv, LettersOK, WrittenBy, Standing
  <1>4. Log!Numbers(c) = 1..i[c]
    BY <1>3 DEF Log!Numbers, Whats, Letters
  <1>5. /\ \E t \in Servers : Reading(t)
        /\ \E t \in Servers : Reading(t)'
    BY <1>1, <1>2 DEF Reading
  <1> QED  BY <1>1, <1>2, <1>4, <1>5 DEF Log!Write, Letters

LEMMA LogStutter ==
    ASSUME UNCHANGED <<box, printed>>, \A s \in Servers : Reading(s)' <=> Reading(s)
    PROVE  UNCHANGED Log!logVars
  BY DEF Log!logVars

(* The mailslot, its reader and its writers implement a log that is read   *)
(* once, in order, up to the first STOP, for what they may ever do; that   *)
(* what is in it is read is left to ImplementsLog.                         *)
THEOREM KeepsLog == Spec => Log!LogSafety
  <1>1. ASSUME Init PROVE Log!LogInit
    <2>1. ~(\E s \in Servers : Reading(s))
      BY <1>1 DEF Init, Reading
    <2>2. printed \o box = <<>> /\ Len(printed) = 0
      BY <1>1, ConcatEmptySeq, EmptySeq DEF Init
    <2> QED  BY <2>1, <2>2 DEF Log!LogInit
  <1>2. ASSUME IndInv, [Next]_vars PROVE [Log!LogNext]_Log!logVars
    <2>1. ASSUME NEW s \in Servers, Create(s) \/ CreateThrows(s) \/ Server(s) \/ Kill(s)
          PROVE  [Log!LogNext]_Log!logVars
      <3>1. CASE Create(s)
        BY <1>2, <3>1, LogCreate DEF Log!LogNext
      <3>2. CASE CreateThrows(s)
        <4>1. /\ server[s] = "idle" /\ server' = [server EXCEPT ![s] = "dead"]
              /\ UNCHANGED <<box, printed>>
          BY <3>2 DEF CreateThrows
        <4>2. \A t \in Servers : Reading(t)' <=> Reading(t)
          BY <1>2, <4>1 DEF Reading, IndInv, TypeOK
        <4> QED  BY <4>1, <4>2, LogStutter
      <3>3. CASE Read(s)
        BY <1>2, <3>3, LogRead DEF Log!LogNext
      <3>4. CASE ReadStop(s)
        <4>1. /\ Reading(s) /\ ServerEnds(s, "off") /\ box # <<>> /\ Head(box).what = STOP
              /\ TypeOK
          BY <1>2, <3>4 DEF ReadStop, IsStop, NextLetter, IndInv
        <4>2. Log!Drop
          BY <1>2, <4>1, LogDrop
        <4>3. Len(printed) < Len(Letters) /\ Letters[Len(printed) + 1] = Head(box)
          BY <4>1, Places
        <4>4. Log!Obey
          BY <4>1, <4>2, <4>3 DEF Log!Obey, Letters
        <4> QED  BY <4>4 DEF Log!LogNext
      <3>5. CASE Kill(s)
        <4>1. Reading(s) /\ ServerEnds(s, "dead")
          BY <3>5 DEF Kill
        <4>2. Log!Drop
          BY <1>2, <4>1, LogDrop
        <4> QED  BY <4>1, <4>2 DEF Log!LogNext, Log!Lose
      <3> QED  BY <2>1, <3>1, <3>2, <3>3, <3>4, <3>5 DEF Server
    <2>2. ASSUME NEW c \in Clients,
                 Open(c) \/ OpenThrows(c) \/ Order(c) \/ Works(c) \/ Crash(c)
          PROVE  [Log!LogNext]_Log!logVars
      <3>1. CASE Write(c) \/ WriteStop(c)
        BY <1>2, <3>1, LogWrite DEF Log!LogNext
      <3>2. CASE Open(c) \/ OpenThrows(c) \/ Order(c) \/ WriteThrows(c) \/ Close(c) \/ Crash(c)
        <4>1. UNCHANGED <<server, box, printed>>
          BY <3>2 DEF Open, OpenThrows, Order, WriteThrows, Close, Crash, Goes
        <4>2. \A t \in Servers : Reading(t)' <=> Reading(t)
          BY <4>1 DEF Reading
        <4> QED  BY <4>1, <4>2, LogStutter
      <3> QED  BY <2>2, <3>1, <3>2 DEF Works
    <2>3. CASE UNCHANGED vars
      <3>1. UNCHANGED <<box, printed>> /\ \A t \in Servers : Reading(t)' <=> Reading(t)
        BY <2>3 DEF vars, Reading
      <3> QED  BY <3>1, LogStutter
    <2> QED  BY <1>2, <2>1, <2>2, <2>3 DEF Next
  <1> QED  BY <1>1, <1>2, Inductive, PTL DEF Spec, Log!LogSafety

=============================================================================
