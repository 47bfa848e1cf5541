-------------------------- MODULE DiscoveryProofs --------------------------
(***************************************************************************)
(* lab4, for any number of servers, hosts and clients: nobody is answered  *)
(* twice, no server listens before an error, and the programs keep to the  *)
(* call sign.                                                              *)
(***************************************************************************)
EXTENDS Discovery, FiniteSetTheorems, SequenceTheorems, TLAPS

(* p has not asked yet.                                                    *)
Silent(p) == IF p \in Servers THEN server[p] = "check" ELSE client[p] = "idle"

Once(seq, x) == \A m, n \in DOMAIN seq : seq[m] = x /\ seq[n] = x => m = n

(* The question of p to s, or its answer, is in one place at most.         *)
OneQuestion(s, p) ==
    /\ Once(inbox[s], p) /\ Once(mail[p], s)
    /\ p \in Range(inbox[s]) => clnt[s] # p /\ s \notin Range(mail[p])
    /\ clnt[s] = p => s \notin Range(mail[p])

NoQuestion(s, p) ==
    p \notin Range(inbox[s]) /\ clnt[s] # p /\ s \notin Range(mail[p])

QuestionsOK ==
    \A s \in Servers, p \in Parties :
        OneQuestion(s, p) /\ (Silent(p) \/ p = s => NoQuestion(s, p))

HandOK == \A s \in Servers : server[s] = "answer" <=> clnt[s] # Nobody

FailedOK == \A s \in failed : server[s] \notin {"check", "wait"}

(* Only who asks a named host can be told that nobody listens.             *)
MailOK == \A p \in Servers \cup Askers : mail[p] \in Seq(Servers)

(* Before the first error the servers wait for each other.                 *)
WaitingOK ==
    failed = {} =>
        \A s \in Servers : server[s] \in {"check", "wait", "dead"} /\ mail[s] = <<>>

IndInv == TypeOK /\ QuestionsOK /\ HandOK /\ FailedOK /\ MailOK /\ WaitingOK

-----------------------------------------------------------------------------
(* What sequences do to what is in them.                                   *)
LEMMA EmptyOnce ==
    ASSUME NEW S
    PROVE  /\ <<>> \in Seq(S) /\ Range(<<>>) = {} /\ DOMAIN <<>> = {}
           /\ \A x : Once(<<>>, x)
  BY EmptySeq DEF Once, Range

LEMMA InRange ==
    ASSUME NEW S, NEW seq \in Seq(S), NEW x
    PROVE  /\ x \in Range(seq) <=> \E n \in DOMAIN seq : seq[n] = x
           /\ Range(seq) \subseteq S
           /\ seq # <<>> => Range(seq) # {}
  <1>1. DOMAIN seq = 1..Len(seq) /\ \A n \in 1..Len(seq) : seq[n] \in S
    BY LenProperties, ElementOfSeq
  <1>2. seq # <<>> => Len(seq) \in Nat \ {0}
    BY EmptySeq
  <1>3. seq # <<>> => 1 \in 1..Len(seq)
    BY <1>2
  <1> QED  BY <1>1, <1>3 DEF Range

LEMMA AppendOnce ==
    ASSUME NEW S, NEW seq \in Seq(S), NEW y \in S
    PROVE  /\ Append(seq, y) \in Seq(S)
           /\ Range(Append(seq, y)) = Range(seq) \cup {y}
           /\ \A x : Once(seq, x) /\ (x # y \/ x \notin Range(seq))
                        => Once(Append(seq, y), x)
  <1> DEFINE N == Len(seq)
             app == Append(seq, y)
  <1>1. N \in Nat /\ DOMAIN seq = 1..N
    BY LenProperties
  <1>2. /\ app \in Seq(S) /\ DOMAIN app = 1..(N + 1)
        /\ app[N + 1] = y /\ \A n \in 1..N : app[n] = seq[n]
    BY <1>1, AppendProperties, LenProperties
  <1>3. 1..(N + 1) = (1..N) \cup {N + 1}
    BY <1>1
  <1> HIDE DEF N, app
  <1>4. Range(app) = Range(seq) \cup {y}
    BY <1>1, <1>2, <1>3 DEF Range
  <1>5. \A x : Once(seq, x) /\ (x # y \/ x \notin Range(seq)) => Once(app, x)
    BY <1>1, <1>2, <1>3 DEF Range, Once
  <1> QED  BY <1>2, <1>4, <1>5 DEF app

LEMMA TailOnce ==
    ASSUME NEW S, NEW seq \in Seq(S), seq # <<>>
    PROVE  /\ Tail(seq) \in Seq(S) /\ Head(seq) \in S
           /\ Range(seq) = Range(Tail(seq)) \cup {Head(seq)}
           /\ \A x : Once(seq, x) => Once(Tail(seq), x)
           /\ Once(seq, Head(seq)) => Head(seq) \notin Range(Tail(seq))
  <1> DEFINE N == Len(seq)
             tail == Tail(seq)
  <1>1. N \in Nat \ {0} /\ DOMAIN seq = 1..N
    BY LenProperties, EmptySeq
  <1>2. /\ tail \in Seq(S) /\ Head(seq) \in S /\ Head(seq) = seq[1]
        /\ DOMAIN tail = 1..(N - 1)
        /\ \A n \in 1..(N - 1) : tail[n] = seq[n + 1]
    BY <1>1, HeadTailProperties, LenProperties
  <1> HIDE DEF N, tail
  <1>3. \A n \in 1..N : n = 1 \/ (n - 1 \in 1..(N - 1) /\ tail[n - 1] = seq[n])
    BY <1>1, <1>2
  <1>4. \A n \in 1..(N - 1) : n + 1 \in 1..N /\ n + 1 # 1
    BY <1>1
  <1>5. Range(seq) = Range(tail) \cup {seq[1]}
    <2>1. Range(seq) \subseteq Range(tail) \cup {seq[1]}
      BY <1>1, <1>2, <1>3 DEF Range
    <2>2. Range(tail) \subseteq Range(seq)
      BY <1>1, <1>2, <1>4 DEF Range
    <2>3. seq[1] \in Range(seq)
      BY <1>1 DEF Range
    <2> QED  BY <2>1, <2>2, <2>3
  <1>6. \A x : Once(seq, x) => Once(tail, x)
    <2> SUFFICES ASSUME NEW x, Once(seq, x), NEW m \in 1..(N - 1), NEW n \in 1..(N - 1),
                        tail[m] = x, tail[n] = x
                 PROVE  m = n
      BY <1>2 DEF Once
    <2>1. m + 1 = n + 1
      BY <1>1, <1>2, <1>4 DEF Once
    <2> QED  BY <2>1
  <1>7. Once(seq, seq[1]) => seq[1] \notin Range(tail)
    BY <1>1, <1>2, <1>4 DEF Range, Once
  <1> QED  BY <1>2, <1>5, <1>6, <1>7 DEF tail

LEMMA CountOnce ==
    ASSUME NEW S, NEW seq \in Seq(S), NEW x, Once(seq, x)
    PROVE  Cardinality({n \in DOMAIN seq : seq[n] = x})
               = IF x \in Range(seq) THEN 1 ELSE 0
  <1> DEFINE at == {n \in DOMAIN seq : seq[n] = x}
  <1>1. CASE x \in Range(seq)
    <2>1. PICK n \in DOMAIN seq : at = {n}
      BY <1>1, InRange DEF Once
    <2> QED  BY <1>1, <2>1, FS_Singleton
  <1>2. CASE x \notin Range(seq)
    <2>1. at = {}
      BY <1>2, InRange
    <2> QED  BY <1>2, <2>1, FS_EmptySet
  <1> QED  BY <1>1, <1>2

-----------------------------------------------------------------------------
LEMMA Types ==
    ASSUME TypeOK
    PROVE  /\ \A s \in Servers : inbox[s] \in Seq(Parties)
           /\ \A p \in Parties : mail[p] \in Seq(Servers \cup {"unreach"})
           /\ \A s \in Servers : s \in Parties /\ s \notin Clients
           /\ \A c \in Clients : c \in Parties /\ c \notin Servers
           /\ Nobody \notin Parties
  BY DiscoveryAssumption DEF TypeOK, Parties

LEMMA InitIndInv == Init => IndInv
  <1> SUFFICES ASSUME Init PROVE IndInv
    OBVIOUS
  <1>1. TypeOK
    <2>1. \A S : <<>> \in Seq(S)
      BY EmptySeq
    <2>2. inbox \in [Servers -> Seq(Parties)]
      BY <2>1 DEF Init
    <2>3. mail \in [Parties -> Seq(Servers \cup {"unreach"})]
      BY <2>1 DEF Init
    <2>4. /\ \A s \in Servers : inbox[s] = <<>>
          /\ \A p \in Parties : mail[p] = <<>>
      BY DEF Init
    <2> QED  BY <2>2, <2>3, <2>4 DEF Init, TypeOK
  <1>2. QuestionsOK
    BY EmptyOnce, DiscoveryAssumption
       DEF Init, QuestionsOK, OneQuestion, NoQuestion, Parties
  <1>3. HandOK /\ FailedOK /\ WaitingOK
    BY DEF Init, HandOK, FailedOK, WaitingOK, Parties
  <1>4. MailOK
    BY EmptySeq DEF Init, MailOK, Parties, Clients
  <1> QED  BY <1>1, <1>2, <1>3, <1>4 DEF IndInv

(* A question to some of the servers that listen, by who was silent.       *)
LEMMA AskStep ==
    ASSUME IndInv, NEW p \in Parties, Silent(p),
           NEW there \in SUBSET {s \in Servers : Bound(s)},
           inbox' = [s \in Servers |->
                        IF s \in there THEN Append(inbox[s], p) ELSE inbox[s]],
           UNCHANGED <<mail, clnt>>
    PROVE  /\ inbox' \in [Servers -> Seq(Parties)]
           /\ \A s \in Servers : ~Bound(s) => inbox'[s] = inbox[s]
           /\ \A s \in Servers :
                 Range(inbox'[s]) = Range(inbox[s]) \cup (IF s \in there THEN {p} ELSE {})
           /\ \A s \in Servers, q \in Parties :
                 /\ OneQuestion(s, q)'
                 /\ (q # p \/ q = s) /\ NoQuestion(s, q) => NoQuestion(s, q)'
  <1>1. \A s \in Servers : inbox'[s] = IF s \in there THEN Append(inbox[s], p) ELSE inbox[s]
    OBVIOUS
  <1>2. ASSUME NEW s \in Servers
        PROVE  /\ inbox'[s] \in Seq(Parties)
               /\ Range(inbox'[s]) = Range(inbox[s]) \cup (IF s \in there THEN {p} ELSE {})
               /\ \A q : Once(inbox[s], q) /\ (q # p \/ q \notin Range(inbox[s]))
                            => Once(inbox'[s], q)
    <2>1. CASE s \in there
      BY <1>1, <2>1, Types, AppendOnce DEF IndInv
    <2>2. CASE s \notin there
      BY <1>1, <2>2, Types DEF IndInv
    <2> QED  BY <2>1, <2>2
  <1>3. \A s \in Servers : NoQuestion(s, p) /\ (s \in there => s # p)
    <2>1. \A s \in Servers : NoQuestion(s, p)
      BY DEF IndInv, QuestionsOK
    <2>2. p \in Servers => ~Bound(p)
      BY DEF Silent, Bound
    <2> QED  BY <2>1, <2>2
  <1>4. ASSUME NEW s \in Servers, NEW q \in Parties
        PROVE  /\ OneQuestion(s, q)'
               /\ (q # p \/ q = s) /\ NoQuestion(s, q) => NoQuestion(s, q)'
    <2>1. OneQuestion(s, q)
      BY DEF IndInv, QuestionsOK
    <2> QED  BY <1>2, <1>3, <2>1 DEF OneQuestion, NoQuestion
  <1> QED  BY <1>1, <1>2, <1>4

(* The question to a host where nobody listens.                            *)
LEMMA UnreachStep ==
    ASSUME IndInv, NEW p \in Callers, Silent(p), UNCHANGED <<inbox, clnt>>,
           mail' = [mail EXCEPT ![p] = Append(@, "unreach")]
    PROVE  /\ mail' \in [Parties -> Seq(Servers \cup {"unreach"})]
           /\ \A q \in Parties : q # p => mail'[q] = mail[q]
           /\ \A s \in Servers, q \in Parties :
                 OneQuestion(s, q)' /\ (NoQuestion(s, q) => NoQuestion(s, q)')
           /\ \A s \in Servers : s \notin Range(mail'[p])
  <1>1. /\ p \in Parties /\ "unreach" \notin Servers
        /\ mail[p] \in Seq(Servers \cup {"unreach"})
        /\ mail \in [Parties -> Seq(Servers \cup {"unreach"})]
    BY DiscoveryAssumption DEF IndInv, TypeOK, Parties, Clients
  <1>2. /\ mail'[p] = Append(mail[p], "unreach")
        /\ \A q \in Parties : q # p => mail'[q] = mail[q]
    BY <1>1
  <1>3. /\ mail'[p] \in Seq(Servers \cup {"unreach"})
        /\ Range(mail'[p]) = Range(mail[p]) \cup {"unreach"}
        /\ \A s \in Servers : Once(mail[p], s) => Once(mail'[p], s)
    BY <1>1, <1>2, AppendOnce
  <1>4. ASSUME NEW s \in Servers, NEW q \in Parties
        PROVE  OneQuestion(s, q)' /\ (NoQuestion(s, q) => NoQuestion(s, q)')
    <2>1. OneQuestion(s, q)
      BY DEF IndInv, QuestionsOK
    <2> QED  BY <1>1, <1>2, <1>3, <2>1 DEF OneQuestion, NoQuestion
  <1>5. \A s \in Servers : NoQuestion(s, p)
    BY <1>1 DEF IndInv, QuestionsOK
  <1> QED  BY <1>1, <1>2, <1>3, <1>4, <1>5 DEF NoQuestion

(* A socket is closed or is no longer read.                                *)
LEMMA DropStep ==
    ASSUME IndInv, NEW p \in Parties, mail' = [mail EXCEPT ![p] = <<>>]
    PROVE  /\ mail' \in [Parties -> Seq(Servers \cup {"unreach"})]
           /\ mail'[p] = <<>> /\ \A q \in Parties : q # p => mail'[q] = mail[q]
           /\ \A q \in Parties, s \in Servers :
                 /\ Once(mail[q], s) => Once(mail'[q], s)
                 /\ s \in Range(mail'[q]) => s \in Range(mail[q])
           /\ MailOK'
  <1>1. mail \in [Parties -> Seq(Servers \cup {"unreach"})]
    BY DEF IndInv, TypeOK
  <1>2. mail'[p] = <<>> /\ \A q \in Parties : q # p => mail'[q] = mail[q]
    BY <1>1
  <1>3. \A S : <<>> \in Seq(S)
    BY EmptySeq
  <1>4. MailOK'
    BY <1>2, <1>3 DEF IndInv, MailOK, Parties, Clients
  <1>5. mail' \in [Parties -> Seq(Servers \cup {"unreach"})]
    BY <1>1, <1>3
  <1> QED  BY <1>2, <1>4, <1>5, EmptyOnce

-----------------------------------------------------------------------------
(* A step of one server, from one place to another.                        *)
LEMMA ServerMoves ==
    ASSUME IndInv, NEW s \in Servers, NEW from, NEW to, ServerGoes(s, from, to),
           to \in {"wait", "bind", "recv", "answer", "dead"}
    PROVE  /\ server[s] = from /\ server'[s] = to
           /\ \A t \in Servers : t # s => server'[t] = server[t]
           /\ server' \in [Servers -> {"check", "wait", "bind", "recv", "answer", "dead"}]
           /\ \A p \in Parties : p # s => Waits(p)' = Waits(p) /\ Silent(p)' = Silent(p)
           /\ Waits(s)' <=> to = "wait"
           /\ ~Silent(s)'
           /\ UNCHANGED <<host, client>>
  BY DEF ServerGoes, IndInv, TypeOK, Waits, Silent

LEMMA ClientMoves ==
    ASSUME IndInv, NEW c \in Clients, NEW from, NEW to, ClientGoes(c, from, to),
           to \in {"wait", "gone", "dead"}
    PROVE  /\ client[c] = from /\ client'[c] = to
           /\ client' \in [Clients -> {"idle", "wait", "gone", "dead"}]
           /\ \A p \in Parties : p # c => Waits(p)' = Waits(p) /\ Silent(p)' = Silent(p)
           /\ Waits(c)' <=> to = "wait"
           /\ ~Silent(c)'
           /\ UNCHANGED <<host, server, failed, clnt, reset, lost>>
  BY DiscoveryAssumption
     DEF ClientGoes, IndInv, TypeOK, Waits, Silent, Parties

(* A call sign, to whomever it goes, reaches servers that listen.          *)
LEMMA WhoIsReached ==
    ASSUME NEW p, NEW all \in SUBSET {t \in Servers : Bound(t)}, Reaches(p, all)
    PROVE  \E there \in SUBSET {t \in Servers : Bound(t)} :
              /\ inbox' = [t \in Servers |->
                              IF t \in there THEN Append(inbox[t], p) ELSE inbox[t]]
              /\ mail' = mail
  BY DEF Reaches

LEMMA Asked ==
    ASSUME NEW p, Broadcast(p) \/ (p \in Callers /\ Unicast(p, Named))
    PROVE  \/ \E there \in SUBSET {t \in Servers : Bound(t)} :
                 /\ inbox' = [t \in Servers |->
                                 IF t \in there THEN Append(inbox[t], p) ELSE inbox[t]]
                 /\ mail' = mail
           \/ /\ p \in Callers /\ inbox' = inbox
              /\ mail' = [mail EXCEPT ![p] = Append(@, "unreach")]
           \/ inbox' = inbox /\ mail' = mail
  <1> DEFINE there == {t \in Servers : Bound(t) /\ host[t] = Named}
  <1>1. CASE Broadcast(p)
    BY <1>1, WhoIsReached DEF Broadcast
  <1>2. CASE p \in Callers /\ Unicast(p, Named)
    <2>1. there \in SUBSET {t \in Servers : Bound(t)}
      OBVIOUS
    <2>2. \/ Reaches(p, there)
          \/ mail' \in {mail, [mail EXCEPT ![p] = Append(@, "unreach")]} /\ inbox' = inbox
      BY <1>2 DEF Unicast
    <2> HIDE DEF there
    <2> QED  BY <1>2, <2>1, <2>2, WhoIsReached
  <1> QED  BY <1>1, <1>2

(* What a question leaves as it was, and what it does to the sockets.       *)
LEMMA AskedStep ==
    ASSUME IndInv, NEW p \in Parties, Silent(p), ~Silent(p)', Waits(p)',
           \A q \in Parties : q # p => Waits(q)' = Waits(q) /\ Silent(q)' = Silent(q),
           \A t \in Servers : Bound(t)' = Bound(t),
           Broadcast(p) \/ (p \in Callers /\ Unicast(p, Named)),
           UNCHANGED clnt
    PROVE  /\ inbox' \in [Servers -> Seq(Parties)]
           /\ mail' \in [Parties -> Seq(Servers \cup {"unreach"})]
           /\ \A t \in Servers : ~Bound(t)' => inbox'[t] = <<>>
           /\ \A q \in Parties : ~Waits(q)' => mail'[q] = <<>>
           /\ QuestionsOK'
           /\ MailOK'
           /\ \A t \in Servers : mail'[t] = mail[t]
  <1>1. /\ inbox \in [Servers -> Seq(Parties)]
        /\ mail \in [Parties -> Seq(Servers \cup {"unreach"})]
        /\ \A t \in Servers : ~Bound(t) => inbox[t] = <<>>
        /\ \A q \in Parties : ~Waits(q) => mail[q] = <<>>
        /\ \A t \in Servers : t \in Parties
        /\ \A t \in Servers : t \notin Callers
    BY DiscoveryAssumption DEF IndInv, TypeOK, Parties, Clients
  <1>2. CASE \E there \in SUBSET {t \in Servers : Bound(t)} :
                /\ inbox' = [t \in Servers |->
                                IF t \in there THEN Append(inbox[t], p) ELSE inbox[t]]
                /\ mail' = mail
    <2>1. /\ inbox' \in [Servers -> Seq(Parties)]
          /\ \A t \in Servers : ~Bound(t) => inbox'[t] = inbox[t]
          /\ \A t \in Servers, q \in Parties :
                 /\ OneQuestion(t, q)'
                 /\ (q # p \/ q = t) /\ NoQuestion(t, q) => NoQuestion(t, q)'
      BY <1>2, AskStep
    <2>2. QuestionsOK'
      BY <2>1 DEF IndInv, QuestionsOK
    <2>3. \A t \in Servers : ~Bound(t)' => inbox'[t] = <<>>
      BY <1>1, <2>1
    <2>4. \A q \in Parties : ~Waits(q)' => mail'[q] = <<>>
      BY <1>1, <1>2
    <2> QED  BY <1>1, <1>2, <2>1, <2>2, <2>3, <2>4 DEF IndInv, MailOK
  <1>3. CASE /\ p \in Callers /\ inbox' = inbox
             /\ mail' = [mail EXCEPT ![p] = Append(@, "unreach")]
    <2>1. /\ mail' \in [Parties -> Seq(Servers \cup {"unreach"})]
          /\ \A q \in Parties : q # p => mail'[q] = mail[q]
          /\ \A t \in Servers, q \in Parties :
                 OneQuestion(t, q)' /\ (NoQuestion(t, q) => NoQuestion(t, q)')
      BY <1>3, UnreachStep
    <2>2. QuestionsOK'
      BY <2>1 DEF IndInv, QuestionsOK
    <2>3. \A q \in Servers \cup Askers : q \in Parties /\ q # p
      BY <1>3, DiscoveryAssumption DEF Parties, Clients
    <2>4. MailOK'
      BY <2>1, <2>3 DEF IndInv, MailOK
    <2>5. \A q \in Parties : ~Waits(q)' => mail'[q] = <<>>
      BY <1>1, <2>1
    <2>6. \A t \in Servers : ~Bound(t)' => inbox'[t] = <<>>
      BY <1>1, <1>3
    <2> QED  BY <1>1, <1>3, <2>1, <2>2, <2>3, <2>4, <2>5, <2>6
  <1>4. CASE inbox' = inbox /\ mail' = mail
    <2>1. \A t \in Servers, q \in Parties :
              (OneQuestion(t, q)' <=> OneQuestion(t, q))
              /\ (NoQuestion(t, q)' <=> NoQuestion(t, q))
      BY <1>4 DEF OneQuestion, NoQuestion
    <2>2. QuestionsOK'
      BY <2>1 DEF IndInv, QuestionsOK
    <2> QED  BY <1>1, <1>4, <2>2 DEF IndInv, MailOK
  <1> QED  BY <1>2, <1>3, <1>4, Asked

LEMMA CheckStep ==
    ASSUME IndInv, NEW s \in Servers, Check(s) PROVE IndInv'
  <1>1. /\ ServerGoes(s, "check", "wait") /\ Broadcast(s)
        /\ UNCHANGED <<failed, clnt, reset, lost>>
    BY DEF Check
  <1>2. /\ server[s] = "check" /\ server'[s] = "wait" /\ UNCHANGED <<host, client>>
        /\ \A t \in Servers : t # s => server'[t] = server[t]
        /\ server' \in [Servers -> {"check", "wait", "bind", "recv", "answer", "dead"}]
        /\ \A p \in Parties : p # s => Waits(p)' = Waits(p) /\ Silent(p)' = Silent(p)
        /\ Waits(s)' /\ ~Silent(s)'
    BY <1>1, ServerMoves
  <1>3. s \in Parties /\ Silent(s) /\ \A t \in Servers : Bound(t)' = Bound(t)
    BY <1>2 DEF Bound, Silent, Parties
  <1>4. /\ inbox' \in [Servers -> Seq(Parties)]
        /\ mail' \in [Parties -> Seq(Servers \cup {"unreach"})]
        /\ \A t \in Servers : ~Bound(t)' => inbox'[t] = <<>>
        /\ \A q \in Parties : ~Waits(q)' => mail'[q] = <<>>
        /\ QuestionsOK' /\ MailOK'
        /\ \A t \in Servers : mail'[t] = mail[t]
    BY <1>1, <1>2, <1>3, AskedStep
  <1>5. TypeOK'
    BY <1>1, <1>2, <1>4 DEF IndInv, TypeOK
  <1>6. HandOK' /\ FailedOK' /\ WaitingOK'
    BY <1>1, <1>2, <1>4 DEF IndInv, TypeOK, HandOK, FailedOK, WaitingOK
  <1> QED  BY <1>4, <1>5, <1>6 DEF IndInv

LEMMA GetServerStep ==
    ASSUME IndInv, NEW c \in Clients, GetServer(c) \/ GetServerByName(c) PROVE IndInv'
  <1>1. /\ ClientGoes(c, "idle", "wait")
        /\ Broadcast(c) \/ (c \in Callers /\ Unicast(c, Named))
    BY DEF GetServer, GetServerByName
  <1>2. /\ client[c] = "idle" /\ UNCHANGED <<host, server, failed, clnt, reset, lost>>
        /\ client' \in [Clients -> {"idle", "wait", "gone", "dead"}]
        /\ \A p \in Parties : p # c => Waits(p)' = Waits(p) /\ Silent(p)' = Silent(p)
        /\ Waits(c)' /\ ~Silent(c)'
    BY <1>1, ClientMoves
  <1>3. c \in Parties /\ Silent(c) /\ \A t \in Servers : Bound(t)' = Bound(t)
    BY <1>2, Types DEF Bound, Silent, IndInv
  <1>4. /\ inbox' \in [Servers -> Seq(Parties)]
        /\ mail' \in [Parties -> Seq(Servers \cup {"unreach"})]
        /\ \A t \in Servers : ~Bound(t)' => inbox'[t] = <<>>
        /\ \A q \in Parties : ~Waits(q)' => mail'[q] = <<>>
        /\ QuestionsOK' /\ MailOK'
        /\ \A t \in Servers : mail'[t] = mail[t]
    BY <1>1, <1>2, <1>3, AskedStep
  <1>5. TypeOK'
    BY <1>2, <1>4 DEF IndInv, TypeOK
  <1>6. HandOK' /\ FailedOK' /\ WaitingOK'
    BY <1>2, <1>4 DEF IndInv, HandOK, FailedOK, WaitingOK
  <1> QED  BY <1>4, <1>5, <1>6 DEF IndInv

(* What p has received is dropped: p no longer waits.                      *)
LEMMA DroppedStep ==
    ASSUME IndInv, NEW p \in Parties, ~Silent(p)', ~Waits(p)',
           \A q \in Parties : q # p => Waits(q)' = Waits(q) /\ Silent(q)' = Silent(q),
           mail' = [mail EXCEPT ![p] = <<>>],
           \A s \in Servers :
               (UNCHANGED <<inbox[s], clnt[s]>>) \/ (inbox'[s] = <<>> /\ clnt'[s] = Nobody)
    PROVE  /\ mail' \in [Parties -> Seq(Servers \cup {"unreach"})]
           /\ \A q \in Parties : ~Waits(q)' => mail'[q] = <<>>
           /\ QuestionsOK' /\ MailOK'
           /\ \A q \in Parties : mail[q] = <<>> => mail'[q] = <<>>
  <1>1. /\ mail' \in [Parties -> Seq(Servers \cup {"unreach"})]
        /\ mail'[p] = <<>> /\ \A q \in Parties : q # p => mail'[q] = mail[q]
        /\ \A q \in Parties, s \in Servers :
              /\ Once(mail[q], s) => Once(mail'[q], s)
              /\ s \in Range(mail'[q]) => s \in Range(mail[q])
        /\ MailOK'
    BY DropStep
  <1>2. ASSUME NEW s \in Servers, NEW q \in Parties
        PROVE  OneQuestion(s, q)' /\ (Silent(q)' \/ q = s => NoQuestion(s, q)')
    <2>1. OneQuestion(s, q) /\ (Silent(q) \/ q = s => NoQuestion(s, q))
      BY DEF IndInv, QuestionsOK
    <2>2. Silent(q)' => Silent(q)
      OBVIOUS
    <2>3. CASE UNCHANGED <<inbox[s], clnt[s]>>
      BY <1>1, <2>1, <2>2, <2>3 DEF OneQuestion, NoQuestion
    <2>4. CASE inbox'[s] = <<>> /\ clnt'[s] = Nobody
      BY <1>1, <2>1, <2>2, <2>4, EmptyOnce, Types DEF OneQuestion, NoQuestion, IndInv
    <2> QED  BY <2>3, <2>4
  <1>3. QuestionsOK'
    BY <1>2 DEF QuestionsOK
  <1>4. \A q \in Parties : ~Waits(q)' => mail'[q] = <<>>
    BY <1>1 DEF IndInv, TypeOK
  <1> QED  BY <1>1, <1>3, <1>4

LEMMA ClientEndsStep ==
    ASSUME IndInv, NEW c \in Clients, Receive(c) \/ ReceiveByName(c) \/ Crash(c)
    PROVE  IndInv'
  <1>1. /\ \E to \in {"gone", "dead"} : ClientGoes(c, "wait", to)
        /\ mail' = [mail EXCEPT ![c] = <<>>] /\ inbox' = inbox
    BY DEF Receive, ReceiveByName, Crash, SocketClosed
  <1>2. /\ UNCHANGED <<host, server, failed, clnt, reset, lost>>
        /\ client' \in [Clients -> {"idle", "wait", "gone", "dead"}]
        /\ \A p \in Parties : p # c => Waits(p)' = Waits(p) /\ Silent(p)' = Silent(p)
        /\ ~Waits(c)' /\ ~Silent(c)'
    BY <1>1, ClientMoves
  <1>3. c \in Parties /\ \A t \in Servers : t \in Parties
    BY Types DEF IndInv
  <1>4. /\ mail' \in [Parties -> Seq(Servers \cup {"unreach"})]
        /\ \A q \in Parties : ~Waits(q)' => mail'[q] = <<>>
        /\ QuestionsOK' /\ MailOK'
        /\ \A q \in Parties : mail[q] = <<>> => mail'[q] = <<>>
    BY <1>1, <1>2, <1>3, DroppedStep
  <1>5. TypeOK'
    BY <1>1, <1>2, <1>4 DEF IndInv, TypeOK, Bound
  <1>6. HandOK' /\ FailedOK' /\ WaitingOK'
    BY <1>2, <1>3, <1>4 DEF IndInv, HandOK, FailedOK, WaitingOK
  <1> QED  BY <1>4, <1>5, <1>6 DEF IndInv

(* A server's search is over.  An answer comes from one that listens.      *)
LEMMA SearchEndsStep ==
    ASSUME IndInv, NEW s \in Servers, CheckAnswered(s) \/ CheckThrows(s) PROVE IndInv'
  <1>1. /\ ServerGoes(s, server[s], "bind") /\ server[s] \in {"check", "wait"}
        /\ mail' = [mail EXCEPT ![s] = <<>>] /\ UNCHANGED <<inbox, clnt, reset, lost>>
        /\ (failed' = failed /\ mail[s] # <<>>) \/ failed' = failed \cup {s}
    BY DEF CheckAnswered, CheckThrows, SocketClosed, Answered, ServerGoes
  <1>2. /\ server'[s] = "bind" /\ UNCHANGED <<host, client>>
        /\ \A t \in Servers : t # s => server'[t] = server[t]
        /\ server' \in [Servers -> {"check", "wait", "bind", "recv", "answer", "dead"}]
        /\ \A p \in Parties : p # s => Waits(p)' = Waits(p) /\ Silent(p)' = Silent(p)
        /\ ~Waits(s)' /\ ~Silent(s)'
    BY <1>1, ServerMoves
  <1>3. /\ \A t \in Servers : Bound(t)' = Bound(t) /\ t \in Parties
        /\ s \in Parties
    BY <1>1, <1>2 DEF Bound, Parties
  <1>4. /\ mail' \in [Parties -> Seq(Servers \cup {"unreach"})]
        /\ \A q \in Parties : ~Waits(q)' => mail'[q] = <<>>
        /\ QuestionsOK' /\ MailOK'
        /\ \A q \in Parties : mail[q] = <<>> => mail'[q] = <<>>
    BY <1>1, <1>2, <1>3, DroppedStep
  <1>5. TypeOK'
    BY <1>1, <1>2, <1>3, <1>4 DEF IndInv, TypeOK
  <1>6. HandOK'
    BY <1>1, <1>2 DEF IndInv, HandOK
  <1>7. FailedOK'
    BY <1>1, <1>2 DEF IndInv, FailedOK, TypeOK
  <1>8. failed' # {}
    BY <1>1 DEF IndInv, WaitingOK
  <1> QED  BY <1>4, <1>5, <1>6, <1>7, <1>8 DEF IndInv, WaitingOK

LEMMA BindStep ==
    ASSUME IndInv, NEW s \in Servers, Bind(s) PROVE IndInv'
  <1>1. /\ ServerGoes(s, "bind", "recv")
        /\ UNCHANGED <<failed, inbox, clnt, reset, mail, lost>>
    BY DEF Bind
  <1>2. /\ server[s] = "bind" /\ server'[s] = "recv" /\ UNCHANGED <<host, client>>
        /\ \A t \in Servers : t # s => server'[t] = server[t]
        /\ server' \in [Servers -> {"check", "wait", "bind", "recv", "answer", "dead"}]
        /\ \A p \in Parties : p # s => Waits(p)' = Waits(p) /\ Silent(p)' = Silent(p)
        /\ ~Waits(s)' /\ ~Silent(s)'
    BY <1>1, ServerMoves
  <1>3. \A t \in Servers : Bound(t) => Bound(t)'
    BY <1>2 DEF Bound
  <1>4. Waits(s) <=> FALSE
    BY <1>2 DEF Waits
  <1>5. TypeOK'
    BY <1>1, <1>2, <1>3, <1>4 DEF IndInv, TypeOK
  <1>6. \A t \in Servers, q \in Parties :
            /\ OneQuestion(t, q)' <=> OneQuestion(t, q)
            /\ NoQuestion(t, q)' <=> NoQuestion(t, q)
            /\ Silent(q)' => Silent(q)
    BY <1>1, <1>2 DEF OneQuestion, NoQuestion
  <1>7. QuestionsOK'
    BY <1>6 DEF IndInv, QuestionsOK
  <1>8. HandOK' /\ FailedOK' /\ WaitingOK' /\ MailOK'
    BY <1>1, <1>2 DEF IndInv, TypeOK, HandOK, FailedOK, WaitingOK, MailOK
  <1> QED  BY <1>5, <1>7, <1>8 DEF IndInv

LEMMA ServerEndsStep ==
    ASSUME IndInv, NEW s \in Servers, ServerEnds(s) PROVE IndInv'
  <1>1. /\ ServerGoes(s, server[s], "dead") /\ failed' = failed
        /\ inbox' = [inbox EXCEPT ![s] = <<>>] /\ mail' = [mail EXCEPT ![s] = <<>>]
        /\ reset' = reset \ {s} /\ clnt' = [clnt EXCEPT ![s] = Nobody] /\ lost' = lost
    BY DEF ServerEnds, SocketClosed
  <1>2. /\ server'[s] = "dead" /\ UNCHANGED <<host, client>>
        /\ \A t \in Servers : t # s => server'[t] = server[t]
        /\ server' \in [Servers -> {"check", "wait", "bind", "recv", "answer", "dead"}]
        /\ \A p \in Parties : p # s => Waits(p)' = Waits(p) /\ Silent(p)' = Silent(p)
        /\ ~Waits(s)' /\ ~Silent(s)'
    BY <1>1, ServerMoves
  <1>3. /\ inbox'[s] = <<>> /\ \A t \in Servers : t # s => inbox'[t] = inbox[t]
        /\ inbox' \in [Servers -> Seq(Parties)]
        /\ clnt'[s] = Nobody /\ \A t \in Servers : t # s => clnt'[t] = clnt[t]
        /\ clnt' \in [Servers -> Parties \cup {Nobody}]
    BY <1>1, EmptySeq DEF IndInv, TypeOK
  <1>4. s \in Parties /\ \A t \in Servers : t \in Parties
    BY DEF Parties
  <1>5. /\ mail' \in [Parties -> Seq(Servers \cup {"unreach"})]
        /\ \A q \in Parties : ~Waits(q)' => mail'[q] = <<>>
        /\ QuestionsOK' /\ MailOK'
        /\ \A q \in Parties : mail[q] = <<>> => mail'[q] = <<>>
    BY <1>1, <1>2, <1>3, <1>4, DroppedStep
  <1>6. \A t \in Servers : ~Bound(t)' => inbox'[t] = <<>>
    BY <1>2, <1>3 DEF IndInv, TypeOK, Bound
  <1>7. TypeOK'
    BY <1>1, <1>2, <1>3, <1>5, <1>6 DEF IndInv, TypeOK
  <1>8. HandOK' /\ FailedOK' /\ WaitingOK'
    BY <1>1, <1>2, <1>3, <1>4, <1>5 DEF IndInv, TypeOK, HandOK, FailedOK, WaitingOK
  <1> QED  BY <1>5, <1>7, <1>8 DEF IndInv

(* s reads the oldest question, and goes on to answer it or does not.      *)
LEMMA GetRequestStep ==
    ASSUME IndInv, NEW s \in Servers, GetRequest(s) PROVE IndInv'
  <1> DEFINE p == Head(inbox[s])
  <1>1. PICK to \in {"recv", "answer"} :
           /\ ServerGoes(s, "recv", to)
           /\ clnt' = IF to = "answer" THEN [clnt EXCEPT ![s] = p] ELSE clnt
    BY DEF GetRequest
  <1>2. /\ server[s] = "recv" /\ server'[s] = to /\ UNCHANGED <<host, client>>
        /\ \A t \in Servers : t # s => server'[t] = server[t]
        /\ server' \in [Servers -> {"check", "wait", "bind", "recv", "answer", "dead"}]
        /\ \A q \in Parties : q # s => Waits(q)' = Waits(q) /\ Silent(q)' = Silent(q)
        /\ ~Waits(s)' /\ ~Silent(s)'
    BY <1>1, ServerMoves
  <1>3. /\ inbox' = [inbox EXCEPT ![s] = Tail(inbox[s])] /\ inbox[s] # <<>>
        /\ UNCHANGED <<failed, reset, mail, lost>>
        /\ inbox \in [Servers -> Seq(Parties)] /\ inbox[s] \in Seq(Parties)
        /\ clnt \in [Servers -> Parties \cup {Nobody}]
    BY DEF GetRequest, Taken, IndInv, TypeOK
  <1>4. /\ Tail(inbox[s]) \in Seq(Parties) /\ p \in Parties
        /\ Range(inbox[s]) = Range(Tail(inbox[s])) \cup {p}
        /\ \A x : Once(inbox[s], x) => Once(Tail(inbox[s]), x)
        /\ Once(inbox[s], p) => p \notin Range(Tail(inbox[s]))
    BY <1>3, TailOnce
  <1>5. /\ inbox'[s] = Tail(inbox[s]) /\ \A t \in Servers : t # s => inbox'[t] = inbox[t]
        /\ inbox' \in [Servers -> Seq(Parties)]
    BY <1>3, <1>4
  <1>6. /\ clnt'[s] = IF to = "answer" THEN p ELSE clnt[s]
        /\ \A t \in Servers : t # s => clnt'[t] = clnt[t]
        /\ clnt' \in [Servers -> Parties \cup {Nobody}]
        /\ clnt[s] = Nobody /\ p # Nobody
    BY <1>1, <1>2, <1>3, <1>4, DiscoveryAssumption DEF IndInv, HandOK, Parties
  <1> HIDE DEF p
  <1>7. ASSUME NEW t \in Servers, NEW q \in Parties
        PROVE  /\ OneQuestion(t, q)'
               /\ Silent(q)' \/ q = t => NoQuestion(t, q)'
    <2>1. OneQuestion(t, q) /\ (Silent(q) \/ q = t => NoQuestion(t, q))
      BY DEF IndInv, QuestionsOK
    <2>2. Silent(q)' => Silent(q)
      BY <1>2
    <2>3. CASE t # s
      BY <1>3, <1>5, <1>6, <2>1, <2>2, <2>3 DEF OneQuestion, NoQuestion
    <2>4. CASE t = s
      <3>1. OneQuestion(s, q)'
        BY <1>3, <1>4, <1>5, <1>6, <2>1, <2>4 DEF OneQuestion
      <3>2. NoQuestion(s, q) => NoQuestion(s, q)'
        BY <1>3, <1>4, <1>5, <1>6 DEF NoQuestion
      <3> QED  BY <2>1, <2>2, <2>4, <3>1, <3>2
    <2> QED  BY <2>3, <2>4
  <1>8. QuestionsOK'
    BY <1>7 DEF QuestionsOK
  <1>9. /\ \A t \in Servers : ~Bound(t)' => inbox'[t] = <<>>
        /\ \A q \in Parties : ~Waits(q)' => mail'[q] = <<>>
    BY <1>2, <1>3, <1>5 DEF IndInv, TypeOK, Bound, Waits
  <1>10. TypeOK'
    BY <1>2, <1>3, <1>5, <1>6, <1>9 DEF IndInv, TypeOK
  <1>11. HandOK'
    BY <1>2, <1>6 DEF IndInv, HandOK
  <1>12. FailedOK' /\ WaitingOK' /\ MailOK'
    BY <1>2, <1>3 DEF IndInv, TypeOK, FailedOK, WaitingOK, MailOK
  <1> QED  BY <1>8, <1>10, <1>11, <1>12 DEF IndInv

LEMMA PutAnswerStep ==
    ASSUME IndInv, NEW s \in Servers, PutAnswer(s) PROVE IndInv'
  <1>1. /\ ServerGoes(s, "answer", "recv") /\ clnt' = [clnt EXCEPT ![s] = Nobody]
        /\ UNCHANGED <<failed, inbox>> /\ reset' \subseteq Servers
    BY DEF PutAnswer, Arrives, IsLost, FindsNobody, IndInv, TypeOK
  <1>2. /\ server[s] = "answer" /\ server'[s] = "recv" /\ UNCHANGED <<host, client>>
        /\ \A t \in Servers : t # s => server'[t] = server[t]
        /\ server' \in [Servers -> {"check", "wait", "bind", "recv", "answer", "dead"}]
        /\ \A q \in Parties : q # s => Waits(q)' = Waits(q) /\ Silent(q)' = Silent(q)
        /\ ~Waits(s)' /\ ~Silent(s)'
    BY <1>1, ServerMoves
  <1>3. PICK p \in Parties : p = clnt[s]
    BY <1>2 DEF IndInv, HandOK, TypeOK
  <1>4. /\ clnt'[s] = Nobody /\ \A t \in Servers : t # s => clnt'[t] = clnt[t]
        /\ clnt' \in [Servers -> Parties \cup {Nobody}] /\ Nobody \notin Parties
    BY <1>1, DiscoveryAssumption DEF IndInv, TypeOK
  <1>5. /\ mail \in [Parties -> Seq(Servers \cup {"unreach"})]
        /\ mail[p] \in Seq(Servers \cup {"unreach"})
        /\ (Waits(p) /\ mail' = [mail EXCEPT ![p] = @ \o <<s>>]) \/ mail' = mail
        /\ lost' = lost \/ lost' = lost \cup {<<s, p>>}
    BY <1>3 DEF PutAnswer, Arrives, IsLost, FindsNobody, Sent, IndInv, TypeOK
  <1>6. /\ \A q \in Parties : q # p => mail'[q] = mail[q]
        /\ mail'[p] = mail[p] \/ (Waits(p) /\ mail'[p] = Append(mail[p], s))
    <2>1. mail[p] \o <<s>> = Append(mail[p], s)
      BY <1>5, AppendIsConcat
    <2> QED  BY <1>5, <2>1
  <1>7. /\ mail'[p] \in Seq(Servers \cup {"unreach"})
        /\ Range(mail'[p]) \subseteq Range(mail[p]) \cup {s}
        /\ \A x : Once(mail[p], x) /\ (x # s \/ x \notin Range(mail[p])) => Once(mail'[p], x)
    <2>1. CASE mail'[p] = mail[p]
      BY <1>5, <2>1
    <2>2. CASE mail'[p] = Append(mail[p], s)
      <3>1. s \in Servers \cup {"unreach"}
        OBVIOUS
      <3>2. /\ Append(mail[p], s) \in Seq(Servers \cup {"unreach"})
            /\ Range(Append(mail[p], s)) = Range(mail[p]) \cup {s}
            /\ \A x : Once(mail[p], x) /\ (x # s \/ x \notin Range(mail[p]))
                        => Once(Append(mail[p], s), x)
        BY <1>5, <3>1, AppendOnce
      <3> QED  BY <2>2, <3>2
    <2> QED  BY <1>6, <2>1, <2>2
  <1>8. ASSUME NEW t \in Servers, NEW q \in Parties
        PROVE  /\ OneQuestion(t, q)'
               /\ Silent(q)' \/ q = t => NoQuestion(t, q)'
    <2>1. OneQuestion(t, q) /\ (Silent(q) \/ q = t => NoQuestion(t, q))
      BY DEF IndInv, QuestionsOK
    <2>2. (Silent(q)' => Silent(q)) /\ OneQuestion(s, p)
      BY <1>2 DEF IndInv, QuestionsOK
    <2>3. CASE t # s \/ q # p
      BY <1>1, <1>3, <1>4, <1>6, <1>7, <2>1, <2>2, <2>3 DEF OneQuestion, NoQuestion
    <2>4. CASE t = s /\ q = p
      <3>1. ~NoQuestion(s, p) /\ p \notin Range(inbox[s]) /\ s \notin Range(mail[p])
        BY <1>3, <2>2 DEF NoQuestion, OneQuestion
      <3>2. OneQuestion(s, p)'
        BY <1>1, <1>4, <1>7, <2>2, <3>1 DEF OneQuestion
      <3> QED  BY <2>1, <2>2, <2>4, <3>1, <3>2
    <2> QED  BY <2>3, <2>4
  <1>9. QuestionsOK'
    BY <1>8 DEF QuestionsOK
  <1>10. /\ \A t \in Servers : ~Bound(t)' => inbox'[t] = <<>>
         /\ \A q \in Parties : ~Waits(q)' => mail'[q] = <<>>
    BY <1>1, <1>2, <1>6 DEF IndInv, TypeOK, Bound, Waits
  <1>11. mail' \in [Parties -> Seq(Servers \cup {"unreach"})]
    BY <1>5, <1>6, <1>7
  <1>12. TypeOK'
    BY <1>1, <1>2, <1>4, <1>5, <1>10, <1>11 DEF IndInv, TypeOK
  <1>13. HandOK' /\ FailedOK'
    BY <1>1, <1>2, <1>4 DEF IndInv, HandOK, FailedOK, TypeOK
  <1>14. failed' # {}
    BY <1>1, <1>2 DEF IndInv, WaitingOK
  <1>15. MailOK'
    <2>1. p \in Servers \cup Askers => mail'[p] \in Seq(Servers)
      <3>1. ASSUME p \in Servers \cup Askers PROVE mail'[p] \in Seq(Servers)
        <4>1. mail[p] \in Seq(Servers)
          BY <3>1 DEF IndInv, MailOK
        <4> QED  BY <1>6, <4>1, AppendProperties
      <3> QED  BY <3>1
    <2> QED  BY <1>6, <2>1 DEF IndInv, MailOK, Parties, Clients
  <1> QED  BY <1>9, <1>12, <1>13, <1>14, <1>15 DEF IndInv, WaitingOK

(* What the programs of lab4 keep between any two steps, of which the      *)
(* theorems below are consequences.                                        *)
THEOREM Inductive == Spec => []IndInv
  <1>1. IndInv /\ [Next]_vars => IndInv'
    <2> SUFFICES ASSUME IndInv, [Next]_vars PROVE IndInv'
      OBVIOUS
    <2>1. ASSUME NEW s \in Servers, Server(s) \/ Fails(s) PROVE IndInv'
      BY <2>1, CheckStep, SearchEndsStep, BindStep, ServerEndsStep, GetRequestStep,
         PutAnswerStep
         DEF Server, Fails, BindThrows, Throws, Kill
    <2>2. ASSUME NEW c \in Clients,
                 GetServer(c) \/ GetServerByName(c) \/ Receive(c) \/ ReceiveByName(c)
                     \/ Crash(c)
          PROVE  IndInv'
      BY <2>2, GetServerStep, ClientEndsStep
    <2>3. CASE UNCHANGED vars
      BY <2>3 DEF vars, IndInv, TypeOK, QuestionsOK, OneQuestion, NoQuestion, HandOK,
                  FailedOK, MailOK, WaitingOK, Silent, Bound, Waits
    <2> QED  BY <2>1, <2>2, <2>3 DEF Next
  <1> QED  BY <1>1, InitIndInv, PTL DEF Spec

(* The variables have their types.                                         *)
THEOREM TypeCorrect == Spec => []TypeOK
  <1>1. IndInv => TypeOK
    BY DEF IndInv
  <1> QED  BY <1>1, Inductive, PTL

(* No server listens before an error.                                      *)
THEOREM ListensAfterError == Spec => []ListeningNeedsError
  <1>1. IndInv => ListeningNeedsError
    BY DEF IndInv, WaitingOK, ListeningNeedsError, Bound
  <1> QED  BY <1>1, Inductive, PTL

(* Nobody has asked a server, or is answered by it, more than once.        *)
THEOREM AnswersOnce == Spec => []OneAnswerEach
  <1>1. ASSUME IndInv, NEW s \in Servers, NEW p \in Parties
        PROVE  LET asked == {n \in DOMAIN inbox[s] : inbox[s][n] = p}
                   inHand == IF server[s] = "answer" /\ clnt[s] = p THEN 1 ELSE 0
                   answers == {n \in DOMAIN mail[p] : mail[p][n] = s}
               IN  Cardinality(asked) + inHand + Cardinality(answers)
                     <= (IF p = s THEN 0 ELSE 1)
    <2>1. OneQuestion(s, p) /\ (p = s => NoQuestion(s, p))
      BY <1>1 DEF IndInv, QuestionsOK
    <2>2. Cardinality({n \in DOMAIN inbox[s] : inbox[s][n] = p})
              = IF p \in Range(inbox[s]) THEN 1 ELSE 0
      BY <1>1, <2>1, Types, CountOnce DEF IndInv, OneQuestion
    <2>3. Cardinality({n \in DOMAIN mail[p] : mail[p][n] = s})
              = IF s \in Range(mail[p]) THEN 1 ELSE 0
      BY <1>1, <2>1, Types, CountOnce DEF IndInv, OneQuestion
    <2> QED  BY <2>1, <2>2, <2>3 DEF OneQuestion, NoQuestion
  <1>2. IndInv => OneAnswerEach
    BY <1>1 DEF OneAnswerEach
  <1> QED  BY <1>2, Inductive, PTL

-----------------------------------------------------------------------------
(* The search that the programs implement.                                 *)
Phases == [p \in Parties |-> Phase(p)]
Listening == {s \in Servers : Bound(s)}
Heards == [p \in Parties |-> Heard(p)]

(* s has a question or an answer of p's that p may hear of.                *)
Holds(s, p) == p \in Range(inbox[s]) \/ clnt[s] = p \/ s \in Range(mail[p])

LEMMA HeardIs ==
    ASSUME NEW p \in Parties
    PROVE  Heard(p) = IF Waits(p) THEN {s \in Servers : Holds(s, p)} ELSE {}
  BY DEF Heard, Holds

LEMMA HeardIsThen ==
    \A p \in Parties :
        Heard(p)' = IF Waits(p)' THEN {s \in Servers : Holds(s, p)'} ELSE {}
  BY DEF Heard, Holds

LEMMA OthersSearch ==
    ASSUME IndInv, NEW p \in Parties,
           \A q \in Parties : q # p =>
               /\ q \in Servers => server'[q] = server[q]
               /\ q \in Clients => client'[q] = client[q]
               /\ q \in failed' <=> q \in failed
    PROVE  /\ \A q \in Parties : q # p => Phase(q)' = Phase(q)
           /\ \A q \in Parties : q # p => Waits(q)' = Waits(q)
           /\ Phases' = [Phases EXCEPT ![p] = Phase(p)']
           /\ \A q \in Parties : Phases[q] = Phase(q) /\ Heards[q] = Heard(q)
  <1>1. \A q \in Parties : q # p => Phase(q)' = Phase(q) /\ Waits(q)' = Waits(q)
    BY DEF Phase, Waits, Parties
  <1> QED  BY <1>1 DEF Phases, Heards

LEMMA AskRefines ==
    ASSUME IndInv, NEW p \in Parties, Silent(p),
           \A q \in Parties : q # p =>
               /\ q \in Servers => server'[q] = server[q]
               /\ q \in Clients => client'[q] = client[q]
               /\ q \in failed' <=> q \in failed,
           Phase(p) = "silent", Phase(p)' = "asking", Waits(p)', ~Waits(p),
           UNCHANGED <<Listening, clnt, lost>>,
           Broadcast(p) \/ (p \in Callers /\ Unicast(p, Named))
    PROVE  Search!Ask(p)
  <1>1. /\ \A q \in Parties : q # p => Phase(q)' = Phase(q) /\ Waits(q)' = Waits(q)
        /\ Phases' = [Phases EXCEPT ![p] = "asking"]
        /\ \A q \in Parties : Phases[q] = Phase(q) /\ Heards[q] = Heard(q)
    BY OthersSearch
  <1>2. \A s \in Servers : NoQuestion(s, p)
    BY DEF IndInv, QuestionsOK
  <1>3. /\ \A s \in Servers : Holds(s, p)' => s \in Listening
        /\ \A s \in Servers, q \in Parties : q # p => (Holds(s, q)' <=> Holds(s, q))
    <2>1. CASE \E there \in SUBSET Listening :
                  /\ inbox' = [s \in Servers |->
                                  IF s \in there THEN Append(inbox[s], p) ELSE inbox[s]]
                  /\ mail' = mail
      <3>1. PICK there \in SUBSET Listening :
                  /\ inbox' = [s \in Servers |->
                                  IF s \in there THEN Append(inbox[s], p) ELSE inbox[s]]
                  /\ mail' = mail
        BY <2>1
      <3>2. \A s \in Servers :
               Range(inbox'[s]) = Range(inbox[s]) \cup (IF s \in there THEN {p} ELSE {})
        BY <3>1, AskStep DEF Listening
      <3> QED  BY <1>2, <3>1, <3>2 DEF Holds, NoQuestion
    <2>2. CASE /\ p \in Callers /\ inbox' = inbox
               /\ mail' = [mail EXCEPT ![p] = Append(@, "unreach")]
      <3>1. /\ \A q \in Parties : q # p => mail'[q] = mail[q]
            /\ \A s \in Servers : s \notin Range(mail'[p])
        BY <2>2, UnreachStep
      <3> QED  BY <1>2, <2>2, <3>1 DEF Holds, NoQuestion
    <2>3. CASE inbox' = inbox /\ mail' = mail
      BY <1>2, <2>3 DEF Holds, NoQuestion
    <2> QED  BY <2>1, <2>2, <2>3, Asked DEF Listening
  <1>4. /\ Heard(p)' \subseteq Listening
        /\ \A q \in Parties : q # p => Heard(q)' = Heard(q)
    BY <1>1, <1>3, HeardIs, HeardIsThen
  <1>5. Heards' = [Heards EXCEPT ![p] = Heard(p)']
    BY <1>4 DEF Heards
  <1> QED
    BY <1>1, <1>4, <1>5 DEF Search!Ask, Search!Turns, Phases, Heards, Listening

(* p's search ends, and what it has heard goes with its socket.            *)
LEMMA SearchEnds ==
    ASSUME IndInv, NEW p \in Parties,
           \A q \in Parties : q # p =>
               /\ q \in Servers => server'[q] = server[q]
               /\ q \in Clients => client'[q] = client[q]
               /\ q \in failed' <=> q \in failed,
           ~Waits(p)', UNCHANGED <<inbox, clnt>>, mail' = [mail EXCEPT ![p] = <<>>]
    PROVE  Heards' = [Heards EXCEPT ![p] = {}]
  <1>1. \A q \in Parties : q # p => mail'[q] = mail[q] /\ Waits(q)' = Waits(q)
    BY DropStep, OthersSearch
  <1>2. \A s \in Servers, q \in Parties : q # p => (Holds(s, q)' <=> Holds(s, q))
    BY <1>1 DEF Holds
  <1>3. Heard(p)' = {} /\ \A q \in Parties : q # p => Heard(q)' = Heard(q)
    BY <1>1, <1>2, HeardIs, HeardIsThen
  <1> QED  BY <1>3 DEF Heards

(* What a waiting process has received comes from a server, if it is not   *)
(* told that nobody listens.                                               *)
LEMMA HasHeard ==
    ASSUME IndInv, NEW p \in Parties, Waits(p), mail[p] # <<>>,
           p \in Servers \cup Askers \/ "unreach" \notin Range(mail[p])
    PROVE  Heard(p) # {}
  <1>1. \E s \in Servers : s \in Range(mail[p])
    <2>1. CASE p \in Servers \cup Askers
      BY <2>1, InRange DEF IndInv, MailOK
    <2>2. CASE "unreach" \notin Range(mail[p])
      <3>1. mail[p] \in Seq(Servers \cup {"unreach"})
        BY DEF IndInv, TypeOK
      <3>2. Range(mail[p]) \subseteq Servers \cup {"unreach"} /\ Range(mail[p]) # {}
        BY <3>1, InRange
      <3> QED  BY <2>2, <3>2
    <2> QED  BY <2>1, <2>2
  <1> QED  BY <1>1, HeardIs DEF Holds

LEMMA CheckRefines ==
    ASSUME IndInv, NEW s \in Servers, Check(s) PROVE Search!Ask(s)
  <1>1. /\ ServerGoes(s, "check", "wait") /\ Broadcast(s) /\ UNCHANGED <<failed, clnt, lost>>
    BY DEF Check
  <1>2. /\ server[s] = "check" /\ server'[s] = "wait" /\ client' = client
        /\ \A t \in Servers : t # s => server'[t] = server[t]
        /\ s \in Parties
    BY <1>1, ServerMoves DEF Parties
  <1>3. /\ Silent(s) /\ Phase(s) = "silent" /\ Phase(s)' = "asking" /\ Waits(s)' /\ ~Waits(s)
    BY <1>2 DEF Silent, Phase, Waits
  <1>4. Listening' = Listening
    BY <1>2 DEF Listening, Bound
  <1> QED  BY <1>1, <1>2, <1>3, <1>4, AskRefines

LEMMA GetServerRefines ==
    ASSUME IndInv, NEW c \in Clients, GetServer(c) \/ GetServerByName(c)
    PROVE  Search!Ask(c)
  <1>1. /\ ClientGoes(c, "idle", "wait")
        /\ Broadcast(c) \/ (c \in Callers /\ Unicast(c, Named))
    BY DEF GetServer, GetServerByName
  <1>2. /\ client[c] = "idle" /\ client'[c] = "wait"
        /\ UNCHANGED <<server, failed, clnt, lost>>
        /\ \A d \in Clients : d # c => client'[d] = client[d]
        /\ c \in Parties /\ c \notin Servers
    BY <1>1, Types DEF ClientGoes, IndInv, TypeOK
  <1>3. /\ Silent(c) /\ Phase(c) = "silent" /\ Phase(c)' = "asking" /\ Waits(c)' /\ ~Waits(c)
    BY <1>2 DEF Silent, Phase, Waits
  <1>4. Listening' = Listening
    BY <1>2 DEF Listening, Bound
  <1> QED  BY <1>1, <1>2, <1>3, <1>4, AskRefines

LEMMA CheckEndsRefines ==
    ASSUME IndInv, NEW s \in Servers, CheckAnswered(s) \/ CheckThrows(s)
    PROVE  Search!Found(s) \/ Search!Fail(s)
  <1>1. /\ ServerGoes(s, server[s], "bind") /\ server[s] \in {"check", "wait"}
        /\ mail' = [mail EXCEPT ![s] = <<>>] /\ UNCHANGED <<inbox, clnt, lost>>
        /\ \/ failed' = failed /\ mail[s] # <<>> /\ server[s] = "wait"
           \/ failed' = failed \cup {s}
    BY DEF CheckAnswered, CheckThrows, SocketClosed, Answered, ServerGoes
  <1>2. /\ server'[s] = "bind" /\ client' = client
        /\ \A t \in Servers : t # s => server'[t] = server[t]
        /\ s \in Parties /\ s \notin failed
        /\ ~Waits(s)'
    BY <1>1, ServerMoves DEF Parties, IndInv, FailedOK
  <1>3. /\ Phases' = [Phases EXCEPT ![s] = Phase(s)']
        /\ \A q \in Parties : Phases[q] = Phase(q) /\ Heards[q] = Heard(q)
    BY <1>1, <1>2, OthersSearch
  <1>4. Heards' = [Heards EXCEPT ![s] = {}]
    BY <1>1, <1>2, SearchEnds
  <1>5. Listening' = Listening
    BY <1>1, <1>2 DEF Listening, Bound
  <1>6. CASE failed' = failed /\ mail[s] # <<>> /\ server[s] = "wait"
    <2>1. Heard(s) # {}
      BY <1>2, <1>6, HasHeard DEF Waits
    <2>2. Phase(s) = "asking" /\ Phase(s)' = "found"
      BY <1>2, <1>6 DEF Phase
    <2>3. Search!Found(s)
      BY <1>1, <1>2, <1>3, <1>4, <1>5, <2>1, <2>2
         DEF Search!Found, Search!Turns, Phases, Heards, Listening
    <2> QED  BY <2>3
  <1>7. CASE failed' = failed \cup {s}
    <2>1. Phase(s) \in {"silent", "asking"} /\ Phase(s)' = "failed"
      BY <1>1, <1>2, <1>7 DEF Phase
    <2>2. Search!Fail(s)
      BY <1>1, <1>2, <1>3, <1>4, <1>5, <2>1
         DEF Search!Fail, Search!Turns, Phases, Heards, Listening
    <2> QED  BY <2>2
  <1> QED  BY <1>1, <1>6, <1>7

LEMMA ClientEndsRefines ==
    ASSUME IndInv, NEW c \in Clients, Receive(c) \/ ReceiveByName(c) \/ Crash(c)
    PROVE  Search!Found(c) \/ Search!End(c)
  <1>1. PICK to \in {"gone", "dead"} :
          /\ ClientGoes(c, "wait", to)
          /\ to = "gone" => /\ mail[c] # <<>>
                            /\ c \in Servers \cup Askers \/ "unreach" \notin Range(mail[c])
    BY DEF Receive, ReceiveByName, Crash, Answered
  <1>2. mail' = [mail EXCEPT ![c] = <<>>] /\ inbox' = inbox
    BY DEF Receive, ReceiveByName, Crash, SocketClosed
  <1>3. /\ client[c] = "wait" /\ client'[c] = to
        /\ UNCHANGED <<server, failed, clnt, lost>>
        /\ \A d \in Clients : d # c => client'[d] = client[d]
        /\ c \in Parties /\ c \notin Servers /\ c \notin failed
        /\ Waits(c) /\ ~Waits(c)'
    BY <1>1, Types DEF ClientGoes, IndInv, TypeOK, Waits
  <1>4. /\ Phases' = [Phases EXCEPT ![c] = Phase(c)']
        /\ \A q \in Parties : Phases[q] = Phase(q) /\ Heards[q] = Heard(q)
    BY <1>3, OthersSearch
  <1>5. Heards' = [Heards EXCEPT ![c] = {}]
    BY <1>2, <1>3, SearchEnds
  <1>6. Listening' = Listening /\ Listening \ {c} = Listening
    BY <1>3 DEF Listening, Bound
  <1>7. CASE to = "gone"
    <2>1. Heard(c) # {}
      BY <1>1, <1>3, <1>7, HasHeard
    <2>2. Phase(c) = "asking" /\ Phase(c)' = "found"
      BY <1>3, <1>7 DEF Phase
    <2>3. Search!Found(c)
      BY <1>3, <1>4, <1>5, <1>6, <2>1, <2>2
         DEF Search!Found, Search!Turns, Phases, Heards, Listening
    <2> QED  BY <2>3
  <1>8. CASE to = "dead"
    <2>1. Phase(c) = "asking" /\ Phase(c)' = "over"
      BY <1>3, <1>8 DEF Phase
    <2>2. Heards' = [q \in Search!Parties |->
                       IF q = c THEN {}
                       ELSE IF q \in {} THEN Heards[q] \ {c} ELSE Heards[q]]
      BY <1>5 DEF Heards, Search!Parties, Parties
    <2>3. {} \in SUBSET Search!Parties
      OBVIOUS
    <2>4. \E waiting \in SUBSET Search!Parties :
            Heards' = [q \in Search!Parties |->
                         IF q = c THEN {}
                         ELSE IF q \in waiting THEN Heards[q] \ {c} ELSE Heards[q]]
      BY <2>2, <2>3, Zenon
    <2>5. Search!End(c)
      BY <1>3, <1>4, <1>6, <2>1, <2>4
         DEF Search!End, Search!Turns, Phases, Heards, Listening
    <2> QED  BY <2>5
  <1> QED  BY <1>7, <1>8

LEMMA BindRefines ==
    ASSUME IndInv, NEW s \in Servers, Bind(s) PROVE Search!Listen(s)
  <1>1. /\ ServerGoes(s, "bind", "recv") /\ UNCHANGED <<failed, inbox, clnt, mail, lost>>
    BY DEF Bind
  <1>2. /\ server[s] = "bind" /\ server'[s] = "recv" /\ client' = client
        /\ \A t \in Servers : t # s => server'[t] = server[t]
        /\ s \in Parties
    BY <1>1, ServerMoves DEF Parties
  <1>3. /\ \A q \in Parties : Phase(q)' = Phase(q) /\ Waits(q)' = Waits(q)
        /\ Phase(s) \in {"found", "failed"}
    BY <1>1, <1>2 DEF Phase, Waits, Parties
  <1>4. \A q \in Parties : Heard(q)' = Heard(q)
    BY <1>1, <1>3, HeardIs, HeardIsThen DEF Holds
  <1>5. Listening' = Listening \cup {s}
    BY <1>2 DEF Listening, Bound
  <1> QED
    BY <1>1, <1>2, <1>3, <1>4, <1>5 DEF Search!Listen, Phases, Heards, Listening

LEMMA ServerEndsRefines ==
    ASSUME IndInv, NEW s \in Servers, server[s] # "dead", ServerEnds(s)
    PROVE  Search!End(s)
  <1>1. /\ ServerGoes(s, server[s], "dead") /\ failed' = failed
        /\ inbox' = [inbox EXCEPT ![s] = <<>>] /\ mail' = [mail EXCEPT ![s] = <<>>]
        /\ clnt' = [clnt EXCEPT ![s] = Nobody] /\ lost' = lost
    BY DEF ServerEnds, SocketClosed
  <1>2. /\ server'[s] = "dead" /\ client' = client
        /\ \A t \in Servers : t # s => server'[t] = server[t]
        /\ s \in Parties /\ ~Waits(s)'
    BY <1>1, ServerMoves DEF Parties
  <1>3. /\ \A t \in Servers : t # s => inbox'[t] = inbox[t] /\ clnt'[t] = clnt[t]
        /\ inbox'[s] = <<>> /\ clnt'[s] = Nobody
        /\ \A q \in Parties : q # s => mail'[q] = mail[q]
    BY <1>1 DEF IndInv, TypeOK
  <1>4. /\ \A q \in Parties : q # s => Waits(q)' = Waits(q)
        /\ Phases' = [Phases EXCEPT ![s] = Phase(s)']
        /\ \A q \in Parties : Phases[q] = Phase(q) /\ Heards[q] = Heard(q)
    BY <1>1, <1>2, OthersSearch
  <1>5. /\ Phase(s) \in {"silent", "asking", "found", "failed"} /\ Phase(s)' = "over"
    BY <1>2 DEF Phase
  <1>6. Listening' = Listening \ {s}
    BY <1>2 DEF Listening, Bound
  <1>7. /\ \A t \in Servers, q \in Parties :
              t # s /\ q # s => (Holds(t, q)' <=> Holds(t, q))
        /\ \A q \in Parties : q # s /\ Holds(s, q)' => Holds(s, q)
    BY <1>3, EmptyOnce, DiscoveryAssumption DEF Holds
  <1>8. /\ Heard(s)' = {}
        /\ \A q \in Parties : q # s => Heard(q)' = Heard(q) \/ Heard(q)' = Heard(q) \ {s}
    BY <1>2, <1>4, <1>7, HeardIs, HeardIsThen
  <1> DEFINE waiting == {q \in Parties : s \notin Heard(q)'}
  <1>9. Heards' = [q \in Parties |->
                      IF q = s THEN {}
                      ELSE IF q \in waiting THEN Heards[q] \ {s} ELSE Heards[q]]
    BY <1>4, <1>8 DEF Heards
  <1>10. \E w \in SUBSET Search!Parties :
            Heards' = [q \in Search!Parties |->
                         IF q = s THEN {}
                         ELSE IF q \in w THEN Heards[q] \ {s} ELSE Heards[q]]
    <2>1. waiting \in SUBSET Search!Parties /\ Search!Parties = Parties
      BY DEF Search!Parties, Parties
    <2> HIDE DEF waiting
    <2> QED  BY <1>9, <2>1
  <1> QED
    BY <1>1, <1>2, <1>4, <1>5, <1>6, <1>10
       DEF Search!End, Search!Turns, Phases, Heards, Listening

(* Nobody's phase changes, and nobody hears of another server.             *)
LEMMA Stays ==
    ASSUME \A q \in Parties : Phase(q)' = Phase(q) /\ Heard(q)' = Heard(q),
           Listening' = Listening, lost' = lost
    PROVE  UNCHANGED <<Phases, Listening, Heards, lost>>
  BY DEF Phases, Heards

LEMMA GetRequestRefines ==
    ASSUME IndInv, NEW s \in Servers, GetRequest(s)
    PROVE  (\E p \in Servers : Search!Ignore(s, p)) \/ UNCHANGED <<Phases, Listening, Heards, lost>>
  <1>1. /\ inbox' = [inbox EXCEPT ![s] = Tail(inbox[s])] /\ inbox[s] # <<>>
        /\ UNCHANGED <<failed, reset, mail, lost>>
        /\ inbox \in [Servers -> Seq(Parties)] /\ inbox[s] \in Seq(Parties)
        /\ clnt \in [Servers -> Parties \cup {Nobody}]
    BY DEF GetRequest, Taken, IndInv, TypeOK
  <1>2. PICK p \in Parties : p = Head(inbox[s])
    BY <1>1, TailOnce
  <1>3. PICK to \in {"recv", "answer"} :
           /\ ServerGoes(s, "recv", to)
           /\ clnt' = IF to = "answer" THEN [clnt EXCEPT ![s] = p] ELSE clnt
           /\ to = "recv" => p \in Servers
    BY <1>2 DEF GetRequest
  <1>4. /\ server[s] = "recv" /\ server'[s] = to /\ client' = client
        /\ \A t \in Servers : t # s => server'[t] = server[t]
    BY <1>3, ServerMoves
  <1>5. /\ Range(inbox[s]) = Range(Tail(inbox[s])) \cup {p}
        /\ Once(inbox[s], p) => p \notin Range(Tail(inbox[s]))
    BY <1>1, <1>2, TailOnce
  <1>6. /\ inbox'[s] = Tail(inbox[s]) /\ \A t \in Servers : t # s => inbox'[t] = inbox[t]
        /\ clnt'[s] = IF to = "answer" THEN p ELSE clnt[s]
        /\ \A t \in Servers : t # s => clnt'[t] = clnt[t]
        /\ clnt[s] = Nobody /\ p # Nobody
    BY <1>3, <1>4, <1>1, <1>5, DiscoveryAssumption DEF IndInv, HandOK
  <1>7. /\ \A q \in Parties : Phase(q)' = Phase(q) /\ Waits(q)' = Waits(q)
        /\ Listening' = Listening
    BY <1>4, <1>1 DEF Phase, Waits, Listening, Bound
  <1>8. /\ p \in Range(inbox[s]) /\ p \notin Range(inbox'[s]) /\ s \notin Range(mail[p])
    BY <1>5, <1>6 DEF IndInv, QuestionsOK, OneQuestion
  <1>9. /\ \A t \in Servers, q \in Parties :
              t # s \/ q # p \/ to = "answer" => (Holds(t, q)' <=> Holds(t, q))
        /\ Holds(s, p)
        /\ to = "recv" => ~Holds(s, p)'
    <2>1. \A t \in Servers, q \in Parties : t # s => (Holds(t, q)' <=> Holds(t, q))
      BY <1>1, <1>6 DEF Holds
    <2>2. \A q \in Parties : q # p => (Holds(s, q)' <=> Holds(s, q))
      BY <1>1, <1>5, <1>6, DiscoveryAssumption DEF Holds
    <2>3. to = "answer" => (Holds(s, p)' <=> Holds(s, p))
      BY <1>1, <1>6, <1>8 DEF Holds
    <2>4. to = "recv" => ~Holds(s, p)'
      BY <1>1, <1>6, <1>8 DEF Holds
    <2> QED  BY <1>8, <2>1, <2>2, <2>3, <2>4 DEF Holds
  <1>10. CASE to = "answer" \/ ~Waits(p)
    <2>1. \A q \in Parties : Heard(q)' = Heard(q)
      BY <1>5, <1>7, <1>9, <1>10, HeardIs, HeardIsThen
    <2> QED  BY <1>1, <1>7, <2>1, Stays
  <1>11. CASE to = "recv" /\ Waits(p)
    <2>1. /\ s \in Heard(p) /\ Heard(p)' = Heard(p) \ {s}
          /\ \A q \in Parties : q # p => Heard(q)' = Heard(q)
      BY <1>5, <1>7, <1>9, <1>11, HeardIs, HeardIsThen
    <2>2. Heards' = [Heards EXCEPT ![p] = @ \ {s}] /\ Heards[p] = Heard(p)
      BY <1>5, <2>1 DEF Heards
    <2>3. Phases' = Phases
      BY <1>7 DEF Phases
    <2>4. s \in Listening
      BY <1>4 DEF Listening, Bound
    <2>5. Search!Ignore(s, p)
      BY <1>1, <1>5, <1>7, <2>1, <2>2, <2>3, <2>4
         DEF Search!Ignore, Search!Forgets, Phases, Heards, Listening
    <2> QED  BY <1>3, <1>11, <2>5
  <1> QED  BY <1>10, <1>11

LEMMA PutAnswerRefines ==
    ASSUME IndInv, NEW s \in Servers, PutAnswer(s)
    PROVE  \/ \E p \in Parties : Search!Lose(s, p)
           \/ UNCHANGED <<Phases, Listening, Heards, lost>>
  <1>1. /\ ServerGoes(s, "answer", "recv") /\ clnt' = [clnt EXCEPT ![s] = Nobody]
        /\ UNCHANGED <<failed, inbox>>
    BY DEF PutAnswer
  <1>2. /\ server[s] = "answer" /\ server'[s] = "recv" /\ client' = client
        /\ \A t \in Servers : t # s => server'[t] = server[t]
    BY <1>1, ServerMoves
  <1>3. PICK p \in Parties : p = clnt[s]
    BY <1>2 DEF IndInv, HandOK, TypeOK
  <1>4. /\ clnt'[s] = Nobody /\ \A t \in Servers : t # s => clnt'[t] = clnt[t]
        /\ Nobody \notin Parties
    BY <1>1, DiscoveryAssumption DEF IndInv, TypeOK
  <1>5. /\ mail \in [Parties -> Seq(Servers \cup {"unreach"})]
        /\ mail[p] \in Seq(Servers \cup {"unreach"})
        /\ \/ Waits(p) /\ mail' = [mail EXCEPT ![p] = @ \o <<s>>] /\ lost' = lost
           \/ Waits(p) /\ mail' = mail /\ lost' = lost \cup {<<s, p>>}
           \/ ~Waits(p) /\ mail' = mail /\ lost' = lost
    BY <1>3
       DEF PutAnswer, Arrives, IsLost, FindsNobody, Sent, IndInv, TypeOK
  <1>6. /\ \A q \in Parties : Phase(q)' = Phase(q) /\ Waits(q)' = Waits(q)
        /\ Listening' = Listening
    BY <1>1, <1>2 DEF Phase, Waits, Listening, Bound
  <1>7. \A q \in Parties : q # p => mail'[q] = mail[q]
    BY <1>5
  <1>8. \A t \in Servers, q \in Parties : q # p => (Holds(t, q)' <=> Holds(t, q))
    BY <1>1, <1>3, <1>4, <1>7 DEF Holds
  <1>9. CASE Waits(p) /\ mail' = [mail EXCEPT ![p] = @ \o <<s>>] /\ lost' = lost
    <2>1. mail[p] \o <<s>> = Append(mail[p], s) /\ s \in Servers \cup {"unreach"}
      BY <1>5, AppendIsConcat
    <2>2. Range(Append(mail[p], s)) = Range(mail[p]) \cup {s}
      BY <1>5, <2>1, AppendOnce
    <2>3. Range(mail'[p]) = Range(mail[p]) \cup {s}
      BY <1>5, <1>9, <2>1, <2>2
    <2>4. \A t \in Servers : Holds(t, p)' <=> Holds(t, p)
      BY <1>1, <1>3, <1>4, <2>3 DEF Holds
    <2>5. \A q \in Parties : Heard(q)' = Heard(q)
      BY <1>6, <1>8, <2>4, HeardIs, HeardIsThen
    <2> QED  BY <1>6, <1>9, <2>5, Stays
  <1>10. CASE ~Waits(p) /\ mail' = mail /\ lost' = lost
    <2>1. \A q \in Parties : Heard(q)' = Heard(q)
      BY <1>6, <1>8, <1>10, HeardIs, HeardIsThen
    <2> QED  BY <1>6, <1>10, <2>1, Stays
  <1>11. CASE Waits(p) /\ mail' = mail /\ lost' = lost \cup {<<s, p>>}
    <2>1. Holds(s, p) /\ p \notin Range(inbox[s]) /\ s \notin Range(mail[p])
      BY <1>3 DEF IndInv, QuestionsOK, OneQuestion, Holds
    <2>2. /\ ~Holds(s, p)'
          /\ \A t \in Servers : t # s => (Holds(t, p)' <=> Holds(t, p))
      BY <1>1, <1>4, <1>11, <2>1 DEF Holds
    <2>3. /\ s \in Heard(p) /\ Heard(p)' = Heard(p) \ {s}
          /\ \A q \in Parties : q # p => Heard(q)' = Heard(q)
      BY <1>6, <1>8, <1>11, <2>1, <2>2, HeardIs, HeardIsThen
    <2>4. Heards' = [Heards EXCEPT ![p] = @ \ {s}] /\ Heards[p] = Heard(p)
      BY <2>3 DEF Heards
    <2>5. Phases' = Phases
      BY <1>6 DEF Phases
    <2>6. s \in Listening
      BY <1>2 DEF Listening, Bound
    <2>7. Search!Lose(s, p)
      BY <1>6, <1>11, <2>3, <2>4, <2>5, <2>6
         DEF Search!Lose, Search!Forgets, Phases, Heards, Listening
    <2> QED  BY <2>7
  <1> QED  BY <1>5, <1>9, <1>10, <1>11

(* Whoever finds a server finds one that was listening when he asked, and  *)
(* a server listens only after its own search: the programs keep to the    *)
(* call sign, but for what has to happen in the end.                       *)
THEOREM KeepsToCallSign == Spec => Search!CallSafety
  <1>1. Init => Search!CallInit
    <2> SUFFICES ASSUME Init PROVE Search!CallInit
      OBVIOUS
    <2>1. \A p \in Parties : Phase(p) = "silent" /\ Heard(p) = {}
      BY DEF Init, Phase, Heard, Waits, Parties
    <2>2. {s \in Servers : Bound(s)} = {} /\ lost = {}
      BY DEF Init, Bound
    <2> QED  BY <2>1, <2>2 DEF Search!CallInit, Search!Parties, Parties
  <1>2. ASSUME IndInv, [Next]_vars
        PROVE  Search!CallNext \/ UNCHANGED <<Phases, Listening, Heards, lost>>
    <2>0. Search!Parties = Parties
      BY DEF Search!Parties, Parties
    <2>1. ASSUME NEW s \in Servers, Server(s)
          PROVE  Search!CallNext \/ UNCHANGED <<Phases, Listening, Heards, lost>>
      <3>1. s \in Search!Parties
        BY DEF Search!Parties
      <3> QED
        BY <1>2, <2>0, <2>1, <3>1, CheckRefines, CheckEndsRefines, BindRefines,
           GetRequestRefines, PutAnswerRefines
           DEF Server, Search!CallNext
    <2>2. ASSUME NEW s \in Servers, Fails(s) PROVE Search!CallNext
      <3>1. s \in Search!Parties
        BY DEF Search!Parties
      <3>2. CASE CheckThrows(s)
        BY <1>2, <3>1, <3>2, CheckEndsRefines DEF Search!CallNext
      <3>3. CASE BindThrows(s) \/ Throws(s) \/ Kill(s)
        <4>1. server[s] # "dead" /\ ServerEnds(s)
          BY <3>3 DEF BindThrows, Throws, Kill, Bound
        <4> QED  BY <1>2, <3>1, <4>1, ServerEndsRefines DEF Search!CallNext
      <3> QED  BY <2>2, <3>2, <3>3 DEF Fails
    <2>3. ASSUME NEW c \in Clients,
                 GetServer(c) \/ GetServerByName(c) \/ Receive(c) \/ ReceiveByName(c)
                     \/ Crash(c)
          PROVE  Search!CallNext
      <3>1. c \in Search!Parties
        BY DEF Search!Parties
      <3> QED
        BY <1>2, <2>3, <3>1, GetServerRefines, ClientEndsRefines DEF Search!CallNext
    <2>4. CASE UNCHANGED vars
      <3>1. /\ \A q \in Parties : Phase(q)' = Phase(q) /\ Heard(q)' = Heard(q)
            /\ Listening' = Listening /\ lost' = lost
        BY <2>4 DEF vars, Phase, Heard, Waits, Listening, Bound
      <3> QED  BY <3>1, Stays
    <2> QED  BY <1>2, <2>1, <2>2, <2>3, <2>4 DEF Next
  <1>3. IndInv /\ [Next]_vars => [Search!CallNext]_(Search!callVars)
    BY <1>2 DEF Search!callVars, Phases, Listening, Heards
  <1> QED  BY <1>1, <1>3, Inductive, PTL DEF Spec, Search!CallSafety

=============================================================================
