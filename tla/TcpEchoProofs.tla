---------------------------- MODULE TcpEchoProofs ----------------------------
(***************************************************************************)
(* lab2, for any number of clients: while both ends live a client that     *)
(* waits has its message on its way, the server switches itself off for    *)
(* one of three reasons, the programs implement the echo service, and      *)
(* nobody who is connected is forgotten.                                   *)
(***************************************************************************)
EXTENDS TcpEcho, FiniteSetTheorems, SequenceTheorems, TLAPS

Running == server \notin Over

Serving == server \in {"recv", "judge"}

ServerOK ==
    /\ server = "boot" => backlog = <<>>
    /\ Serving => cur \in Clients

Distinct == \A m, n \in DOMAIN backlog : backlog[m] = backlog[n] => m = n

(* Who has not been accepted has received nothing.                         *)
Untouched(c) == c # cur /\ c \notin split /\ down[c] = <<>>

WaitsOK(c) ==
    /\ c \in Range(backlog) => client[c] \in {"greet", "killed"} /\ Untouched(c)
    /\ client[c] = "idle" => Untouched(c) /\ up[c] = <<>> /\ c \notin Range(backlog)

(* What a client may have sent.                                            *)
SentOK(c) ==
    /\ client[c] \in Connected => ~Contains(up[c], "fin") /\ ~Contains(up[c], "rst")
    /\ client[c] \in {"idle", "greet", "refused"} => c \notin split
    /\ client[c] \in {"send", "await"} => left[c] > 0
    /\ c \notin split =>
          /\ Contains(up[c], "empty") => client[c] = "quit"
          /\ Contains(up[c], "z") => client[c] = "left"
          /\ client[c] = "dead" => ~Running
          /\ client[c] \in {"idle", "refused"} => up[c] = <<>>

Queued(c) == client[c] = "greet" /\ up[c] = <<>> /\ c \in Range(backlog)

(* Where the server is, and where the one message is, by the place of the  *)
(* client it serves.                                                       *)
Served(c) ==
    /\ c = cur
    /\ \/ /\ client[c] = "greet" /\ server = "recv"
          /\ up[c] = <<>> /\ down[c] = <<"welcome">>
       \/ /\ client[c] \in {"prompt", "send"} /\ server = "recv"
          /\ up[c] = <<>> /\ down[c] = <<>>
       \/ /\ client[c] = "await"
          /\ \/ server = "recv" /\ up[c] = <<"text">> /\ down[c] = <<>>
             \/ server = "judge" /\ buff = "text" /\ up[c] = <<>> /\ down[c] = <<>>
             \/ server = "recv" /\ up[c] = <<>> /\ down[c] = <<"echo">>

InTransit(c) == Contains(up[c], "text") \/ Contains(down[c], "echo") \/ InHand(c)

(* A client whose blocks have come whole is in the queue or is served; one *)
(* whose blocks have not waits for something at least.                     *)
ExchangeOK(c) ==
    Running /\ client[c] \in Connected =>
        IF c \in split THEN client[c] = "await" => InTransit(c)
                       ELSE Queued(c) \/ Served(c)

(* The client being served has said z, and the server has it or will.      *)
LeftOK(c) ==
    Serving /\ c = cur /\ client[c] = "left" /\ c \notin split =>
        /\ server = "recv" => up[c] \in {<<"z", "fin">>, <<"rst">>}
        /\ server = "judge" => buff = "z"

ClientOK(c) == WaitsOK(c) /\ SentOK(c) /\ ExchangeOK(c) /\ LeftOK(c)

(* No client but the one being served has been served before: as long as   *)
(* the buffer is as it was at first, and so an empty one is his.           *)
NotServed == {"idle", "greet", "killed", "refused"}

Fresh == \A c \in Clients \ {cur} : client[c] \in NotServed

EmptyOK ==
    buff = "empty" =>
        /\ server \in {"boot", "accept"} => cur = NoClient /\ Fresh
        /\ server = "recv" => Fresh
        /\ server = "judge" =>
              \/ client[cur] = "quit"
              \/ cur \in split
              \/ client[cur] = "killed" /\ Fresh

IndInv ==
    TypeOK /\ ServerOK /\ Distinct /\ EmptyOK /\ \A c \in Clients : ClientOK(c)

-----------------------------------------------------------------------------
(* Short sequences, and what is in a sequence.                             *)
LEMMA ShortSeqs ==
    ASSUME NEW S, NEW x \in S, NEW y \in S
    PROVE  /\ <<>> \in Seq(S) /\ <<x>> \in Seq(S) /\ <<x, y>> \in Seq(S)
           /\ Append(<<>>, x) = <<x>>
           /\ <<>> \o <<>> \o <<x>> = <<x>> /\ <<>> \o <<x>> \o <<y>> = <<x, y>>
           /\ <<x>> # <<>> /\ Head(<<x>>) = x /\ Tail(<<x>>) = <<>>
           /\ <<x, y>> # <<>> /\ Head(<<x, y>>) = x /\ Tail(<<x, y>>) = <<y>>
  <1>1. <<>> \in Seq(S) /\ <<x>> \in Seq(S) /\ <<y>> \in Seq(S) /\ <<x, y>> \in Seq(S)
    OBVIOUS
  <1>2. Append(<<>>, x) = <<x>>
    OBVIOUS
  <1>3. <<>> \o <<>> = <<>> /\ <<>> \o <<x>> = <<x>>
    BY <1>1, ConcatEmptySeq
  <1>4. <<x>> \o <<y>> = <<x, y>>
    <2>1. Append(<<x>>, y) = <<x>> \o <<y>>
      BY <1>1, AppendIsConcat
    <2>2. /\ Append(<<x>>, y) \in Seq(S) /\ Len(Append(<<x>>, y)) = 2 /\ Len(<<x, y>>) = 2
          /\ Append(<<x>>, y)[1] = x /\ Append(<<x>>, y)[2] = y
      BY <1>1, AppendProperties
    <2>3. Append(<<x>>, y) = <<x, y>>
      <3>1. \A n \in 1..2 : Append(<<x>>, y)[n] = <<x, y>>[n]
        BY <2>2
      <3> QED  BY <1>1, <2>2, <3>1, SeqEqual
    <2> QED  BY <2>1, <2>3
  <1>5. /\ <<x>> # <<>> /\ Head(<<x>>) = x /\ Tail(<<x>>) = <<>>
        /\ <<x, y>> # <<>> /\ Head(<<x, y>>) = x /\ Tail(<<x, y>>) = <<y>>
    OBVIOUS
  <1> QED  BY <1>1, <1>2, <1>3, <1>4, <1>5

LEMMA ContainsShort ==
    /\ \A e : ~Contains(<<>>, e)
    /\ \A x, e : Contains(<<x>>, e) <=> e = x
    /\ \A x, y, e : Contains(<<x, y>>, e) <=> e = x \/ e = y
  <1>1. ASSUME NEW x, NEW y PROVE 1..Len(<<x, y>>) = {1, 2}
    OBVIOUS
  <1> QED  BY <1>1 DEF Contains

LEMMA ContainsConcat ==
    ASSUME NEW S, NEW s \in Seq(S), NEW t \in Seq(S)
    PROVE  /\ s \o t \in Seq(S)
           /\ \A e : Contains(s \o t, e) <=> Contains(s, e) \/ Contains(t, e)
  <1>1. /\ s \o t \in Seq(S) /\ Len(s) \in Nat /\ Len(t) \in Nat
        /\ Len(s \o t) = Len(s) + Len(t)
        /\ \A n \in 1..(Len(s) + Len(t)) :
              (s \o t)[n] = IF n <= Len(s) THEN s[n] ELSE t[n - Len(s)]
    BY ConcatProperties, LenProperties
  <1>2. ASSUME NEW e, Contains(s \o t, e) PROVE Contains(s, e) \/ Contains(t, e)
    <2>1. PICK n \in 1..(Len(s) + Len(t)) : (s \o t)[n] = e
      BY <1>1, <1>2 DEF Contains
    <2>2. CASE n <= Len(s)
      BY <1>1, <2>1, <2>2 DEF Contains
    <2>3. CASE ~(n <= Len(s))
      <3>1. n - Len(s) \in 1..Len(t) /\ t[n - Len(s)] = e
        BY <1>1, <2>1, <2>3
      <3> QED  BY <3>1 DEF Contains
    <2> QED  BY <2>2, <2>3
  <1>3. ASSUME NEW e, Contains(s, e) PROVE Contains(s \o t, e)
    <2>1. PICK n \in 1..Len(s) : s[n] = e
      BY <1>3 DEF Contains
    <2>2. n \in 1..Len(s \o t) /\ (s \o t)[n] = e
      BY <1>1, <2>1
    <2> QED  BY <2>2 DEF Contains
  <1>4. ASSUME NEW e, Contains(t, e) PROVE Contains(s \o t, e)
    <2>1. PICK n \in 1..Len(t) : t[n] = e
      BY <1>4 DEF Contains
    <2>2. /\ Len(s) + n \in 1..Len(s \o t) /\ ~(Len(s) + n <= Len(s))
          /\ Len(s) + n - Len(s) = n
      BY <1>1, <2>1
    <2>3. (s \o t)[Len(s) + n] = e
      BY <1>1, <2>1, <2>2
    <2> QED  BY <2>2, <2>3 DEF Contains
  <1> QED  BY <1>1, <1>2, <1>3, <1>4

LEMMA ContainsAppend ==
    ASSUME NEW S, NEW s \in Seq(S), NEW x \in S
    PROVE  /\ Append(s, x) \in Seq(S)
           /\ \A e : Contains(Append(s, x), e) <=> Contains(s, e) \/ e = x
  <1>1. Append(s, x) = s \o <<x>> /\ <<x>> \in Seq(S)
    BY AppendIsConcat, ShortSeqs
  <1>2. /\ s \o <<x>> \in Seq(S)
        /\ \A e : Contains(s \o <<x>>, e) <=> Contains(s, e) \/ Contains(<<x>>, e)
    BY <1>1, ContainsConcat
  <1>3. \A e : Contains(<<x>>, e) <=> e = x
    BY ContainsShort
  <1>4. \A e : Contains(s \o <<x>>, e) <=> Contains(s, e) \/ e = x
    BY <1>2, <1>3
  <1> QED  BY <1>1, <1>2, <1>4

LEMMA ContainsTail ==
    ASSUME NEW S, NEW s \in Seq(S), s # <<>>
    PROVE  /\ Head(s) \in S /\ Tail(s) \in Seq(S) /\ Contains(s, Head(s))
           /\ \A e : Contains(Tail(s), e) => Contains(s, e)
           /\ \A e : Contains(s, e) => e = Head(s) \/ Contains(Tail(s), e)
  <1>1. /\ Head(s) \in S /\ Tail(s) \in Seq(S) /\ Len(s) \in Nat \ {0}
        /\ Len(Tail(s)) = Len(s) - 1 /\ Head(s) = s[1]
        /\ \A n \in 1..Len(Tail(s)) : Tail(s)[n] = s[n + 1]
    BY HeadTailProperties, EmptySeq
  <1>2. Contains(s, Head(s))
    BY <1>1 DEF Contains
  <1>3. ASSUME NEW e, Contains(Tail(s), e) PROVE Contains(s, e)
    <2>1. PICK n \in 1..Len(Tail(s)) : Tail(s)[n] = e
      BY <1>3 DEF Contains
    <2>2. n + 1 \in 1..Len(s) /\ s[n + 1] = e
      BY <1>1, <2>1
    <2> QED  BY <2>2 DEF Contains
  <1>4. ASSUME NEW e, Contains(s, e), e # Head(s) PROVE Contains(Tail(s), e)
    <2>1. PICK n \in 1..Len(s) : s[n] = e
      BY <1>4 DEF Contains
    <2>2. n - 1 \in 1..Len(Tail(s)) /\ (n - 1) + 1 = n
      BY <1>1, <1>4, <2>1
    <2>3. Tail(s)[n - 1] = e
      BY <1>1, <2>1, <2>2
    <2> QED  BY <2>2, <2>3 DEF Contains
  <1> QED  BY <1>1, <1>2, <1>3, <1>4

LEMMA RangeContains ==
    ASSUME NEW S, NEW s \in Seq(S)
    PROVE  \A e : e \in Range(s) <=> Contains(s, e)
  BY LenProperties DEF Range, Contains

(* The queue when a client has come, or has been accepted.                 *)
LEMMA QueueAppend ==
    ASSUME NEW c \in Clients, TypeOK, Distinct, c \notin Range(backlog)
    PROVE  /\ Append(backlog, c) \in Seq(Clients)
           /\ \A d : d \in Range(Append(backlog, c)) <=> d \in Range(backlog) \/ d = c
           /\ \A m, n \in DOMAIN Append(backlog, c) :
                 Append(backlog, c)[m] = Append(backlog, c)[n] => m = n
  <1>1. backlog \in Seq(Clients)
    BY DEF TypeOK
  <1>2. /\ Append(backlog, c) \in Seq(Clients)
        /\ \A d : d \in Range(Append(backlog, c)) <=> d \in Range(backlog) \/ d = c
    <2>1. /\ Append(backlog, c) \in Seq(Clients)
          /\ \A d : Contains(Append(backlog, c), d) <=> Contains(backlog, d) \/ d = c
      BY <1>1, ContainsAppend
    <2>2. \A d : d \in Range(backlog) <=> Contains(backlog, d)
      BY <1>1, RangeContains
    <2>3. \A d : d \in Range(Append(backlog, c)) <=> Contains(Append(backlog, c), d)
      BY <2>1, RangeContains
    <2> QED  BY <2>1, <2>2, <2>3
  <1>3. /\ DOMAIN backlog = 1..Len(backlog) /\ Len(backlog) \in Nat
        /\ DOMAIN Append(backlog, c) = 1..(Len(backlog) + 1)
        /\ \A n \in 1..Len(backlog) : Append(backlog, c)[n] = backlog[n]
        /\ Append(backlog, c)[Len(backlog) + 1] = c
    BY <1>1, <1>2, AppendProperties, LenProperties
  <1>4. \A n \in 1..Len(backlog) : backlog[n] # c
    BY <1>3 DEF Range
  <1>5. \A n \in 1..(Len(backlog) + 1) : n \in 1..Len(backlog) \/ n = Len(backlog) + 1
    BY <1>3
  <1>6. ASSUME NEW m \in 1..(Len(backlog) + 1), NEW n \in 1..(Len(backlog) + 1),
               Append(backlog, c)[m] = Append(backlog, c)[n]
        PROVE  m = n
    BY <1>3, <1>4, <1>5, <1>6 DEF Distinct
  <1> QED  BY <1>2, <1>3, <1>6

LEMMA QueueTail ==
    ASSUME TypeOK, Distinct, backlog # <<>>
    PROVE  /\ Head(backlog) \in Clients /\ Tail(backlog) \in Seq(Clients)
           /\ Head(backlog) \in Range(backlog)
           /\ \A d : d \in Range(Tail(backlog)) <=> d \in Range(backlog) /\ d # Head(backlog)
           /\ \A m, n \in DOMAIN Tail(backlog) :
                 Tail(backlog)[m] = Tail(backlog)[n] => m = n
  <1>1. backlog \in Seq(Clients)
    BY DEF TypeOK
  <1>2. /\ Head(backlog) \in Clients /\ Tail(backlog) \in Seq(Clients)
        /\ Head(backlog) \in Range(backlog)
        /\ \A d : d \in Range(Tail(backlog)) => d \in Range(backlog)
        /\ \A d : d \in Range(backlog) => d = Head(backlog) \/ d \in Range(Tail(backlog))
    BY <1>1, ContainsTail, RangeContains
  <1>3. /\ DOMAIN backlog = 1..Len(backlog) /\ Len(backlog) \in Nat \ {0}
        /\ Head(backlog) = backlog[1]
        /\ DOMAIN Tail(backlog) = 1..(Len(backlog) - 1)
        /\ \A n \in 1..(Len(backlog) - 1) : Tail(backlog)[n] = backlog[n + 1]
    BY <1>1, <1>2, HeadTailProperties, LenProperties, EmptySeq
  <1>4. \A n \in 1..(Len(backlog) - 1) : n + 1 \in 1..Len(backlog) /\ n + 1 # 1
    BY <1>3
  <1>5. ASSUME NEW m \in 1..(Len(backlog) - 1), NEW n \in 1..(Len(backlog) - 1),
               Tail(backlog)[m] = Tail(backlog)[n]
        PROVE  m = n
    <2>1. m + 1 = n + 1
      BY <1>3, <1>4, <1>5 DEF Distinct
    <2> QED  BY <2>1
  <1>6. Head(backlog) \notin Range(Tail(backlog))
    <2>1. \A n \in 1..(Len(backlog) - 1) : Tail(backlog)[n] # backlog[1]
      BY <1>3, <1>4 DEF Distinct
    <2> QED  BY <1>3, <2>1 DEF Range
  <1> QED  BY <1>2, <1>3, <1>5, <1>6

-----------------------------------------------------------------------------
(* A client of whom nothing changes is as it was.                          *)
LEMMA ClientStays ==
    ASSUME NEW d \in Clients, ClientOK(d), UNCHANGED <<server, cur, buff>>,
           client'[d] = client[d], left'[d] = left[d],
           up'[d] = up[d], down'[d] = down[d], d \in split' <=> d \in split,
           d \in Range(backlog') <=> d \in Range(backlog)
    PROVE  ClientOK(d)'
  BY DEF ClientOK, WaitsOK, Untouched, SentOK, ExchangeOK, LeftOK, Queued, Served,
         InTransit, InHand, Running, Serving, Over, Connected

(* So is a client who is served neither before a step of the server nor    *)
(* after it.                                                               *)
LEMMA OtherStays ==
    ASSUME NEW d \in Clients, ClientOK(d), d # cur, d # cur', Running, Running',
           client'[d] = client[d], left'[d] = left[d],
           up'[d] = up[d], down'[d] = down[d], d \in split' <=> d \in split,
           d \in Range(backlog') <=> d \in Range(backlog)
    PROVE  ClientOK(d)'
  BY DEF ClientOK, WaitsOK, Untouched, SentOK, ExchangeOK, LeftOK, Queued, Served,
         InTransit, InHand, Running, Serving, Over, Connected

LEMMA InitIndInv == Init => IndInv
  <1> SUFFICES ASSUME Init PROVE IndInv
    OBVIOUS
  <1>1. <<>> \in Seq(Clients) /\ Range(<<>>) = {} /\ DOMAIN <<>> = {}
    BY DEF Range
  <1>2. TypeOK
    BY TcpAssumption DEF Init, TypeOK, Over, Message
  <1>3. ServerOK /\ Distinct /\ EmptyOK
    BY <1>1 DEF Init, ServerOK, Distinct, EmptyOK, Serving, Fresh, NotServed
  <1>4. ASSUME NEW c \in Clients PROVE ClientOK(c)
    <2>1. \A e : ~Contains(<<>>, e)
      BY ContainsShort
    <2> QED
      BY <1>1, <2>1, TcpAssumption
      DEF Init, ClientOK, WaitsOK, Untouched, SentOK, ExchangeOK, LeftOK, Serving,
          Running, Over, Connected
  <1> QED  BY <1>2, <1>3, <1>4 DEF IndInv

-----------------------------------------------------------------------------
(* The end of the server.                                                  *)
LEMMA ServerEndsStep ==
    ASSUME NEW how \in Over, IndInv, ServerEnds(how)
    PROVE  IndInv'
  <1>1. PICK end \in [Clients -> {"fin", "rst"}] :
           down' = [c \in Clients |->
                      IF c = cur \/ c \in Range(backlog)
                        THEN Append(down[c], end[c]) ELSE down[c]]
    BY DEF ServerEnds
  <1>2. /\ server' = how /\ backlog' = <<>>
        /\ UNCHANGED <<client, left, cur, buff, up, split>>
    BY DEF ServerEnds, ServerGoes
  <1>3. <<>> \in Seq(Clients) /\ Range(<<>>) = {} /\ DOMAIN <<>> = {}
    BY DEF Range
  <1>4. TypeOK'
    <2>1. ASSUME NEW c \in Clients
          PROVE  down'[c] \in Seq({"welcome", "echo", "fin", "rst"})
      <3>1. /\ down[c] \in Seq({"welcome", "echo", "fin", "rst"})
            /\ end[c] \in {"welcome", "echo", "fin", "rst"}
        BY DEF IndInv, TypeOK
      <3>2. Append(down[c], end[c]) \in Seq({"welcome", "echo", "fin", "rst"})
        BY <3>1, ContainsAppend
      <3> QED  BY <1>1, <3>1, <3>2
    <2>2. down' \in [Clients -> Seq({"welcome", "echo", "fin", "rst"})]
      BY <1>1, <2>1
    <2> QED  BY <1>2, <1>3, <2>2 DEF IndInv, TypeOK
  <1>5. ServerOK' /\ Distinct' /\ EmptyOK'
    BY <1>2, <1>3 DEF ServerOK, Distinct, EmptyOK, Serving, Over
  <1>6. ASSUME NEW c \in Clients PROVE ClientOK(c)'
    <2>1. ClientOK(c)
      BY DEF IndInv
    <2>2. client[c] = "idle" => down'[c] = down[c]
      BY <1>1, <2>1 DEF ClientOK, WaitsOK, Untouched
    <2> QED
      BY <1>2, <1>3, <2>1, <2>2
      DEF ClientOK, WaitsOK, Untouched, SentOK, ExchangeOK, LeftOK, Serving,
          Running, Over, Connected
  <1> QED  BY <1>4, <1>5, <1>6 DEF IndInv

LEMMA BootStep == IndInv /\ Boot => IndInv'
  <1> SUFFICES ASSUME IndInv, Boot PROVE IndInv'
    OBVIOUS
  <1>1. /\ server = "boot" /\ server' = "accept"
        /\ UNCHANGED <<client, left, backlog, cur, buff, up, down, split>>
    BY DEF Boot, ServerGoes
  <1>2. TypeOK' /\ ServerOK' /\ Distinct' /\ EmptyOK'
    BY <1>1 DEF IndInv, TypeOK, ServerOK, Distinct, EmptyOK, Serving, Fresh
  <1>3. ASSUME NEW c \in Clients PROVE ClientOK(c)'
    <2>1. ClientOK(c)
      BY DEF IndInv
    <2> QED
      BY <1>1, <2>1
      DEF ClientOK, WaitsOK, Untouched, SentOK, ExchangeOK, LeftOK, Queued, Served,
          InTransit, InHand, Running, Serving, Over, Connected
  <1> QED  BY <1>2, <1>3 DEF IndInv

-----------------------------------------------------------------------------
(* While the server serves a client it changes nothing for the others.     *)
LEMMA ServerMoves ==
    ASSUME IndInv, Serving, server' \in {"accept", "recv", "judge"},
           UNCHANGED <<client, left, backlog, cur>>,
           TypeOK', EmptyOK', ClientOK(cur)',
           \A d \in Clients \ {cur} :
              up'[d] = up[d] /\ down'[d] = down[d] /\ (d \in split' <=> d \in split)
    PROVE  IndInv'
  <1>1. Running /\ Running' /\ server' # "boot"
    BY DEF Running, Over, Serving
  <1>2. ServerOK' /\ Distinct'
    BY <1>1 DEF IndInv, ServerOK, Distinct, Serving
  <1>3. ASSUME NEW d \in Clients PROVE ClientOK(d)'
    <2>1. CASE d = cur
      BY <2>1
    <2>2. CASE d # cur
      <3>1. /\ ClientOK(d) /\ d # cur' /\ up'[d] = up[d] /\ down'[d] = down[d]
            /\ client'[d] = client[d] /\ left'[d] = left[d]
        BY <2>2 DEF IndInv
      <3>2. d \in split' <=> d \in split
        BY <2>2
      <3>3. d \in Range(backlog') <=> d \in Range(backlog)
        OBVIOUS
      <3> QED  BY <1>1, <2>2, <3>1, <3>2, <3>3, OtherStays
    <2> QED  BY <2>1, <2>2
  <1> QED  BY <1>2, <1>3 DEF IndInv

(* Whoever is served has been in the queue and no longer is.               *)
LEMMA ServedIs ==
    ASSUME IndInv, Serving
    PROVE  /\ cur \in Clients /\ ClientOK(cur) /\ Running
           /\ cur \notin Range(backlog) /\ client[cur] # "idle"
           /\ client[cur] \in Connected /\ cur \notin split => Served(cur)
  <1>1. cur \in Clients /\ ClientOK(cur) /\ Running
    BY DEF IndInv, ServerOK, Running, Serving, Over
  <1>2. cur \notin Range(backlog) /\ client[cur] # "idle"
    BY <1>1 DEF ClientOK, WaitsOK, Untouched
  <1> QED  BY <1>1, <1>2 DEF ClientOK, ExchangeOK, Queued

LEMMA RecvStep == IndInv /\ Recv => IndInv'
  <1> SUFFICES ASSUME IndInv, Recv PROVE IndInv'
    OBVIOUS
  <1> DEFINE E == Message \cup {"fin", "rst"}
  <1>1. /\ server = "recv" /\ server' = "judge" /\ Serving
        /\ up[cur] # <<>> /\ Head(up[cur]) \in Message /\ buff' = Head(up[cur])
        /\ UNCHANGED <<client, left, backlog, cur, down>>
    BY DEF Recv, ServerGoes, Arrived, Serving
  <1>2. /\ cur \in Clients /\ ClientOK(cur) /\ Running
        /\ cur \notin Range(backlog) /\ client[cur] # "idle"
        /\ client[cur] \in Connected /\ cur \notin split => Served(cur)
    BY <1>1, ServedIs
  <1>3. up \in [Clients -> Seq(E)] /\ up[cur] \in Seq(E)
    BY <1>2 DEF IndInv, TypeOK
  <1>4. /\ Tail(up[cur]) \in Seq(E) /\ Contains(up[cur], Head(up[cur]))
        /\ \A e : Contains(Tail(up[cur]), e) => Contains(up[cur], e)
        /\ \A e : Contains(up[cur], e) => e = Head(up[cur]) \/ Contains(Tail(up[cur]), e)
    BY <1>1, <1>3, ContainsTail
  <1>5. CASE up' = [up EXCEPT ![cur] = Taken] /\ UNCHANGED split
    <2>1. up'[cur] = Tail(up[cur])
      BY <1>2, <1>3, <1>5 DEF Taken
    <2>2. TypeOK'
      BY <1>1, <1>2, <1>3, <1>4, <1>5 DEF IndInv, TypeOK, Taken
    <2>3. EmptyOK'
      BY <1>1, <1>2, <1>4, <1>5 DEF EmptyOK, ClientOK, SentOK
    <2>4. ClientOK(cur)'
      <3>1. WaitsOK(cur)'
        BY <1>1, <1>2 DEF WaitsOK
      <3>2. SentOK(cur)'
        <4>1. SentOK(cur)
          BY <1>2 DEF ClientOK
        <4>2. up[cur] = <<>> => FALSE
          BY <1>1
        <4> QED  BY <1>1, <1>2, <1>4, <1>5, <2>1, <4>1, <4>2
                 DEF SentOK, Running, Over
      <3>3. ExchangeOK(cur)'
        <4>1. ASSUME client[cur] = "await", cur \in split
              PROVE  InTransit(cur)'
          <5>1. Contains(up[cur], "text") \/ Contains(down[cur], "echo")
            BY <1>1, <1>2, <4>1 DEF ClientOK, ExchangeOK, InTransit, InHand, Connected
          <5> QED  BY <1>1, <1>4, <2>1, <5>1 DEF InTransit, InHand
        <4>2. ASSUME client[cur] \in Connected, cur \notin split PROVE Served(cur)'
          <5>1. /\ client[cur] = "await" /\ up[cur] = <<"text">> /\ down[cur] = <<>>
            BY <1>1, <1>2, <4>2 DEF Served
          <5>2. Head(<<"text">>) = "text" /\ Tail(<<"text">>) = <<>>
            BY ShortSeqs
          <5> QED  BY <1>1, <2>1, <5>1, <5>2 DEF Served
        <4> QED  BY <1>1, <1>5, <4>1, <4>2 DEF ExchangeOK
      <3>4. LeftOK(cur)'
        <4>1. ASSUME client[cur] = "left", cur \notin split PROVE buff' = "z"
          <5>1. up[cur] \in {<<"z", "fin">>, <<"rst">>}
            BY <1>1, <1>2, <4>1 DEF ClientOK, LeftOK
          <5>2. Head(<<"z", "fin">>) = "z" /\ Head(<<"rst">>) = "rst"
            BY ShortSeqs
          <5> QED  BY <1>1, <5>1, <5>2 DEF Message
        <4> QED  BY <1>1, <1>5, <4>1 DEF LeftOK
      <3> QED  BY <3>1, <3>2, <3>3, <3>4 DEF ClientOK
    <2>5. \A d \in Clients \ {cur} :
             up'[d] = up[d] /\ down'[d] = down[d] /\ (d \in split' <=> d \in split)
      BY <1>1, <1>3, <1>5
    <2> QED  BY <1>1, <2>2, <2>3, <2>4, <2>5, ServerMoves
  <1>6. CASE /\ buff' = "text" /\ MayComeInParts(cur)
             /\ \E rest \in Message : up' = [up EXCEPT ![cur] = <<rest>> \o Tail(@)]
    <2>1. PICK rest \in Message : up' = [up EXCEPT ![cur] = <<rest>> \o Tail(@)]
      BY <1>6
    <2>2. cur \notin split /\ split' = split \cup {cur}
      BY <1>6 DEF MayComeInParts
    <2>3. /\ up'[cur] = <<rest>> \o Tail(up[cur]) /\ up'[cur] \in Seq(E)
          /\ \A e : Contains(up'[cur], e) => e = rest \/ Contains(Tail(up[cur]), e)
      <3>1. <<rest>> \in Seq(E) /\ \A e : Contains(<<rest>>, e) => e = rest
        BY ContainsShort
      <3>2. up'[cur] = <<rest>> \o Tail(up[cur])
        BY <1>2, <1>3, <2>1
      <3>3. /\ <<rest>> \o Tail(up[cur]) \in Seq(E)
            /\ \A e : Contains(<<rest>> \o Tail(up[cur]), e)
                       <=> Contains(<<rest>>, e) \/ Contains(Tail(up[cur]), e)
        BY <1>4, <3>1, ContainsConcat
      <3> QED  BY <3>1, <3>2, <3>3
    <2>4. TypeOK'
      <3>1. up' \in [Clients -> Seq(E)]
        BY <1>2, <1>3, <2>1, <2>3
      <3> QED  BY <1>1, <1>2, <2>2, <3>1 DEF IndInv, TypeOK
    <2>5. EmptyOK'
      BY <1>6 DEF EmptyOK
    <2>6. ClientOK(cur)'
      <3>1. WaitsOK(cur)' /\ LeftOK(cur)'
        BY <1>1, <1>2, <2>2 DEF WaitsOK, LeftOK
      <3>2. SentOK(cur)'
        <4>1. SentOK(cur)
          BY <1>2 DEF ClientOK
        <4>2. client[cur] \notin {"idle", "greet", "refused"}
          BY <1>1, <1>2, <2>2, <4>1 DEF SentOK, Served, Connected
        <4>3. rest # "fin" /\ rest # "rst"
          BY DEF Message
        <4> QED  BY <1>1, <1>2, <1>4, <2>2, <2>3, <4>1, <4>2, <4>3 DEF SentOK
      <3>3. ExchangeOK(cur)'
        BY <1>1, <1>2, <1>6, <2>2 DEF ExchangeOK, InTransit, InHand
      <3> QED  BY <3>1, <3>2, <3>3 DEF ClientOK
    <2>7. \A d \in Clients \ {cur} :
             up'[d] = up[d] /\ down'[d] = down[d] /\ (d \in split' <=> d \in split)
      BY <1>1, <1>3, <2>1, <2>2
    <2> QED  BY <1>1, <2>4, <2>5, <2>6, <2>7, ServerMoves
  <1> QED  BY <1>5, <1>6 DEF Recv

LEMMA RecvEndOfStreamStep == IndInv /\ RecvEndOfStream => IndInv'
  <1> SUFFICES ASSUME IndInv, RecvEndOfStream PROVE IndInv'
    OBVIOUS
  <1>1. /\ server = "recv" /\ server' = "judge" /\ Serving
        /\ up[cur] # <<>> /\ Head(up[cur]) = "fin"
        /\ UNCHANGED <<client, left, backlog, cur, buff, up, down, split>>
    BY DEF RecvEndOfStream, ServerGoes, Arrived, Serving
  <1>2. /\ cur \in Clients /\ ClientOK(cur) /\ Running
        /\ cur \notin Range(backlog) /\ client[cur] # "idle"
    BY <1>1, ServedIs
  <1>3. Contains(up[cur], "fin")
    BY <1>1, <1>2, ContainsTail DEF IndInv, TypeOK
  <1>4. client[cur] \notin Connected
    BY <1>2, <1>3 DEF ClientOK, SentOK
  <1>5. ASSUME cur \notin split PROVE client[cur] \in {"quit", "killed"}
    <2>1. client[cur] # "left"
      <3>1. Head(<<"z", "fin">>) = "z" /\ Head(<<"rst">>) = "rst"
        BY ShortSeqs
      <3> QED  BY <1>1, <1>2, <1>5, <3>1 DEF ClientOK, LeftOK
    <2>2. client[cur] \notin {"dead", "refused"}
      BY <1>1, <1>2, <1>5 DEF ClientOK, SentOK
    <2> QED  BY <1>2, <1>4, <2>1, <2>2 DEF IndInv, TypeOK
  <1>6. TypeOK' /\ EmptyOK'
    BY <1>1, <1>5 DEF IndInv, TypeOK, EmptyOK, Fresh
  <1>7. ClientOK(cur)'
    <2>1. WaitsOK(cur)' /\ SentOK(cur)'
      BY <1>1, <1>2 DEF ClientOK, WaitsOK, SentOK, Untouched, Running, Over
    <2>2. ExchangeOK(cur)' /\ LeftOK(cur)'
      BY <1>1, <1>4, <1>5 DEF ExchangeOK, LeftOK
    <2> QED  BY <2>1, <2>2 DEF ClientOK
  <1> QED  BY <1>1, <1>6, <1>7, ServerMoves

LEMMA NextClientStep == IndInv /\ NextClient => IndInv'
  <1> SUFFICES ASSUME IndInv, NextClient PROVE IndInv'
    OBVIOUS
  <1> DEFINE E == {"welcome", "echo", "fin", "rst"}
  <1>0. PICK end \in {"fin", "rst"} : down' = [down EXCEPT ![cur] = Append(@, end)]
    BY DEF NextClient
  <1>1. /\ server = "judge" /\ server' = "accept" /\ Serving /\ buff = "z"
        /\ UNCHANGED <<client, left, backlog, cur, buff, up, split>>
    BY DEF NextClient, ServerGoes, OtherClient, Serving
  <1>2. /\ cur \in Clients /\ ClientOK(cur) /\ Running
        /\ cur \notin Range(backlog) /\ client[cur] # "idle"
        /\ client[cur] \in Connected /\ cur \notin split => Served(cur)
    BY <1>1, ServedIs
  <1>3. down \in [Clients -> Seq(E)] /\ down[cur] \in Seq(E) /\ end \in E
    BY <1>2 DEF IndInv, TypeOK
  <1>4. /\ down'[cur] = Append(down[cur], end) /\ down'[cur] \in Seq(E)
        /\ \A e : Contains(down[cur], e) => Contains(down'[cur], e)
    <2>1. down'[cur] = Append(down[cur], end)
      BY <1>0, <1>2, <1>3
    <2>2. /\ Append(down[cur], end) \in Seq(E)
          /\ \A e : Contains(Append(down[cur], end), e) <=>
                       Contains(down[cur], e) \/ e = end
      BY <1>3, ContainsAppend
    <2> QED  BY <2>1, <2>2
  <1>5. TypeOK' /\ EmptyOK'
    <2>1. down' \in [Clients -> Seq(E)]
      BY <1>0, <1>2, <1>3, <1>4
    <2> QED  BY <1>1, <2>1 DEF IndInv, TypeOK, EmptyOK
  <1>6. ClientOK(cur)'
    <2>1. WaitsOK(cur)' /\ SentOK(cur)' /\ LeftOK(cur)'
      BY <1>1, <1>2 DEF ClientOK, WaitsOK, SentOK, LeftOK, Serving, Running, Over
    <2>2. ExchangeOK(cur)'
      BY <1>1, <1>2, <1>4 DEF ClientOK, ExchangeOK, InTransit, InHand, Served
    <2> QED  BY <2>1, <2>2 DEF ClientOK
  <1>7. \A d \in Clients \ {cur} :
           up'[d] = up[d] /\ down'[d] = down[d] /\ (d \in split' <=> d \in split)
    BY <1>0, <1>1, <1>3
  <1> QED  BY <1>1, <1>5, <1>6, <1>7, ServerMoves

LEMMA EchoStep == IndInv /\ Echo => IndInv'
  <1> SUFFICES ASSUME IndInv, Echo PROVE IndInv'
    OBVIOUS
  <1> DEFINE E == {"welcome", "echo", "fin", "rst"}
  <1>1. /\ server = "judge" /\ server' = "recv" /\ Serving /\ buff = "text"
        /\ UNCHANGED <<client, left, backlog, cur, buff, split>>
    BY DEF Echo, ServerGoes, Serving
  <1>2. /\ cur \in Clients /\ ClientOK(cur) /\ Running
        /\ cur \notin Range(backlog) /\ client[cur] # "idle"
        /\ client[cur] \in Connected /\ cur \notin split => Served(cur)
    BY <1>1, ServedIs
  <1>3. /\ down \in [Clients -> Seq(E)] /\ down[cur] \in Seq(E)
        /\ up \in [Clients -> Seq(Message \cup {"fin", "rst"})]
    BY <1>2 DEF IndInv, TypeOK
  <1>4. SentOK(cur) /\ (client[cur] = "left" => cur \in split)
    BY <1>1, <1>2 DEF ClientOK, LeftOK
  <1>5. EmptyOK'
    BY <1>1 DEF EmptyOK
  <1>6. WaitsOK(cur)' /\ LeftOK(cur)'
    BY <1>1, <1>2, <1>4 DEF WaitsOK, LeftOK
  <1>7. CASE Contains(up[cur], "fin") /\ up' = [up EXCEPT ![cur] = <<"rst">>] /\ UNCHANGED down
    <2>1. up'[cur] = <<"rst">> /\ up' \in [Clients -> Seq(Message \cup {"fin", "rst"})]
      BY <1>2, <1>3, <1>7
    <2>2. TypeOK'
      BY <1>1, <1>7, <2>1 DEF IndInv, TypeOK
    <2>3. \A e : Contains(<<"rst">>, e) <=> e = "rst"
      BY ContainsShort
    <2>4. client[cur] \notin Connected
      BY <1>4, <1>7 DEF SentOK
    <2>5. up[cur] # <<>>
      BY <1>7, ContainsShort
    <2>6. SentOK(cur)' /\ ExchangeOK(cur)'
      BY <1>1, <1>2, <1>4, <2>1, <2>3, <2>4, <2>5 DEF SentOK, ExchangeOK, Running, Over, Connected
    <2>7. \A d \in Clients \ {cur} :
             up'[d] = up[d] /\ down'[d] = down[d] /\ (d \in split' <=> d \in split)
      BY <1>1, <1>3, <1>7
    <2>8. ClientOK(cur)'
      BY <1>1, <1>6, <2>6 DEF ClientOK
    <2> QED  BY <1>1, <1>5, <2>2, <2>7, <2>8, ServerMoves
  <1>8. CASE down' = [down EXCEPT ![cur] = @ \o Echoed] /\ UNCHANGED up
    <2>1. /\ down'[cur] = down[cur] \o <<"echo">> /\ down'[cur] \in Seq(E)
          /\ Contains(down'[cur], "echo")
      <3>1. down'[cur] = down[cur] \o <<"echo">> /\ <<"echo">> \in Seq(E)
        BY <1>2, <1>3, <1>8 DEF Echoed
      <3>2. Contains(<<"echo">>, "echo")
        BY ContainsShort
      <3>3. /\ down[cur] \o <<"echo">> \in Seq(E)
            /\ \A e : Contains(down[cur] \o <<"echo">>, e)
                       <=> Contains(down[cur], e) \/ Contains(<<"echo">>, e)
        BY <1>3, <3>1, ContainsConcat
      <3> QED  BY <3>1, <3>2, <3>3
    <2>2. TypeOK'
      <3>1. down' \in [Clients -> Seq(E)]
        BY <1>2, <1>3, <1>8, <2>1 DEF Echoed
      <3> QED  BY <1>1, <1>8, <3>1 DEF IndInv, TypeOK
    <2>3. SentOK(cur)'
      BY <1>1, <1>2, <1>4, <1>8 DEF SentOK, Running, Over
    <2>4. ExchangeOK(cur)'
      <3>1. ASSUME client[cur] \in Connected, cur \notin split PROVE Served(cur)'
        <4>1. client[cur] = "await" /\ up[cur] = <<>> /\ down[cur] = <<>>
          BY <1>1, <1>2, <3>1 DEF Served
        <4>2. <<>> \o <<"echo">> = <<"echo">>
          BY ConcatEmptySeq, ShortSeqs
        <4> QED  BY <1>1, <1>8, <2>1, <4>1, <4>2 DEF Served
      <3> QED  BY <1>1, <2>1, <3>1 DEF ExchangeOK, InTransit
    <2>5. \A d \in Clients \ {cur} :
             up'[d] = up[d] /\ down'[d] = down[d] /\ (d \in split' <=> d \in split)
      BY <1>1, <1>3, <1>8
    <2>6. ClientOK(cur)'
      BY <1>1, <1>6, <2>3, <2>4 DEF ClientOK
    <2> QED  BY <1>1, <1>5, <2>2, <2>5, <2>6, ServerMoves
  <1> QED  BY <1>7, <1>8 DEF Echo

LEMMA AcceptStep == IndInv /\ Accept => IndInv'
  <1> SUFFICES ASSUME IndInv, Accept PROVE IndInv'
    OBVIOUS
  <1> DEFINE E == {"welcome", "echo", "fin", "rst"}
  <1>1. /\ server = "accept" /\ server' = "recv" /\ backlog # <<>>
        /\ cur' = Head(backlog) /\ backlog' = Tail(backlog)
        /\ down' = [down EXCEPT ![Head(backlog)] = Append(@, "welcome")]
        /\ UNCHANGED <<client, left, buff, up, split>>
    BY DEF Accept, ServerGoes, KeptBuffer
  <1>2. Running /\ Running'
    BY <1>1 DEF Running, Over
  <1>3. /\ Head(backlog) \in Clients /\ Tail(backlog) \in Seq(Clients)
        /\ Head(backlog) \in Range(backlog)
        /\ \A d : d \in Range(Tail(backlog)) <=> d \in Range(backlog) /\ d # Head(backlog)
        /\ \A m, n \in DOMAIN Tail(backlog) : Tail(backlog)[m] = Tail(backlog)[n] => m = n
    BY <1>1, QueueTail DEF IndInv
  <1>4. PICK a \in Clients : a = Head(backlog)
    BY <1>3
  <1>5. /\ cur' = a /\ a \in Range(backlog)
        /\ \A d : d \in Range(backlog') <=> d \in Range(backlog) /\ d # a
    BY <1>1, <1>3, <1>4
  <1>6. /\ down \in [Clients -> Seq(E)] /\ "welcome" \in E
        /\ down' = [down EXCEPT ![a] = Append(@, "welcome")]
    BY <1>1, <1>4 DEF IndInv, TypeOK
  <1>7. /\ ClientOK(a) /\ client[a] \in {"greet", "killed"}
        /\ a # cur /\ a \notin split /\ down[a] = <<>>
    BY <1>5 DEF IndInv, ClientOK, WaitsOK, Untouched
  <1>8. down'[a] = <<"welcome">> /\ <<"welcome">> \in Seq(E)
    <2>1. Append(<<>>, "welcome") = <<"welcome">>
      BY ShortSeqs
    <2> QED  BY <1>6, <1>7, <2>1
  <1>9. TypeOK'
    <2>1. down' \in [Clients -> Seq(E)]
      BY <1>6, <1>7, <1>8
    <2> QED  BY <1>1, <1>3, <2>1 DEF IndInv, TypeOK
  <1>10. ServerOK' /\ Distinct'
    BY <1>1, <1>3 DEF ServerOK, Distinct
  <1>11. EmptyOK'
    BY <1>1, TcpAssumption DEF IndInv, EmptyOK, Fresh
  <1>12. ASSUME NEW d \in Clients PROVE ClientOK(d)'
    <2>1. CASE d = a
      <3>1. WaitsOK(a)'
        BY <1>1, <1>5, <1>7 DEF WaitsOK
      <3>2. SentOK(a)'
        BY <1>1, <1>2, <1>7 DEF ClientOK, SentOK
      <3>3. ExchangeOK(a)'
        <4>1. ASSUME client[a] \in Connected PROVE Served(a)'
          <5>1. client[a] = "greet" /\ up[a] = <<>>
            BY <1>2, <1>7, <4>1 DEF ClientOK, ExchangeOK, Queued, Served, Connected
          <5> QED  BY <1>1, <1>5, <1>8, <5>1 DEF Served
        <4> QED  BY <1>1, <1>7, <4>1 DEF ExchangeOK
      <3>4. LeftOK(a)'
        BY <1>1, <1>7 DEF LeftOK
      <3> QED  BY <2>1, <3>1, <3>2, <3>3, <3>4 DEF ClientOK
    <2>2. CASE d # a /\ d # cur
      <3>1. /\ ClientOK(d) /\ client'[d] = client[d] /\ left'[d] = left[d]
            /\ up'[d] = up[d] /\ down'[d] = down[d] /\ d # cur'
        BY <1>1, <1>5, <1>6, <2>2 DEF IndInv
      <3>2. d \in split' <=> d \in split
        BY <1>1
      <3>3. d \in Range(backlog') <=> d \in Range(backlog)
        BY <1>5, <2>2
      <3> QED  BY <1>2, <2>2, <3>1, <3>2, <3>3, OtherStays
    <2>3. CASE d # a /\ d = cur
      <3>1. ClientOK(d) /\ down'[d] = down[d] /\ d # cur'
        BY <1>5, <1>6, <2>3 DEF IndInv
      <3>2. d \notin Range(backlog) /\ client[d] # "idle"
        BY <2>3, <3>1 DEF ClientOK, WaitsOK, Untouched
      <3>3. client[d] \in Connected => d \in split
        BY <1>1, <1>2, <3>1, <3>2 DEF ClientOK, ExchangeOK, Queued, Served
      <3>4. WaitsOK(d)' /\ LeftOK(d)'
        BY <1>1, <1>5, <3>1, <3>2 DEF WaitsOK, LeftOK
      <3>5. SentOK(d)'
        BY <1>1, <1>2, <3>1 DEF ClientOK, SentOK
      <3>6. ExchangeOK(d)'
        BY <1>1, <1>2, <3>1, <3>3 DEF ClientOK, ExchangeOK, InTransit, InHand
      <3> QED  BY <3>4, <3>5, <3>6 DEF ClientOK
    <2> QED  BY <2>1, <2>2, <2>3
  <1> QED  BY <1>9, <1>10, <1>11, <1>12 DEF IndInv

-----------------------------------------------------------------------------
(* A step of a client changes nothing for the others.                      *)
LEMMA ClientMoves ==
    ASSUME IndInv, NEW c \in Clients, NEW from, NEW to, Goes(c, from, to),
           TypeOK', Distinct', server = "boot" => backlog' = <<>>, ClientOK(c)',
           from \notin {"killed", "quit"},
           c # cur /\ Running /\ from \in NotServed => to \in NotServed,
           cur \in split => cur \in split',
           \A d \in Clients \ {c} :
              /\ up'[d] = up[d] /\ down'[d] = down[d] /\ left'[d] = left[d]
              /\ d \in split' <=> d \in split
              /\ d \in Range(backlog') <=> d \in Range(backlog)
    PROVE  IndInv'
  <1>1. /\ client[c] = from /\ client'[c] = to
        /\ \A d \in Clients \ {c} : client'[d] = client[d]
        /\ UNCHANGED <<server, cur, buff>>
    BY DEF Goes, IndInv, TypeOK
  <1>2. ServerOK'
    BY <1>1 DEF IndInv, ServerOK, Serving
  <1>3. ASSUME Running, Fresh PROVE Fresh'
    BY <1>1, <1>3 DEF Fresh
  <1>4. EmptyOK'
    <2>1. ASSUME buff = "empty", server \in {"boot", "accept"}
          PROVE  cur = NoClient /\ Fresh'
      BY <1>3, <2>1 DEF IndInv, EmptyOK, Running, Over
    <2>2. ASSUME buff = "empty", server = "recv" PROVE Fresh'
      BY <1>3, <2>2 DEF IndInv, EmptyOK, Running, Over
    <2>3. ASSUME buff = "empty", server = "judge"
          PROVE  \/ client'[cur] = "quit"
                 \/ cur \in split'
                 \/ client'[cur] = "killed" /\ Fresh'
      <3>1. cur \in Clients /\ Running
        BY <2>3 DEF IndInv, ServerOK, Serving, Running, Over
      <3>2. \/ client[cur] = "quit"
            \/ cur \in split
            \/ client[cur] = "killed" /\ Fresh
        BY <2>3 DEF IndInv, EmptyOK
      <3> QED  BY <1>1, <1>3, <3>1, <3>2
    <2> QED  BY <1>1, <2>1, <2>2, <2>3 DEF EmptyOK
  <1>5. ASSUME NEW d \in Clients PROVE ClientOK(d)'
    <2>1. CASE d = c
      BY <2>1
    <2>2. CASE d # c
      <3>1. /\ ClientOK(d) /\ client'[d] = client[d] /\ left'[d] = left[d]
            /\ up'[d] = up[d] /\ down'[d] = down[d]
        BY <1>1, <2>2 DEF IndInv
      <3>2. d \in split' <=> d \in split
        BY <2>2
      <3>3. d \in Range(backlog') <=> d \in Range(backlog)
        BY <2>2
      <3> QED  BY <1>1, <3>1, <3>2, <3>3, ClientStays
    <2> QED  BY <2>1, <2>2
  <1> QED  BY <1>2, <1>4, <1>5 DEF IndInv

(* A client that is past the greeting is not in the queue, and as long as  *)
(* its blocks come whole it is the one being served.                       *)
LEMMA Greeted ==
    ASSUME IndInv, NEW c \in Clients, client[c] \in {"prompt", "send", "await"}
    PROVE  /\ ClientOK(c) /\ SentOK(c) /\ c \notin Range(backlog)
           /\ ~Contains(up[c], "fin") /\ ~Contains(up[c], "rst")
           /\ up[c] \in Seq(Message \cup {"fin", "rst"})
           /\ down[c] \in Seq({"welcome", "echo", "fin", "rst"})
           /\ Running /\ c \notin split => Served(c)
           /\ Running /\ c \in split /\ client[c] = "await" => InTransit(c)
  <1>1. ClientOK(c) /\ client[c] \in Connected
    BY DEF IndInv, Connected
  <1> QED
    BY <1>1 DEF IndInv, TypeOK, ClientOK, WaitsOK, SentOK, ExchangeOK, Queued

LEMMA ConnectStep == ASSUME IndInv, NEW c \in Clients, Connect(c) PROVE IndInv'
  <1>1. /\ server \notin Over \cup {"boot"} /\ Goes(c, "idle", "greet")
        /\ client[c] = "idle" /\ client' = [client EXCEPT ![c] = "greet"]
        /\ backlog' = Append(backlog, c)
        /\ UNCHANGED <<server, cur, buff, left, up, down, split>>
    BY DEF Connect, Goes
  <1>2. ClientOK(c) /\ Untouched(c) /\ up[c] = <<>> /\ c \notin Range(backlog)
    BY <1>1 DEF IndInv, ClientOK, WaitsOK
  <1>3. /\ Append(backlog, c) \in Seq(Clients)
        /\ \A d : d \in Range(Append(backlog, c)) <=> d \in Range(backlog) \/ d = c
        /\ \A m, n \in DOMAIN Append(backlog, c) :
              Append(backlog, c)[m] = Append(backlog, c)[n] => m = n
    BY <1>2, QueueAppend DEF IndInv
  <1>4. \A d : d \in Range(backlog') <=> d \in Range(backlog) \/ d = c
    BY <1>1, <1>3
  <1>5. client'[c] = "greet"
    BY <1>1 DEF IndInv, TypeOK
  <1>6. TypeOK' /\ Distinct'
    <2>1. client' \in [Clients -> Connected \cup
                          {"idle", "quit", "left", "killed", "dead", "refused"}]
      BY <1>1 DEF IndInv, TypeOK, Connected
    <2> QED  BY <1>1, <1>3, <2>1 DEF IndInv, TypeOK, Distinct
  <1>7. ClientOK(c)'
    <2>1. WaitsOK(c)' /\ LeftOK(c)'
      BY <1>1, <1>2, <1>5 DEF WaitsOK, LeftOK, Untouched
    <2>2. SentOK(c)'
      BY <1>1, <1>2, <1>5, ContainsShort DEF SentOK, Untouched
    <2>3. ExchangeOK(c)'
      <3>1. Queued(c)' /\ c \notin split'
        BY <1>1, <1>2, <1>4, <1>5 DEF Queued, Untouched
      <3> QED  BY <3>1 DEF ExchangeOK
    <2> QED  BY <2>1, <2>2, <2>3 DEF ClientOK
  <1>8. \A d \in Clients \ {c} :
           /\ up'[d] = up[d] /\ down'[d] = down[d] /\ left'[d] = left[d]
           /\ d \in split' <=> d \in split
           /\ d \in Range(backlog') <=> d \in Range(backlog)
    BY <1>1, <1>4
  <1>9. "greet" \in NotServed /\ "idle" \notin {"killed", "quit"}
    BY DEF NotServed
  <1> QED  BY <1>1, <1>6, <1>7, <1>8, <1>9, ClientMoves

LEMMA ConnectThrowsStep ==
    ASSUME IndInv, NEW c \in Clients, ConnectThrows(c) PROVE IndInv'
  <1>1. /\ Goes(c, "idle", "refused")
        /\ client[c] = "idle" /\ client' = [client EXCEPT ![c] = "refused"]
        /\ UNCHANGED <<server, cur, buff, backlog, left, up, down, split>>
    BY DEF ConnectThrows, Goes
  <1>2. ClientOK(c) /\ Untouched(c) /\ up[c] = <<>> /\ c \notin Range(backlog)
    BY <1>1 DEF IndInv, ClientOK, WaitsOK
  <1>3. client'[c] = "refused"
    BY <1>1 DEF IndInv, TypeOK
  <1>4. TypeOK' /\ Distinct' /\ (server = "boot" => backlog' = <<>>)
    BY <1>1 DEF IndInv, TypeOK, Distinct, ServerOK
  <1>5. ClientOK(c)'
    <2>1. WaitsOK(c)' /\ LeftOK(c)' /\ ExchangeOK(c)'
      BY <1>1, <1>2, <1>3 DEF WaitsOK, LeftOK, ExchangeOK, Connected
    <2>2. SentOK(c)'
      BY <1>1, <1>2, <1>3, ContainsShort DEF SentOK, Untouched, Connected
    <2> QED  BY <2>1, <2>2 DEF ClientOK
  <1>6. \A d \in Clients \ {c} :
           /\ up'[d] = up[d] /\ down'[d] = down[d] /\ left'[d] = left[d]
           /\ d \in split' <=> d \in split
           /\ d \in Range(backlog') <=> d \in Range(backlog)
    BY <1>1
  <1>7. "refused" \in NotServed /\ "idle" \notin {"killed", "quit"}
    BY DEF NotServed
  <1> QED  BY <1>1, <1>4, <1>5, <1>6, <1>7, ClientMoves
LEMMA GreetStep == ASSUME IndInv, NEW c \in Clients, Greet(c) PROVE IndInv'
  <1> DEFINE E == {"welcome", "echo", "fin", "rst"}
  <1>1. /\ Goes(c, "greet", "prompt")
        /\ client[c] = "greet" /\ client' = [client EXCEPT ![c] = "prompt"]
        /\ down[c] # <<>>
        /\ UNCHANGED <<server, cur, buff, backlog, left, up>>
    BY DEF Greet, Goes
  <1>2. /\ ClientOK(c) /\ SentOK(c) /\ c \notin split /\ c \notin Range(backlog)
        /\ ~Contains(up[c], "fin") /\ ~Contains(up[c], "rst")
        /\ Running => Served(c) /\ server = "recv" /\ up[c] = <<>> /\ down[c] = <<"welcome">>
    BY <1>1 DEF IndInv, ClientOK, SentOK, WaitsOK, Untouched, ExchangeOK, Queued, Served,
                Connected
  <1>3. down \in [Clients -> Seq(E)] /\ down[c] \in Seq(E) /\ Tail(down[c]) \in Seq(E)
    <2>1. down \in [Clients -> Seq(E)] /\ down[c] \in Seq(E)
      BY DEF IndInv, TypeOK
    <2>2. Tail(down[c]) \in Seq(E)
      BY <1>1, <2>1, ContainsTail
    <2> QED  BY <2>1, <2>2
  <1>4. client'[c] = "prompt"
    BY <1>1 DEF IndInv, TypeOK
  <1>5. Distinct' /\ (server = "boot" => backlog' = <<>>)
    BY <1>1 DEF IndInv, Distinct, ServerOK
  <1>6. WaitsOK(c)' /\ LeftOK(c)'
    BY <1>1, <1>2, <1>4 DEF WaitsOK, LeftOK
  <1>7. SentOK(c)'
    BY <1>1, <1>2, <1>4 DEF SentOK, Connected
  <1>8. c # cur /\ Running /\ "greet" \in NotServed => "prompt" \in NotServed
    BY <1>2 DEF Served
  <1>9. client' \in [Clients -> Connected \cup
                         {"idle", "quit", "left", "killed", "dead", "refused"}]
    BY <1>1 DEF IndInv, TypeOK, Connected
  <1>10. CASE /\ down' = [down EXCEPT ![c] = IF Head(@) = "welcome" THEN Tail(@) ELSE @]
              /\ UNCHANGED split
    <2>1. TypeOK'
      <3>1. down' \in [Clients -> Seq(E)]
        BY <1>3, <1>10
      <3> QED  BY <1>1, <1>9, <1>10, <3>1 DEF IndInv, TypeOK
    <2>2. ExchangeOK(c)'
      <3>1. ASSUME Running PROVE Served(c)'
        <4>1. down'[c] = IF Head(down[c]) = "welcome" THEN Tail(down[c]) ELSE down[c]
          BY <1>3, <1>10
        <4>2. down'[c] = <<>>
          <5>1. Head(<<"welcome">>) = "welcome" /\ Tail(<<"welcome">>) = <<>>
            BY ShortSeqs
          <5> QED  BY <1>2, <3>1, <4>1, <5>1
        <4> QED  BY <1>1, <1>2, <1>4, <3>1, <4>2 DEF Served
      <3> QED  BY <1>1, <1>2, <1>10, <3>1 DEF ExchangeOK, Running
    <2>3. ClientOK(c)'
      BY <1>6, <1>7, <2>2 DEF ClientOK
    <2>4. \A d \in Clients \ {c} :
             /\ up'[d] = up[d] /\ down'[d] = down[d] /\ left'[d] = left[d]
             /\ d \in split' <=> d \in split
             /\ d \in Range(backlog') <=> d \in Range(backlog)
      BY <1>1, <1>3, <1>10
    <2> QED  BY <1>1, <1>5, <1>8, <1>10, <2>1, <2>3, <2>4, ClientMoves
  <1>11. CASE /\ MayComeInParts(c)
              /\ down' = [down EXCEPT ![c] = <<"echo">> \o Tail(@)]
    <2>1. split' = split \cup {c}
      BY <1>11 DEF MayComeInParts
    <2>2. TypeOK'
      <3>1. <<"echo">> \o Tail(down[c]) \in Seq(E)
        <4>1. <<"echo">> \in Seq(E)
          OBVIOUS
        <4> QED  BY <1>3, <4>1, ContainsConcat
      <3>2. down' \in [Clients -> Seq(E)]
        BY <1>3, <1>11, <3>1
      <3> QED  BY <1>1, <1>9, <2>1, <3>2 DEF IndInv, TypeOK
    <2>3. ClientOK(c)'
      BY <1>4, <1>6, <1>7, <2>1 DEF ClientOK, ExchangeOK
    <2>4. \A d \in Clients \ {c} :
             /\ up'[d] = up[d] /\ down'[d] = down[d] /\ left'[d] = left[d]
             /\ d \in split' <=> d \in split
             /\ d \in Range(backlog') <=> d \in Range(backlog)
      BY <1>1, <1>3, <1>11, <2>1
    <2> QED  BY <1>1, <1>5, <1>8, <2>1, <2>2, <2>3, <2>4, ClientMoves
  <1> QED  BY <1>10, <1>11 DEF Greet

(* The end of a client: with "" or "z" as its last word, or with none.     *)
LEMMA EndStep ==
    ASSUME IndInv, NEW c \in Clients, NEW from, NEW to, NEW last,
           Goes(c, from, to), EndOf(c, last),
           \/ from = "prompt" /\ to = "quit" /\ last = <<"empty">>
           \/ from = "prompt" /\ to = "left" /\ last = <<"z">>
           \/ from \in Connected /\ to = "killed" /\ last = <<>>
    PROVE  IndInv'
  <1> DEFINE E == Message \cup {"fin", "rst"}
  <1>1. /\ client[c] = from /\ client' = [client EXCEPT ![c] = to]
        /\ from \in Connected /\ to \in {"quit", "left", "killed"}
        /\ UNCHANGED <<server, cur, buff, backlog, left, down, split>>
    BY DEF EndOf, Goes, Connected
  <1>2. ClientOK(c) /\ SentOK(c) /\ ~Contains(up[c], "fin") /\ ~Contains(up[c], "rst")
    BY <1>1 DEF IndInv, ClientOK, SentOK
  <1>3. up \in [Clients -> Seq(E)] /\ up[c] \in Seq(E)
    BY DEF IndInv, TypeOK
  <1>4. /\ <<"rst">> \in Seq(E) /\ last \in Seq(E) /\ <<"fin">> \in Seq(E)
        /\ \A e : Contains(<<"rst">>, e) <=> e = "rst"
        /\ \A e : Contains(<<"fin">>, e) <=> e = "fin"
        /\ Contains(last, "empty") => to = "quit"
        /\ Contains(last, "z") => to = "left"
    <2>1. /\ <<>> \in Seq(E) /\ <<"rst">> \in Seq(E) /\ <<"empty">> \in Seq(E)
          /\ <<"z">> \in Seq(E) /\ <<"fin">> \in Seq(E)
      BY DEF Message
    <2>2. /\ \A e : Contains(<<"rst">>, e) <=> e = "rst"
          /\ \A e : Contains(<<"fin">>, e) <=> e = "fin"
          /\ ~Contains(<<>>, "empty") /\ ~Contains(<<>>, "z")
          /\ ~Contains(<<"empty">>, "z") /\ ~Contains(<<"z">>, "empty")
      BY ContainsShort
    <2> QED  BY <2>1, <2>2
  <1>5. /\ up[c] \o last \o <<"fin">> \in Seq(E)
        /\ \A e : Contains(up[c] \o last \o <<"fin">>, e) <=>
                     Contains(up[c], e) \/ Contains(last, e) \/ e = "fin"
    <2>1. /\ up[c] \o last \in Seq(E)
          /\ \A e : Contains(up[c] \o last, e) <=> Contains(up[c], e) \/ Contains(last, e)
      BY <1>3, <1>4, ContainsConcat
    <2>2. PICK s \in Seq(E) : s = up[c] \o last
      BY <2>1
    <2>3. /\ s \o <<"fin">> \in Seq(E)
          /\ \A e : Contains(s \o <<"fin">>, e) <=> Contains(s, e) \/ Contains(<<"fin">>, e)
      <3>1. <<"fin">> \in Seq(E)
        BY <1>4
      <3> HIDE DEF E
      <3> QED  BY <3>1, ContainsConcat
    <2>4. s \o <<"fin">> = up[c] \o last \o <<"fin">>
      BY <2>2
    <2> QED  BY <1>4, <2>1, <2>2, <2>3, <2>4
  <1>6. \/ up'[c] = up[c] \o last \o <<"fin">> /\ up' = [up EXCEPT ![c] = @ \o last \o <<"fin">>]
        \/ up'[c] = <<"rst">> /\ up' = [up EXCEPT ![c] = <<"rst">>]
    BY <1>3 DEF EndOf
  <1>7. /\ up' \in [Clients -> Seq(E)]
        /\ Contains(up'[c], "empty") => Contains(up[c], "empty") \/ to = "quit"
        /\ Contains(up'[c], "z") => Contains(up[c], "z") \/ to = "left"
    BY <1>3, <1>4, <1>5, <1>6
  <1>8. client'[c] = to /\ to \notin Connected /\ to \notin {"idle", "greet", "refused", "dead"}
    BY <1>1 DEF IndInv, TypeOK, Connected
  <1>9. TypeOK'
    <2>1. client' \in [Clients -> Connected \cup
                          {"idle", "quit", "left", "killed", "dead", "refused"}]
      BY <1>1 DEF IndInv, TypeOK
    <2> QED  BY <1>1, <1>7, <2>1 DEF IndInv, TypeOK
  <1>10. Distinct' /\ (server = "boot" => backlog' = <<>>)
    BY <1>1 DEF IndInv, Distinct, ServerOK
  <1>11. ClientOK(c)'
    <2>1. WaitsOK(c)'
      BY <1>1, <1>2, <1>8 DEF ClientOK, WaitsOK, Untouched, Connected
    <2>2. SentOK(c)'
      BY <1>1, <1>2, <1>7, <1>8 DEF SentOK, Connected
    <2>3. ExchangeOK(c)'
      BY <1>8 DEF ExchangeOK
    <2>4. LeftOK(c)'
      <3>1. ASSUME to = "left", Serving, c = cur, c \notin split
            PROVE  server = "recv" /\ up'[c] \in {<<"z", "fin">>, <<"rst">>}
        <4>1. from = "prompt" /\ last = <<"z">>
          BY <3>1
        <4>2. Running
          BY <3>1 DEF Serving, Running, Over
        <4>3. server = "recv" /\ up[c] = <<>>
          BY <1>1, <3>1, <4>1, <4>2, Greeted DEF Served
        <4>4. <<>> \o <<"z">> \o <<"fin">> = <<"z", "fin">>
          <5>1. "z" \in E /\ "fin" \in E
            BY DEF Message
          <5> QED  BY <5>1, ShortSeqs
        <4> QED  BY <1>6, <4>1, <4>3, <4>4
      <3> QED  BY <1>1, <1>8, <3>1 DEF LeftOK, Serving
    <2> QED  BY <2>1, <2>2, <2>3, <2>4 DEF ClientOK
  <1>12. \A d \in Clients \ {c} :
            /\ up'[d] = up[d] /\ down'[d] = down[d] /\ left'[d] = left[d]
            /\ d \in split' <=> d \in split
            /\ d \in Range(backlog') <=> d \in Range(backlog)
    BY <1>1, <1>3, <1>6
  <1>13. /\ from \notin {"killed", "quit"}
         /\ c # cur /\ Running /\ from \in NotServed => to \in NotServed
    BY <1>1 DEF NotServed, Connected
  <1>14. cur \in split => cur \in split'
    BY <1>1
  <1> QED  BY <1>9, <1>10, <1>11, <1>12, <1>13, <1>14, ClientMoves
LEMMA OrderStep == ASSUME IndInv, NEW c \in Clients, Order(c) PROVE IndInv'
  <1>1. /\ Goes(c, "prompt", "send")
        /\ client[c] = "prompt" /\ client' = [client EXCEPT ![c] = "send"]
        /\ UNCHANGED <<server, cur, buff, backlog, up, down, split>>
    BY DEF Order, Goes
  <1>2. PICK count \in 1..MaxCount : left' = [left EXCEPT ![c] = count]
    BY DEF Order
  <1>3. left \in [Clients -> 0..MaxCount]
    BY DEF IndInv, TypeOK
  <1>4. left'[c] = count /\ count > 0 /\ left' \in [Clients -> 0..MaxCount]
    BY <1>2, <1>3, TcpAssumption
  <1>5. /\ ClientOK(c) /\ SentOK(c) /\ c \notin Range(backlog)
        /\ ~Contains(up[c], "fin") /\ ~Contains(up[c], "rst")
        /\ Running /\ c \notin split => Served(c)
    BY <1>1, Greeted
  <1>6. client'[c] = "send"
    BY <1>1 DEF IndInv, TypeOK
  <1>7. TypeOK'
    <2>1. client' \in [Clients -> Connected \cup
                          {"idle", "quit", "left", "killed", "dead", "refused"}]
      BY <1>1 DEF IndInv, TypeOK, Connected
    <2> QED  BY <1>1, <1>4, <2>1 DEF IndInv, TypeOK
  <1>8. Distinct' /\ (server = "boot" => backlog' = <<>>)
    BY <1>1 DEF IndInv, Distinct, ServerOK
  <1>9. ClientOK(c)'
    <2>1. WaitsOK(c)' /\ LeftOK(c)'
      BY <1>1, <1>5, <1>6 DEF WaitsOK, LeftOK
    <2>2. SentOK(c)'
      BY <1>1, <1>4, <1>5, <1>6 DEF SentOK, Connected
    <2>3. ExchangeOK(c)'
      BY <1>1, <1>5, <1>6 DEF ExchangeOK, Served, Running
    <2> QED  BY <2>1, <2>2, <2>3 DEF ClientOK
  <1>10. \A d \in Clients \ {c} :
            /\ up'[d] = up[d] /\ down'[d] = down[d] /\ left'[d] = left[d]
            /\ d \in split' <=> d \in split
            /\ d \in Range(backlog') <=> d \in Range(backlog)
    BY <1>1, <1>2, <1>3
  <1>11. "prompt" \notin NotServed /\ "prompt" \notin {"killed", "quit"}
    BY DEF NotServed
  <1> QED  BY <1>1, <1>7, <1>8, <1>9, <1>10, <1>11, ClientMoves

LEMMA SendStep == ASSUME IndInv, NEW c \in Clients, Send(c) PROVE IndInv'
  <1> DEFINE E == Message \cup {"fin", "rst"}
  <1> DEFINE F == {"welcome", "echo", "fin", "rst"}
  <1>1. /\ Goes(c, "send", "await")
        /\ client[c] = "send" /\ client' = [client EXCEPT ![c] = "await"]
        /\ up' = [up EXCEPT ![c] = Append(@, "text")]
        /\ UNCHANGED <<server, cur, buff, backlog, left, split>>
    BY DEF Send, Goes
  <1>2. \/ UNCHANGED down
        \/ Contains(down[c], "fin") /\ down' = [down EXCEPT ![c] = <<"rst">>]
    BY DEF Send
  <1>3. /\ ClientOK(c) /\ SentOK(c) /\ c \notin Range(backlog)
        /\ ~Contains(up[c], "fin") /\ ~Contains(up[c], "rst")
        /\ Running /\ c \notin split => Served(c)
    BY <1>1, Greeted
  <1>4. /\ up \in [Clients -> Seq(E)] /\ up[c] \in Seq(E) /\ "text" \in E
        /\ down \in [Clients -> Seq(F)]
    BY DEF IndInv, TypeOK, Message
  <1>5. /\ up'[c] = Append(up[c], "text") /\ up'[c] \in Seq(E)
        /\ \A e : Contains(up'[c], e) <=> Contains(up[c], e) \/ e = "text"
    <2>1. /\ Append(up[c], "text") \in Seq(E)
          /\ \A e : Contains(Append(up[c], "text"), e) <=> Contains(up[c], e) \/ e = "text"
      BY <1>4, ContainsAppend
    <2>2. up'[c] = Append(up[c], "text")
      BY <1>1, <1>4
    <2> QED  BY <2>1, <2>2
  <1>6. client'[c] = "await"
    BY <1>1 DEF IndInv, TypeOK
  <1>7. TypeOK'
    <2>1. client' \in [Clients -> Connected \cup
                          {"idle", "quit", "left", "killed", "dead", "refused"}]
      BY <1>1 DEF IndInv, TypeOK, Connected
    <2>2. up' \in [Clients -> Seq(E)]
      BY <1>1, <1>4, <1>5
    <2>3. down' \in [Clients -> Seq(F)]
      <3>1. <<"rst">> \in Seq(F)
        OBVIOUS
      <3> QED  BY <1>2, <1>4, <3>1
    <2> QED  BY <1>1, <2>1, <2>2, <2>3 DEF IndInv, TypeOK
  <1>8. Distinct' /\ (server = "boot" => backlog' = <<>>)
    BY <1>1 DEF IndInv, Distinct, ServerOK
  <1>9. ClientOK(c)'
    <2>1. WaitsOK(c)' /\ LeftOK(c)'
      BY <1>1, <1>3, <1>6 DEF WaitsOK, LeftOK
    <2>2. SentOK(c)'
      BY <1>1, <1>3, <1>5, <1>6 DEF SentOK, Connected
    <2>3. ExchangeOK(c)'
      <3>1. ASSUME Running, c \notin split PROVE Served(c)'
        <4>1. c = cur /\ server = "recv" /\ up[c] = <<>> /\ down[c] = <<>>
          BY <1>1, <1>3, <3>1 DEF Served
        <4>2. ~Contains(<<>>, "fin")
          BY ContainsShort
        <4>3. down'[c] = <<>>
          BY <1>2, <4>1, <4>2
        <4>4. Append(<<>>, "text") = <<"text">>
          BY ShortSeqs
        <4> QED  BY <1>1, <1>5, <1>6, <4>1, <4>3, <4>4 DEF Served
      <3> QED  BY <1>1, <1>5, <3>1 DEF ExchangeOK, InTransit, Running
    <2> QED  BY <2>1, <2>2, <2>3 DEF ClientOK
  <1>10. \A d \in Clients \ {c} :
            /\ up'[d] = up[d] /\ down'[d] = down[d] /\ left'[d] = left[d]
            /\ d \in split' <=> d \in split
            /\ d \in Range(backlog') <=> d \in Range(backlog)
    BY <1>1, <1>2, <1>4
  <1>11. "send" \notin NotServed /\ "send" \notin {"killed", "quit"}
    BY DEF NotServed
  <1> QED  BY <1>1, <1>7, <1>8, <1>9, <1>10, <1>11, ClientMoves

(* The exception of a client: the server has reset its connection.         *)
LEMMA ThrowsStep ==
    ASSUME IndInv, NEW c \in Clients, SendThrows(c) \/ ReplyThrows(c)
    PROVE  IndInv'
  <1>1. PICK from \in {"send", "await"} : Goes(c, from, "dead")
    BY DEF SendThrows, ReplyThrows
  <1>2. /\ client[c] = from /\ client' = [client EXCEPT ![c] = "dead"]
        /\ UNCHANGED <<server, cur, buff, backlog, left, up, down, split>>
    BY <1>1 DEF SendThrows, ReplyThrows, Goes
  <1>3. /\ ClientOK(c) /\ SentOK(c) /\ c \notin Range(backlog)
        /\ down[c] \in Seq({"welcome", "echo", "fin", "rst"})
        /\ Running /\ c \notin split => Served(c)
    BY <1>2, Greeted
  <1>4. Contains(down[c], "rst")
    BY <1>3, ContainsTail DEF SendThrows, ReplyThrows
  <1>5. Running => c \in split
    <2>1. ASSUME Running, c \notin split PROVE down[c] \in {<<>>, <<"echo">>}
      BY <1>2, <1>3, <2>1 DEF Served
    <2>2. ~Contains(<<>>, "rst") /\ ~Contains(<<"echo">>, "rst")
      BY ContainsShort
    <2> QED  BY <1>4, <2>1, <2>2
  <1>6. client'[c] = "dead"
    BY <1>2 DEF IndInv, TypeOK
  <1>7. TypeOK' /\ Distinct' /\ (server = "boot" => backlog' = <<>>)
    BY <1>2 DEF IndInv, TypeOK, Distinct, ServerOK
  <1>8. ClientOK(c)'
    <2>1. WaitsOK(c)' /\ LeftOK(c)' /\ ExchangeOK(c)'
      BY <1>2, <1>3, <1>6 DEF WaitsOK, LeftOK, ExchangeOK, Connected
    <2>2. SentOK(c)'
      BY <1>2, <1>3, <1>5, <1>6 DEF SentOK, Connected, Running
    <2> QED  BY <2>1, <2>2 DEF ClientOK
  <1>9. \A d \in Clients \ {c} :
           /\ up'[d] = up[d] /\ down'[d] = down[d] /\ left'[d] = left[d]
           /\ d \in split' <=> d \in split
           /\ d \in Range(backlog') <=> d \in Range(backlog)
    BY <1>2
  <1>10. from \notin NotServed /\ from \notin {"killed", "quit"}
    BY DEF NotServed
  <1> QED  BY <1>1, <1>2, <1>7, <1>8, <1>9, <1>10, ClientMoves

LEMMA ReplyStep == ASSUME IndInv, NEW c \in Clients, Reply(c) PROVE IndInv'
  <1> DEFINE F == {"welcome", "echo", "fin", "rst"}
  <1>1. PICK to \in {"send", "prompt"} :
           Goes(c, "await", to) /\ (to = "send" => left[c] > 1)
    BY DEF Reply, More
  <1>2. /\ client[c] = "await" /\ client' = [client EXCEPT ![c] = to]
        /\ down[c] # <<>> /\ Head(down[c]) # "rst"
        /\ left' = [left EXCEPT ![c] = @ - 1]
        /\ UNCHANGED <<server, cur, buff, backlog, up>>
    BY <1>1 DEF Reply, Goes
  <1>3. \/ /\ down' = [down EXCEPT ![c] = IF Head(@) = "fin" THEN <<"rst">> ELSE Tail(@)]
           /\ UNCHANGED split
        \/ MayComeInParts(c) /\ split' = split \cup {c} /\ UNCHANGED down
    BY DEF Reply, MayComeInParts
  <1>4. /\ ClientOK(c) /\ SentOK(c) /\ c \notin Range(backlog)
        /\ ~Contains(up[c], "fin") /\ ~Contains(up[c], "rst")
        /\ down[c] \in Seq(F)
        /\ Running /\ c \notin split => Served(c)
    BY <1>2, Greeted
  <1>5. left \in [Clients -> 0..MaxCount] /\ left[c] \in 0..MaxCount /\ left[c] > 0
    BY <1>2, <1>4 DEF IndInv, TypeOK, SentOK
  <1>6. /\ left'[c] = left[c] - 1 /\ left' \in [Clients -> 0..MaxCount]
        /\ to = "send" => left'[c] > 0
    BY <1>1, <1>2, <1>5, TcpAssumption
  <1>7. client'[c] = to
    BY <1>2 DEF IndInv, TypeOK
  <1>8. down \in [Clients -> Seq(F)] /\ Tail(down[c]) \in Seq(F) /\ <<"rst">> \in Seq(F)
    <2>1. down \in [Clients -> Seq(F)]
      BY DEF IndInv, TypeOK
    <2>2. Tail(down[c]) \in Seq(F)
      BY <1>2, <1>4, ContainsTail
    <2> QED  BY <2>1, <2>2
  <1>9. TypeOK'
    <2>1. client' \in [Clients -> Connected \cup
                          {"idle", "quit", "left", "killed", "dead", "refused"}]
      BY <1>2 DEF IndInv, TypeOK, Connected
    <2>2. down' \in [Clients -> Seq(F)]
      BY <1>3, <1>8
    <2>3. split' \subseteq Clients
      BY <1>3 DEF IndInv, TypeOK
    <2> QED  BY <1>2, <1>6, <2>1, <2>2, <2>3 DEF IndInv, TypeOK
  <1>10. Distinct' /\ (server = "boot" => backlog' = <<>>)
    BY <1>2 DEF IndInv, Distinct, ServerOK
  <1>11. ClientOK(c)'
    <2>1. WaitsOK(c)' /\ LeftOK(c)'
      BY <1>2, <1>4, <1>7 DEF WaitsOK, LeftOK
    <2>2. SentOK(c)'
      BY <1>2, <1>3, <1>4, <1>6, <1>7 DEF SentOK, Connected, Running
    <2>3. ExchangeOK(c)'
      <3>1. ASSUME Running, c \notin split' PROVE Served(c)'
        <4>1. c \notin split
          BY <1>3, <3>1
        <4>2. /\ c = cur /\ server = "recv" /\ up[c] = <<>> /\ down[c] = <<"echo">>
          BY <1>2, <1>4, <3>1, <4>1 DEF Served
        <4>3. Head(<<"echo">>) = "echo" /\ Tail(<<"echo">>) = <<>>
          BY ShortSeqs
        <4>4. down'[c] = <<>>
          BY <1>3, <1>8, <3>1, <4>2, <4>3
        <4> QED  BY <1>2, <1>7, <4>2, <4>4 DEF Served
      <3> QED  BY <1>2, <1>7, <3>1 DEF ExchangeOK, Running
    <2> QED  BY <2>1, <2>2, <2>3 DEF ClientOK
  <1>12. \A d \in Clients \ {c} :
            /\ up'[d] = up[d] /\ down'[d] = down[d] /\ left'[d] = left[d]
            /\ d \in split' <=> d \in split
            /\ d \in Range(backlog') <=> d \in Range(backlog)
    BY <1>2, <1>3, <1>5, <1>8
  <1>13. "await" \notin NotServed /\ "await" \notin {"killed", "quit"}
    BY DEF NotServed
  <1>14. cur \in split => cur \in split'
    BY <1>3
  <1> QED  BY <1>1, <1>9, <1>10, <1>11, <1>12, <1>13, <1>14, ClientMoves

-----------------------------------------------------------------------------
LEMMA NextIndInv == IndInv /\ [Next]_vars => IndInv'
  <1> SUFFICES ASSUME IndInv, [Next]_vars PROVE IndInv'
    OBVIOUS
  <1>1. CASE UNCHANGED vars
    <2>1. UNCHANGED <<server, backlog, cur, buff, client, left, up, down, split>>
      BY <1>1 DEF vars
    <2>2. TypeOK' /\ ServerOK' /\ Distinct' /\ EmptyOK'
      BY <2>1 DEF IndInv, TypeOK, ServerOK, Distinct, EmptyOK, Serving, Fresh
    <2>3. ASSUME NEW c \in Clients PROVE ClientOK(c)'
      <3>1. /\ ClientOK(c) /\ client'[c] = client[c] /\ left'[c] = left[c]
            /\ up'[c] = up[c] /\ down'[c] = down[c]
            /\ c \in split' <=> c \in split
            /\ c \in Range(backlog') <=> c \in Range(backlog)
        BY <2>1 DEF IndInv
      <3> QED  BY <2>1, <3>1, ClientStays
    <2> QED  BY <2>2, <2>3 DEF IndInv
  <1>2. ASSUME NEW how \in Over, ServerEnds(how) PROVE IndInv'
    BY <1>2, ServerEndsStep
  <1>3. CASE BootFails \/ AcceptThrows \/ RecvThrows \/ Shutdown \/ EchoThrows \/ Kill
    BY <1>2, <1>3 DEF BootFails, AcceptThrows, RecvThrows, Shutdown, EchoThrows, Kill, Over
  <1>4. CASE Boot \/ Accept \/ Recv \/ RecvEndOfStream \/ NextClient \/ Echo
    BY <1>4, BootStep, AcceptStep, RecvStep, RecvEndOfStreamStep, NextClientStep, EchoStep
  <1>5. ASSUME NEW c \in Clients, Works(c) PROVE IndInv'
    BY <1>5, GreetStep, SendStep, ThrowsStep, ReplyStep DEF Works
  <1>6. ASSUME NEW c \in Clients, User(c) PROVE IndInv'
    <2>1. CASE Connect(c) \/ ConnectThrows(c) \/ Order(c)
      BY <2>1, ConnectStep, ConnectThrowsStep, OrderStep
    <2>2. CASE Quit(c)
      BY <2>2, EndStep DEF Quit
    <2>3. CASE Leave(c)
      BY <2>3, EndStep DEF Leave
    <2> QED  BY <1>6, <2>1, <2>2, <2>3 DEF User
  <1>7. ASSUME NEW c \in Clients, Crash(c) PROVE IndInv'
    BY <1>7, EndStep DEF Crash
  <1> QED  BY <1>1, <1>3, <1>4, <1>5, <1>6, <1>7 DEF Next, Server

(* The inductive invariant of lab2.                                        *)
THEOREM Inductive == Spec => []IndInv
  <1> QED  BY InitIndInv, NextIndInv, PTL DEF Spec

(* Every variable keeps its type.                                          *)
THEOREM TypeCorrect == Spec => []TypeOK
  <1>1. IndInv => TypeOK
    BY DEF IndInv
  <1> QED  BY <1>1, Inductive, PTL

-----------------------------------------------------------------------------
(* How often an element is in a short sequence, and in any.                *)
LEMMA PlacesShort ==
    /\ \A e : Cardinality(Places(<<>>, e)) = 0
    /\ \A x : Cardinality(Places(<<x>>, x)) = 1
    /\ \A x, e : x # e => Cardinality(Places(<<x>>, e)) = 0
  <1>1. \A e : Places(<<>>, e) = {}
    BY DEF Places
  <1>2. \A x : Places(<<x>>, x) = {1}
    BY DEF Places
  <1>3. \A x, e : x # e => Places(<<x>>, e) = {}
    BY DEF Places
  <1>4. Cardinality({}) = 0 /\ Cardinality({1}) = 1
    BY FS_EmptySet, FS_Singleton
  <1> QED  BY <1>1, <1>2, <1>3, <1>4

LEMMA PlacesCount ==
    ASSUME NEW S, NEW s \in Seq(S), NEW e
    PROVE  /\ Cardinality(Places(s, e)) \in Nat
           /\ Contains(s, e) => Cardinality(Places(s, e)) >= 1
  <1>1. IsFiniteSet(1..Len(s)) /\ Len(s) \in Nat /\ DOMAIN s = 1..Len(s)
    BY FS_Interval, LenProperties
  <1>2. IsFiniteSet(Places(s, e))
    BY <1>1, FS_Subset DEF Places
  <1>3. /\ Cardinality(Places(s, e)) \in Nat
        /\ Cardinality(Places(s, e)) = 0 <=> Places(s, e) = {}
    BY <1>2, FS_CardinalityType, FS_EmptySet
  <1>4. Contains(s, e) => Places(s, e) # {}
    BY <1>1 DEF Contains, Places
  <1> QED  BY <1>3, <1>4

(* While both ends live a client that waits has its message on its way,    *)
(* once, in one of the three places it can be.                             *)
THEOREM EchoesOnce == Spec => []EchoedOnce
  <1>1. ASSUME IndInv PROVE EchoedOnce
    <2> SUFFICES ASSUME server \notin Over, NEW c \in Clients, client[c] \in Connected
                 PROVE  LET due == IF client[c] = "await" THEN 1 ELSE 0
                        IN  IF c \in split THEN InFlight(c) >= due ELSE InFlight(c) = due
      BY DEF EchoedOnce
    <2> DEFINE U == Cardinality(Places(up[c], "text"))
               D == Cardinality(Places(down[c], "echo"))
               H == IF InHand(c) THEN 1 ELSE 0
    <2>1. ClientOK(c) /\ Running
      BY <1>1 DEF IndInv, Running
    <2>2. InFlight(c) = U + D + H /\ H \in {0, 1}
      BY DEF InFlight
    <2>3. /\ U \in Nat /\ (Contains(up[c], "text") => U >= 1)
          /\ D \in Nat /\ (Contains(down[c], "echo") => D >= 1)
      <3>1. /\ up[c] \in Seq(Message \cup {"fin", "rst"})
            /\ down[c] \in Seq({"welcome", "echo", "fin", "rst"})
        BY <1>1 DEF IndInv, TypeOK
      <3> QED  BY <3>1, PlacesCount
    <2>4. CASE c \in split
      <3>1. client[c] = "await" => InTransit(c)
        BY <2>1, <2>4 DEF ClientOK, ExchangeOK
      <3>2. client[c] = "await" => U >= 1 \/ D >= 1 \/ H = 1
        BY <2>3, <3>1 DEF InTransit
      <3> HIDE DEF U, D, H
      <3> QED  BY <2>2, <2>3, <2>4, <3>2
    <2>5. CASE c \notin split
      <3>1. Queued(c) \/ Served(c)
        BY <2>1, <2>5 DEF ClientOK, ExchangeOK
      <3>2. CASE Queued(c)
        <4>1. client[c] = "greet" /\ up[c] = <<>> /\ down[c] = <<>> /\ ~InHand(c)
          BY <2>1, <3>2 DEF ClientOK, Queued, WaitsOK, Untouched, InHand
        <4>2. U = 0 /\ D = 0 /\ H = 0
          BY <4>1, PlacesShort
        <4> QED  BY <2>2, <2>5, <4>1, <4>2
      <3>3. CASE Served(c) /\ client[c] # "await"
        <4>1. up[c] = <<>> /\ down[c] \in {<<>>, <<"welcome">>} /\ ~InHand(c)
          BY <3>3 DEF Served, InHand
        <4>2. U = 0 /\ D = 0 /\ H = 0
          BY <4>1, PlacesShort
        <4> QED  BY <2>2, <2>5, <3>3, <4>2
      <3>4. CASE Served(c) /\ client[c] = "await"
        <4>1. \/ ~InHand(c) /\ up[c] = <<"text">> /\ down[c] = <<>>
              \/ InHand(c) /\ up[c] = <<>> /\ down[c] = <<>>
              \/ ~InHand(c) /\ up[c] = <<>> /\ down[c] = <<"echo">>
          BY <3>4 DEF Served, InHand
        <4>2. \/ U = 1 /\ D = 0 /\ H = 0
              \/ U = 0 /\ D = 0 /\ H = 1
              \/ U = 0 /\ D = 1 /\ H = 0
          BY <4>1, PlacesShort
        <4> QED  BY <2>2, <2>5, <3>4, <4>2
      <3> QED  BY <3>1, <3>2, <3>3, <3>4
    <2> QED  BY <2>4, <2>5
  <1> QED  BY <1>1, Inductive, PTL

(* The server switches itself off because the user of the client it serves *)
(* has said so, because a block came in parts, or because that client was  *)
(* killed before any client has left.                                      *)
THEOREM OffOnlyWithCause == Spec => OffHasCause
  <1> DEFINE Cause == server' = "off" /\ server # "off" =>
                         \/ client[cur] = "quit"
                         \/ cur \in split
                         \/ client[cur] = "killed" /\ \A c \in Clients : client[c] # "left"
  <1>1. IndInv /\ [Next]_vars => [Cause]_vars
    <2> SUFFICES ASSUME IndInv, Next, server' = "off", server # "off"
                 PROVE  \/ client[cur] = "quit"
                        \/ cur \in split
                        \/ client[cur] = "killed" /\ \A c \in Clients : client[c] # "left"
      OBVIOUS
    <2>1. Shutdown
      <3>1. ASSUME NEW c \in Clients, Works(c) \/ User(c) \/ Crash(c) PROVE FALSE
        BY <3>1 DEF Works, User, Crash, Greet, Send, SendThrows, Reply, ReplyThrows, Connect,
                    ConnectThrows, Quit, Leave, Order, Goes
      <3>2. Server \/ Kill
        BY <3>1 DEF Next
      <3> QED
        BY <3>2 DEF Server, Kill, Boot, BootFails, Accept, AcceptThrows, Recv,
             RecvEndOfStream, RecvThrows, NextClient, Echo, EchoThrows, ServerEnds,
             ServerGoes, OtherClient
    <2>2. server = "judge" /\ buff = "empty"
      BY <2>1 DEF Shutdown
    <2>3. \/ client[cur] = "quit"
          \/ cur \in split
          \/ client[cur] = "killed" /\ Fresh
      BY <2>2 DEF IndInv, EmptyOK
    <2>4. client[cur] = "killed" /\ Fresh => \A c \in Clients : client[c] # "left"
      BY DEF Fresh, NotServed
    <2> QED  BY <2>3, <2>4
  <1> QED  BY <1>1, Inductive, PTL DEF Spec, OffHasCause

-----------------------------------------------------------------------------
(* The refinement.  Whoever is not queued and not served is "out".         *)
Phases == [c \in Clients |-> Phase(c)]

LEMMA OneMoves ==
    ASSUME NEW c \in Clients, NEW to,
           Phase(c)' = to, \A d \in Clients \ {c} : Phase(d)' = Phase(d)
    PROVE  Phases' = [Phases EXCEPT ![c] = to]
  BY DEF Phases

LEMMA PhasesLeave ==
    ASSUME \A d \in Clients : Phase(d)' \in {Phase(d), "out"}
    PROVE  [Service!EchoNext]_Phases
  <1> DEFINE S == {d \in Clients : Phase(d)' # Phase(d)}
  <1>1. \A d \in S : Phases[d] # "out"
    BY DEF Phases
  <1>2. Phases' = [d \in Clients |-> IF d \in S THEN "out" ELSE Phases[d]]
    BY DEF Phases
  <1>3. Service!Leave(S)
    BY <1>1, <1>2 DEF Service!Leave, Phases
  <1> QED  BY <1>3 DEF Service!EchoNext

(* Where an admitted client is in its exchange.                            *)
LEMMA PhaseOf ==
    ASSUME IndInv, NEW c \in Clients
    PROVE  /\ Admitted(c) => Served(c) /\ c \notin Range(backlog)
           /\ client[c] \notin Connected => Phase(c) = "out"
           /\ client[c] \in {"prompt", "send", "await"} /\ ~Admitted(c) => Phase(c) = "out"
           /\ Admitted(c) /\ down[c] \in {<<>>, <<"welcome">>} =>
                 Phase(c) = IF client[c] = "await" THEN "asked" ELSE "ready"
           /\ Admitted(c) /\ down[c] = <<"echo">> => Phase(c) = "answered"
  <1>1. ClientOK(c)
    BY DEF IndInv
  <1>2. ASSUME Admitted(c) PROVE Served(c) /\ c \notin Range(backlog)
    <2>1. Running /\ client[c] \in Connected /\ c \notin split /\ c = cur
      BY <1>2 DEF Admitted, Running, Over
    <2>2. c \notin Range(backlog)
      BY <1>1, <2>1 DEF ClientOK, WaitsOK, Untouched
    <2> QED  BY <1>1, <2>1, <2>2 DEF ClientOK, ExchangeOK, Queued
  <1>3. client[c] \notin Connected => Phase(c) = "out"
    BY DEF Phase, Admitted
  <1>4. client[c] \in {"prompt", "send", "await"} /\ ~Admitted(c) => Phase(c) = "out"
    BY <1>1 DEF ClientOK, WaitsOK, Phase
  <1>5. /\ ~Contains(<<>>, "echo") /\ ~Contains(<<"welcome">>, "echo")
        /\ Contains(<<"echo">>, "echo")
    BY ContainsShort
  <1> QED  BY <1>2, <1>3, <1>4, <1>5 DEF Phase

LEMMA ServerPhases ==
    ASSUME IndInv, Server \/ Kill PROVE [Service!EchoNext]_Phases
  <1>1. ASSUME NEW how \in Over, ServerEnds(how) PROVE [Service!EchoNext]_Phases
    <2>1. server' \notin {"recv", "judge"} /\ Range(backlog') = {}
      BY <1>1 DEF ServerEnds, ServerGoes, Over, Range
    <2>2. \A d \in Clients : Phase(d)' = "out"
      BY <2>1 DEF Phase, Admitted
    <2> QED  BY <2>2, PhasesLeave
  <1>2. CASE BootFails \/ AcceptThrows \/ RecvThrows \/ Shutdown \/ EchoThrows \/ Kill
    BY <1>1, <1>2 DEF BootFails, AcceptThrows, RecvThrows, Shutdown, EchoThrows, Kill, Over
  <1>3. CASE Boot
    <2>1. \A d \in Clients : Phase(d)' = Phase(d)
      BY <1>3 DEF Boot, ServerGoes, Phase, Admitted
    <2> QED  BY <2>1, PhasesLeave
  <1>4. CASE Accept
    <2>1. /\ server = "accept" /\ server' = "recv" /\ backlog # <<>>
          /\ cur' = Head(backlog) /\ backlog' = Tail(backlog)
          /\ down' = [down EXCEPT ![Head(backlog)] = Append(@, "welcome")]
          /\ UNCHANGED <<client, left, buff, up, split>>
      BY <1>4 DEF Accept, ServerGoes, KeptBuffer
    <2>2. /\ Head(backlog) \in Clients /\ Head(backlog) \in Range(backlog)
          /\ \A d : d \in Range(Tail(backlog)) <=> d \in Range(backlog) /\ d # Head(backlog)
      BY <2>1, QueueTail DEF IndInv
    <2>3. PICK a \in Clients : a = Head(backlog)
      BY <2>2
    <2>4. /\ cur' = a /\ a \in Range(backlog)
          /\ \A d : d \in Range(backlog') <=> d \in Range(backlog) /\ d # a
      BY <2>1, <2>2, <2>3
    <2>5. \A d \in Clients \ {a} : down'[d] = down[d]
      BY <2>1, <2>3 DEF IndInv, TypeOK
    <2>6. \A d \in Clients \ {a} : Phase(d)' = Phase(d)
      BY <2>1, <2>4, <2>5 DEF Phase, Admitted
    <2>7. CASE client[a] \notin Connected
      <3>1. Phase(a)' = "out"
        BY <2>1, <2>7 DEF Phase, Admitted
      <3> QED  BY <2>6, <3>1, PhasesLeave
    <2>8. CASE client[a] \in Connected
      <3>1. /\ client[a] = "greet" /\ down[a] = <<>> /\ a \notin split
        BY <2>4, <2>8 DEF IndInv, ClientOK, WaitsOK, Untouched, Connected
      <3>2. down'[a] = <<"welcome">> /\ ~Contains(<<"welcome">>, "echo")
        <4>1. Append(<<>>, "welcome") = <<"welcome">>
          BY ShortSeqs
        <4>2. ~Contains(<<"welcome">>, "echo")
          BY ContainsShort
        <4> QED  BY <2>1, <2>3, <3>1, <4>1, <4>2 DEF IndInv, TypeOK
      <3>3. Phase(a) = "queued" /\ Phase(a)' = "ready"
        BY <2>1, <2>4, <2>8, <3>1, <3>2 DEF Phase, Admitted
      <3>4. /\ Phases[a] = "queued"
            /\ {d \in Clients : Phases[d] \in {"ready", "asked", "answered"}} = {}
        <4>1. \A d \in Clients : Phase(d) \in {"queued", "out"}
          BY <2>1 DEF Phase, Admitted
        <4> QED  BY <3>3, <4>1 DEF Phases
      <3>5. Service!Admit(a)
        BY <2>6, <3>3, <3>4, OneMoves
           DEF Service!Admit, Service!Admitted, Service!Goes, Phases
      <3> QED  BY <3>5 DEF Service!EchoNext
    <2> QED  BY <2>7, <2>8
  <1>5. CASE Recv
    <2>1. \/ UNCHANGED split
          \/ split' = split \cup {cur}
      BY <1>5 DEF Recv, MayComeInParts
    <2>2. \A d \in Clients : Phase(d)' \in {Phase(d), "out"}
      BY <1>5, <2>1, PhaseOf DEF Recv, ServerGoes, Phase, Admitted
    <2> QED  BY <2>2, PhasesLeave
  <1>6. CASE RecvEndOfStream
    <2>1. \A d \in Clients : Phase(d)' = Phase(d)
      BY <1>6 DEF RecvEndOfStream, ServerGoes, Phase, Admitted
    <2> QED  BY <2>1, PhasesLeave
  <1>7. CASE NextClient
    <2>1. \A d \in Clients : Phase(d)' \in {Phase(d), "out"}
      BY <1>7 DEF NextClient, ServerGoes, OtherClient, Phase, Admitted
    <2> QED  BY <2>1, PhasesLeave
  <1>8. CASE Echo
    <2>1. /\ server = "judge" /\ server' = "recv" /\ Serving
          /\ UNCHANGED <<client, left, backlog, cur, buff, split>>
          /\ \/ UNCHANGED down
             \/ /\ down' = [down EXCEPT ![cur] = @ \o <<"echo">>]
      BY <1>8 DEF Echo, ServerGoes, Echoed, Serving
    <2>2. PICK a \in Clients : a = cur
      BY <2>1, ServedIs
    <2>3. \A d \in Clients \ {a} : Phase(d)' = Phase(d)
      <3>1. \A d \in Clients \ {a} : down'[d] = down[d]
        BY <2>1, <2>2 DEF IndInv, TypeOK
      <3> QED  BY <2>1, <2>2, <3>1 DEF Phase, Admitted
    <2>4. CASE ~Admitted(a)
      <3>1. a \notin Range(backlog)
        BY <2>1, <2>2, ServedIs
      <3>2. Phase(a)' = "out"
        BY <2>1, <2>4, <3>1 DEF Phase, Admitted
      <3> QED  BY <2>3, <3>2, PhasesLeave
    <2>5. CASE Admitted(a)
      <3>1. Served(a) /\ a \notin Range(backlog)
        BY <2>5, PhaseOf
      <3>2. client[a] = "await" /\ up[a] = <<>> /\ down[a] = <<>>
        BY <2>1, <3>1 DEF Served
      <3>3. Phase(a) = "asked"
        BY <2>5, <3>2, PhaseOf
      <3>4. down'[a] = <<"echo">>
        <4>1. down' = [down EXCEPT ![a] = @ \o <<"echo">>]
          <5>1. ~Contains(up[a], "fin")
            BY <3>2, ContainsShort
          <5> QED  BY <1>8, <2>2, <5>1 DEF Echo, Echoed
        <4>2. <<>> \o <<"echo">> = <<"echo">>
          BY ConcatEmptySeq, ShortSeqs
        <4> QED  BY <3>2, <4>1, <4>2 DEF IndInv, TypeOK
      <3>5. Contains(<<"echo">>, "echo")
        BY ContainsShort
      <3>6. Phase(a)' = "answered"
        BY <2>1, <2>5, <3>1, <3>4, <3>5 DEF Phase, Admitted
      <3>7. Service!Answer(a)
        BY <2>3, <3>3, <3>6, OneMoves DEF Service!Answer, Service!Goes, Phases
      <3> QED  BY <3>7 DEF Service!EchoNext
    <2> QED  BY <2>4, <2>5
  <1> QED  BY <1>2, <1>3, <1>4, <1>5, <1>6, <1>7, <1>8 DEF Server

(* A step of a client is no step of the others in the service.             *)
LEMMA OthersPhases ==
    ASSUME NEW c \in Clients, UNCHANGED <<server, cur>>,
           \A d \in Clients \ {c} :
              /\ client'[d] = client[d] /\ down'[d] = down[d]
              /\ d \in split' <=> d \in split
              /\ d \in Range(backlog') <=> d \in Range(backlog)
    PROVE  \A d \in Clients \ {c} : Phase(d)' = Phase(d)
  BY DEF Phase, Admitted

LEMMA ClientPhases ==
    ASSUME IndInv, NEW c \in Clients, Works(c) \/ User(c) \/ Crash(c)
    PROVE  [Service!EchoNext]_Phases
  <1>1. /\ client \in [Clients -> Connected \cup
                          {"idle", "quit", "left", "killed", "dead", "refused"}]
        /\ down \in [Clients -> Seq({"welcome", "echo", "fin", "rst"})]
        /\ ClientOK(c)
    BY DEF IndInv, TypeOK
  <1>2. CASE Connect(c)
    <2>1. /\ client[c] = "idle" /\ client' = [client EXCEPT ![c] = "greet"]
          /\ backlog' = Append(backlog, c)
          /\ UNCHANGED <<server, cur, down, split>>
      BY <1>2 DEF Connect, Goes
    <2>2. c \notin Range(backlog)
      BY <1>1, <2>1 DEF ClientOK, WaitsOK
    <2>3. \A d : d \in Range(Append(backlog, c)) <=> d \in Range(backlog) \/ d = c
      BY <2>2, QueueAppend DEF IndInv
    <2>4. \A d : d \in Range(backlog') <=> d \in Range(backlog) \/ d = c
      BY <2>1, <2>3
    <2>5. \A d \in Clients \ {c} :
             /\ client'[d] = client[d] /\ down'[d] = down[d]
             /\ d \in split' <=> d \in split
             /\ d \in Range(backlog') <=> d \in Range(backlog)
      BY <1>1, <2>1, <2>4
    <2>6. \A d \in Clients \ {c} : Phase(d)' = Phase(d)
      BY <2>1, <2>5, OthersPhases
    <2>7. Phase(c) = "out" /\ Phase(c)' = "queued"
      <3>1. client'[c] = "greet"
        BY <1>1, <2>1
      <3> QED  BY <2>1, <2>4, <3>1 DEF Phase, Admitted, Connected
    <2>8. Service!Join(c)
      BY <2>6, <2>7, OneMoves DEF Service!Join, Service!Goes, Phases
    <2> QED  BY <2>8 DEF Service!EchoNext
  <1>3. ASSUME NEW to, client' = [client EXCEPT ![c] = to],
               UNCHANGED <<server, cur, backlog>>,
               \A d \in Clients \ {c} : down'[d] = down[d] /\ (d \in split' <=> d \in split)
        PROVE  /\ client'[c] = to
               /\ \A d \in Clients \ {c} : Phase(d)' = Phase(d)
    <2>1. client'[c] = to /\ \A d \in Clients \ {c} : client'[d] = client[d]
      BY <1>1, <1>3
    <2>2. \A d \in Clients \ {c} :
             /\ client'[d] = client[d] /\ down'[d] = down[d]
             /\ d \in split' <=> d \in split
             /\ d \in Range(backlog') <=> d \in Range(backlog)
      BY <1>3, <2>1
    <2> QED  BY <1>3, <2>1, <2>2, OthersPhases
  <1>4. CASE ConnectThrows(c) \/ Quit(c) \/ Leave(c) \/ Crash(c) \/ SendThrows(c) \/ ReplyThrows(c)
    <2>1. PICK to \in {"refused", "quit", "left", "killed", "dead"} :
             client' = [client EXCEPT ![c] = to]
      BY <1>4 DEF ConnectThrows, Quit, Leave, Crash, SendThrows, ReplyThrows, Goes
    <2>2. UNCHANGED <<server, cur, backlog, down, split>>
      BY <1>4 DEF ConnectThrows, Quit, Leave, Crash, SendThrows, ReplyThrows, Goes, EndOf
    <2>3. client'[c] = to /\ \A d \in Clients \ {c} : Phase(d)' = Phase(d)
      BY <1>3, <2>1, <2>2
    <2>4. Phase(c)' = "out"
      BY <2>3 DEF Phase, Admitted, Connected
    <2> QED  BY <2>3, <2>4, PhasesLeave
  <1>5. CASE Order(c)
    <2>1. /\ client[c] = "prompt" /\ client' = [client EXCEPT ![c] = "send"]
          /\ UNCHANGED <<server, cur, backlog, down, split>>
      BY <1>5 DEF Order, Goes
    <2>2. client'[c] = "send" /\ \A d \in Clients \ {c} : Phase(d)' = Phase(d)
      BY <1>3, <2>1
    <2>3. Phase(c)' = Phase(c)
      BY <2>1, <2>2 DEF Phase, Admitted, Connected
    <2> QED  BY <2>2, <2>3, PhasesLeave
  <1>6. CASE Greet(c)
    <2>1. /\ client[c] = "greet" /\ client' = [client EXCEPT ![c] = "prompt"]
          /\ down[c] # <<>> /\ UNCHANGED <<server, cur, backlog>>
          /\ \/ /\ down' = [down EXCEPT ![c] = IF Head(@) = "welcome" THEN Tail(@) ELSE @]
                /\ UNCHANGED split
             \/ /\ split' = split \cup {c}
                /\ down' = [down EXCEPT ![c] = <<"echo">> \o Tail(@)]
      BY <1>6 DEF Greet, Goes, MayComeInParts
    <2>2. \A d \in Clients \ {c} : down'[d] = down[d] /\ (d \in split' <=> d \in split)
      BY <1>1, <2>1
    <2>3. client'[c] = "prompt" /\ \A d \in Clients \ {c} : Phase(d)' = Phase(d)
      BY <1>3, <2>1, <2>2
    <2>4. c \notin Range(backlog)
      BY <1>1, <2>1 DEF ClientOK, WaitsOK, Untouched
    <2>5. CASE ~Admitted(c) \/ c \in split'
      <3>1. ~Admitted(c)'
        BY <2>1, <2>5 DEF Admitted, Connected
      <3>2. Phase(c)' = "out"
        BY <2>1, <2>4, <3>1 DEF Phase
      <3> QED  BY <2>3, <3>2, PhasesLeave
    <2>6. CASE Admitted(c) /\ c \notin split'
      <3>1. down[c] = <<"welcome">>
        BY <2>1, <2>6, PhaseOf DEF Served
      <3>2. Phase(c) = "ready"
        BY <2>1, <2>6, <3>1, PhaseOf
      <3>3. Head(<<"welcome">>) = "welcome" /\ Tail(<<"welcome">>) = <<>>
        BY ShortSeqs
      <3>4. down'[c] = <<>>
        BY <1>1, <2>1, <2>6, <3>1, <3>3
      <3>5. ~Contains(<<>>, "echo")
        BY ContainsShort
      <3>6. Phase(c)' = "ready"
        BY <2>1, <2>3, <2>4, <2>6, <3>4, <3>5 DEF Phase, Admitted, Connected
      <3> QED  BY <2>3, <3>2, <3>6, PhasesLeave
    <2> QED  BY <2>5, <2>6
  <1>7. CASE Send(c)
    <2>1. /\ client[c] = "send" /\ client' = [client EXCEPT ![c] = "await"]
          /\ UNCHANGED <<server, cur, backlog, split>>
          /\ \/ UNCHANGED down
             \/ Contains(down[c], "fin") /\ down' = [down EXCEPT ![c] = <<"rst">>]
      BY <1>7 DEF Send, Goes
    <2>2. \A d \in Clients \ {c} : down'[d] = down[d] /\ (d \in split' <=> d \in split)
      BY <1>1, <2>1
    <2>3. client'[c] = "await" /\ \A d \in Clients \ {c} : Phase(d)' = Phase(d)
      BY <1>3, <2>1, <2>2
    <2>4. c \notin Range(backlog)
      BY <2>1, Greeted
    <2>5. CASE ~Admitted(c)
      <3>1. Phase(c)' = "out"
        BY <2>1, <2>3, <2>4, <2>5 DEF Phase, Admitted, Connected
      <3> QED  BY <2>3, <3>1, PhasesLeave
    <2>6. CASE Admitted(c)
      <3>1. down[c] = <<>>
        BY <2>1, <2>6, PhaseOf DEF Served
      <3>2. Phase(c) = "ready"
        BY <2>1, <2>6, <3>1, PhaseOf
      <3>3. ~Contains(<<>>, "fin") /\ ~Contains(<<>>, "echo")
        BY ContainsShort
      <3>4. down'[c] = <<>>
        BY <2>1, <3>1, <3>3
      <3>5. Phase(c)' = "asked"
        BY <2>1, <2>3, <2>4, <2>6, <3>3, <3>4 DEF Phase, Admitted, Connected
      <3>6. Service!Ask(c)
        BY <2>3, <3>2, <3>5, OneMoves DEF Service!Ask, Service!Goes, Phases
      <3> QED  BY <3>6 DEF Service!EchoNext
    <2> QED  BY <2>5, <2>6
  <1>8. CASE Reply(c)
    <2>1. PICK to \in {"send", "prompt"} : client' = [client EXCEPT ![c] = to]
      BY <1>8 DEF Reply, Goes
    <2>2. /\ client[c] = "await" /\ down[c] # <<>>
          /\ UNCHANGED <<server, cur, backlog>>
          /\ \/ /\ down' = [down EXCEPT ![c] = IF Head(@) = "fin" THEN <<"rst">> ELSE Tail(@)]
                /\ UNCHANGED split
             \/ split' = split \cup {c} /\ UNCHANGED down
      BY <1>8 DEF Reply, Goes, MayComeInParts
    <2>3. \A d \in Clients \ {c} : down'[d] = down[d] /\ (d \in split' <=> d \in split)
      BY <1>1, <2>2
    <2>4. client'[c] = to /\ \A d \in Clients \ {c} : Phase(d)' = Phase(d)
      BY <1>3, <2>1, <2>2, <2>3
    <2>5. c \notin Range(backlog)
      BY <2>2, Greeted
    <2>6. CASE ~Admitted(c) \/ c \in split'
      <3>1. ~Admitted(c)'
        BY <2>2, <2>6 DEF Admitted, Connected
      <3>2. Phase(c)' = "out"
        BY <2>2, <2>5, <3>1 DEF Phase
      <3> QED  BY <2>4, <3>2, PhasesLeave
    <2>7. CASE Admitted(c) /\ c \notin split'
      <3>1. down[c] = <<"echo">>
        BY <2>2, <2>7, PhaseOf DEF Served
      <3>2. Phase(c) = "answered"
        BY <2>7, <3>1, PhaseOf
      <3>3. Head(<<"echo">>) = "echo" /\ Tail(<<"echo">>) = <<>>
        BY ShortSeqs
      <3>4. down'[c] = <<>>
        BY <1>1, <2>2, <2>7, <3>1, <3>3
      <3>5. ~Contains(<<>>, "echo")
        BY ContainsShort
      <3>6. Phase(c)' = "ready"
        BY <2>2, <2>4, <2>5, <2>7, <3>4, <3>5 DEF Phase, Admitted, Connected
      <3>7. Service!Receive(c)
        BY <2>4, <3>2, <3>6, OneMoves DEF Service!Receive, Service!Goes, Phases
      <3> QED  BY <3>7 DEF Service!EchoNext
    <2> QED  BY <2>6, <2>7
  <1> QED
    BY <1>2, <1>4, <1>5, <1>6, <1>7, <1>8 DEF Works, User

(* The programs of lab2 implement the echo service, for every client until *)
(* a block of its own comes in parts.                                      *)
THEOREM ImplementsEcho == Spec => ImplementsService
  <1>1. Init => Service!EchoInit
    BY DEF Init, Service!EchoInit, Phase, Admitted, Connected
  <1>2. IndInv /\ [Next]_vars => [Service!EchoNext]_Phases
    <2> SUFFICES ASSUME IndInv, [Next]_vars PROVE [Service!EchoNext]_Phases
      OBVIOUS
    <2>1. CASE UNCHANGED vars
      <3>1. \A d \in Clients : Phase(d)' = Phase(d)
        BY <2>1 DEF vars, Phase, Admitted
      <3> QED  BY <3>1, PhasesLeave
    <2> QED  BY <2>1, ServerPhases, ClientPhases DEF Next
  <1> QED
    BY <1>1, <1>2, Inductive, PTL
       DEF Spec, ImplementsService, Service!EchoSpec, Phases

-----------------------------------------------------------------------------
(* What the echo service promises, of the servers that implement it.       *)
LEMMA EchoInvInit == Service!EchoInit => Service!EchoTypeOK /\ Service!OneAtATime
  BY DEF Service!EchoInit, Service!EchoTypeOK, Service!OneAtATime, Service!Admitted

LEMMA EchoInvStep ==
    Service!EchoTypeOK /\ Service!OneAtATime /\ [Service!EchoNext]_Phases
      => (Service!EchoTypeOK /\ Service!OneAtATime)'
  <1> SUFFICES ASSUME Service!EchoTypeOK, Service!OneAtATime, [Service!EchoNext]_Phases
               PROVE  (Service!EchoTypeOK /\ Service!OneAtATime)'
    OBVIOUS
  <1> USE DEF Service!EchoTypeOK, Service!OneAtATime, Service!Admitted, Phases
  <1>1. ASSUME NEW c \in Clients, Service!Join(c)
        PROVE  (Service!EchoTypeOK /\ Service!OneAtATime)'
    BY <1>1 DEF Service!Join, Service!Goes
  <1>2. ASSUME NEW c \in Clients, Service!Admit(c)
        PROVE  (Service!EchoTypeOK /\ Service!OneAtATime)'
    BY <1>2 DEF Service!Admit, Service!Goes
  <1>3. ASSUME NEW c \in Clients, Service!Ask(c) \/ Service!Answer(c) \/ Service!Receive(c)
        PROVE  (Service!EchoTypeOK /\ Service!OneAtATime)'
    BY <1>3 DEF Service!Ask, Service!Answer, Service!Receive, Service!Goes
  <1>4. ASSUME NEW S \in SUBSET Clients, Service!Leave(S)
        PROVE  (Service!EchoTypeOK /\ Service!OneAtATime)'
    BY <1>4 DEF Service!Leave
  <1>5. CASE UNCHANGED Phases
    BY <1>5
  <1> QED  BY <1>1, <1>2, <1>3, <1>4, <1>5 DEF Service!EchoNext

(* A server that implements the service talks to one client at a time.     *)
THEOREM ServesOneAtATime ==
    ImplementsService => [](Service!EchoTypeOK /\ Service!OneAtATime)
  BY EchoInvInit, EchoInvStep, PTL DEF ImplementsService, Service!EchoSpec, Phases

Conversing == {c \in Clients \ split : client[c] \in {"prompt", "send", "await"}}

(* While ServerT runs, the clients that have been greeted and have not     *)
(* said good-bye, and whose blocks come whole, are one at most.            *)
THEOREM OneConversation ==
    Spec => [](server \notin Over => \A c, d \in Conversing : c = d)
  <1>1. IndInv => (server \notin Over => \A c, d \in Conversing : c = d)
    <2> SUFFICES ASSUME IndInv, Running, NEW c \in Conversing, NEW d \in Conversing
                 PROVE  c = d
      BY DEF Running
    <2>1. Served(c) /\ Served(d)
      BY Greeted DEF Conversing
    <2> QED  BY <2>1 DEF Served
  <1> QED  BY <1>1, Inductive, PTL

-----------------------------------------------------------------------------
(* Nobody waits for a server that has forgotten him: as long as a client   *)
(* is connected it is in the queue, it is the one being served, or the end *)
(* of its connection stands in what it has still to receive.               *)
Told(c) == Contains(down[c], "fin") \/ Contains(down[c], "rst")

Minded(c) == c \in Range(backlog) \/ (c = cur /\ Serving)

NobodyForgotten == \A c \in Clients : client[c] \in Connected => Minded(c) \/ Told(c)

LEMMA ServerMinds ==
    ASSUME IndInv, NobodyForgotten, Server \/ Kill PROVE NobodyForgotten'
  <1> DEFINE F == {"welcome", "echo", "fin", "rst"}
  <1>1. down \in [Clients -> Seq(F)] /\ UNCHANGED client
    <2>1. down \in [Clients -> Seq(F)]
      BY DEF IndInv, TypeOK
    <2>2. UNCHANGED client
      BY DEF Server, Kill, Boot, BootFails, Accept, AcceptThrows, Recv, RecvEndOfStream,
             RecvThrows, Shutdown, NextClient, Echo, EchoThrows, ServerEnds, ServerGoes
    <2> QED  BY <2>1, <2>2
  <1>2. ASSUME NEW d \in Clients, NEW x \in F
        PROVE  /\ Contains(Append(down[d], x), x)
               /\ \A e : Contains(down[d], e) => Contains(Append(down[d], x), e)
    BY <1>1, ContainsAppend
  <1> SUFFICES ASSUME NEW d \in Clients, client[d] \in Connected
               PROVE  Minded(d)' \/ Told(d)'
    BY <1>1 DEF NobodyForgotten
  <1>3. Minded(d) \/ Told(d)
    BY DEF NobodyForgotten
  <1>4. ASSUME NEW how \in Over, ServerEnds(how) PROVE Told(d)'
    <2>1. PICK end \in [Clients -> {"fin", "rst"}] :
             down' = [c \in Clients |->
                        IF c = cur \/ c \in Range(backlog)
                          THEN Append(down[c], end[c]) ELSE down[c]]
      BY <1>4 DEF ServerEnds
    <2>2. end[d] \in F /\ end[d] \in {"fin", "rst"}
      OBVIOUS
    <2>3. CASE d = cur \/ d \in Range(backlog)
      <3>1. down'[d] = Append(down[d], end[d]) /\ Contains(Append(down[d], end[d]), end[d])
        BY <1>2, <2>1, <2>2, <2>3
      <3> QED  BY <2>2, <3>1 DEF Told
    <2>4. CASE ~(d = cur \/ d \in Range(backlog))
      <3>1. down'[d] = down[d]
        BY <2>1, <2>4
      <3> QED  BY <1>3, <2>4, <3>1 DEF Minded, Told
    <2> QED  BY <2>3, <2>4
  <1>5. CASE BootFails \/ AcceptThrows \/ RecvThrows \/ Shutdown \/ EchoThrows \/ Kill
    BY <1>4, <1>5 DEF BootFails, AcceptThrows, RecvThrows, Shutdown, EchoThrows, Kill, Over
  <1>6. CASE Boot \/ Recv \/ RecvEndOfStream
    BY <1>3, <1>6 DEF Boot, Recv, RecvEndOfStream, ServerGoes, Minded, Told, Serving
  <1>7. CASE Accept
    <2>1. /\ server = "accept" /\ server' = "recv" /\ backlog # <<>>
          /\ cur' = Head(backlog) /\ backlog' = Tail(backlog)
          /\ down' = [down EXCEPT ![Head(backlog)] = Append(@, "welcome")]
      BY <1>7 DEF Accept, ServerGoes
    <2>2. \A c : c \in Range(Tail(backlog)) <=> c \in Range(backlog) /\ c # Head(backlog)
      BY <2>1, QueueTail DEF IndInv
    <2>3. down'[d] = down[d] \/ down'[d] = Append(down[d], "welcome")
      BY <1>1, <2>1
    <2>4. Told(d) => Told(d)'
      <3>1. \A e : Contains(down[d], e) => Contains(Append(down[d], "welcome"), e)
        BY <1>2
      <3> QED  BY <2>3, <3>1 DEF Told
    <2>5. Minded(d) => Minded(d)'
      BY <2>1, <2>2 DEF Minded, Serving
    <2> QED  BY <1>3, <2>4, <2>5
  <1>8. CASE NextClient
    <2>1. PICK end \in {"fin", "rst"} :
             /\ down' = [down EXCEPT ![cur] = Append(@, end)]
             /\ UNCHANGED <<backlog, cur>>
      BY <1>8 DEF NextClient
    <2>2. CASE d = cur
      <3>1. down'[d] = Append(down[d], end) /\ Contains(Append(down[d], end), end)
        BY <1>1, <1>2, <2>1, <2>2
      <3> QED  BY <3>1 DEF Told
    <2>3. CASE d # cur
      <3>1. down'[d] = down[d]
        BY <1>1, <2>1, <2>3
      <3> QED  BY <1>3, <2>1, <2>3, <3>1 DEF Minded, Told
    <2> QED  BY <2>2, <2>3
  <1>9. CASE Echo
    <2>1. /\ server' = "recv" /\ UNCHANGED <<backlog, cur>>
          /\ UNCHANGED down \/ down' = [down EXCEPT ![cur] = @ \o <<"echo">>]
      BY <1>9 DEF Echo, ServerGoes, Echoed
    <2>2. Minded(d) => Minded(d)'
      BY <2>1 DEF Minded, Serving
    <2>3. Told(d) => Told(d)'
      <3>1. down'[d] = down[d] \/ down'[d] = down[d] \o <<"echo">>
        BY <1>1, <2>1
      <3>2. Append(down[d], "echo") = down[d] \o <<"echo">>
        BY <1>1, AppendIsConcat
      <3>3. \A e : Contains(down[d], e) => Contains(Append(down[d], "echo"), e)
        BY <1>2
      <3> QED  BY <3>1, <3>2, <3>3 DEF Told
    <2> QED  BY <1>3, <2>2, <2>3
  <1> QED  BY <1>5, <1>6, <1>7, <1>8, <1>9 DEF Server

LEMMA ClientMinds ==
    ASSUME IndInv, NobodyForgotten, NEW c \in Clients, Works(c) \/ User(c) \/ Crash(c)
    PROVE  NobodyForgotten'
  <1> DEFINE F == {"welcome", "echo", "fin", "rst"}
  <1>1. down \in [Clients -> Seq(F)] /\ client \in [Clients -> Connected \cup
                          {"idle", "quit", "left", "killed", "dead", "refused"}]
    BY DEF IndInv, TypeOK
  <1>2. /\ UNCHANGED <<server, cur>>
        /\ \A d \in Clients \ {c} : client'[d] = client[d] /\ down'[d] = down[d]
    BY <1>1 DEF Works, User, Crash, Greet, Send, SendThrows, Reply, ReplyThrows, Connect,
       ConnectThrows, Quit, Leave, Order, Goes, EndOf
  <1>3. \A d \in Clients : d \in Range(backlog) => d \in Range(backlog')
    <2>1. CASE Connect(c)
      <3>1. c \notin Range(backlog) /\ backlog' = Append(backlog, c)
        BY <2>1 DEF IndInv, ClientOK, WaitsOK, Connect, Goes
      <3>2. \A d : d \in Range(Append(backlog, c)) <=> d \in Range(backlog) \/ d = c
        BY <3>1, QueueAppend DEF IndInv
      <3> QED  BY <3>1, <3>2
    <2>2. CASE ~Connect(c)
      BY <2>2 DEF Works, User, Crash, Greet, Send, SendThrows, Reply, ReplyThrows,
         ConnectThrows, Quit, Leave, Order, EndOf
    <2> QED  BY <2>1, <2>2
  <1>4. ASSUME client'[c] \in Connected
        PROVE  \/ c \in Range(backlog')
               \/ client[c] \in Connected /\ (Told(c) => Told(c)')
    <2>1. CASE Connect(c)
      <3>1. c \notin Range(backlog) /\ backlog' = Append(backlog, c)
        BY <2>1 DEF IndInv, ClientOK, WaitsOK, Connect, Goes
      <3>2. \A d : d \in Range(Append(backlog, c)) <=> d \in Range(backlog) \/ d = c
        BY <3>1, QueueAppend DEF IndInv
      <3> QED  BY <3>1, <3>2
    <2>2. ASSUME NEW to \in {"quit", "left", "killed", "dead", "refused"},
                 client' = [client EXCEPT ![c] = to]
          PROVE  FALSE
      BY <1>1, <1>4, <2>2 DEF Connected
    <2>3. CASE Order(c)
      BY <2>3 DEF Order, Goes, Connected, Told
    <2>4. CASE Send(c)
      <3>1. down'[c] = down[c] \/ down'[c] = <<"rst">>
        BY <1>1, <2>4 DEF Send
      <3>2. Contains(<<"rst">>, "rst")
        BY ContainsShort
      <3> QED  BY <2>4, <3>1, <3>2 DEF Send, Goes, Connected, Told
    <2>5. ASSUME down[c] # <<>>
          PROVE  /\ Tail(down[c]) \in Seq(F)
                 /\ \A e : Contains(down[c], e) => e = Head(down[c]) \/ Contains(Tail(down[c]), e)
      BY <1>1, <2>5, ContainsTail
    <2>6. CASE Greet(c)
      <3>1. /\ client[c] \in Connected /\ down[c] # <<>>
            /\ \/ Head(down[c]) = "welcome" /\ down'[c] = Tail(down[c])
               \/ down'[c] = down[c]
               \/ Head(down[c]) = "welcome" /\ down'[c] = <<"echo">> \o Tail(down[c])
        BY <1>1, <2>6 DEF Greet, Goes, Connected
      <3>2. \A e : Contains(Tail(down[c]), e) => Contains(<<"echo">> \o Tail(down[c]), e)
        <4>1. <<"echo">> \in Seq(F) /\ Tail(down[c]) \in Seq(F)
          BY <2>5, <3>1
        <4> HIDE DEF F
        <4> QED  BY <4>1, ContainsConcat
      <3>3. "fin" # "welcome" /\ "rst" # "welcome"
        OBVIOUS
      <3> QED  BY <2>5, <3>1, <3>2, <3>3 DEF Told
    <2>7. CASE Reply(c)
      <3>1. /\ client[c] \in Connected /\ down[c] # <<>> /\ Head(down[c]) # "rst"
            /\ \/ Head(down[c]) = "fin" /\ down'[c] = <<"rst">>
               \/ Head(down[c]) # "fin" /\ down'[c] = Tail(down[c])
               \/ down'[c] = down[c]
        BY <1>1, <2>7 DEF Reply, Goes, Connected
      <3>2. Contains(<<"rst">>, "rst")
        BY ContainsShort
      <3> QED  BY <2>5, <3>1, <3>2 DEF Told
    <2> QED
      BY <2>1, <2>2, <2>3, <2>4, <2>6, <2>7
      DEF Works, User, Crash, Quit, Leave, SendThrows, ReplyThrows, ConnectThrows, Goes
  <1> SUFFICES ASSUME NEW d \in Clients, client'[d] \in Connected
               PROVE  Minded(d)' \/ Told(d)'
    BY DEF NobodyForgotten
  <1>5. CASE d = c
    BY <1>2, <1>3, <1>4, <1>5 DEF NobodyForgotten, Minded, Serving
  <1>6. CASE d # c
    BY <1>2, <1>3, <1>6 DEF NobodyForgotten, Minded, Told, Serving
  <1> QED  BY <1>5, <1>6

(* In every state a connected client is in the queue, is being served, or  *)
(* can read the end of its connection: QueueMoves and OrderEnds rest on it. *)
THEOREM NeverForgotten == Spec => []NobodyForgotten
  <1>1. Init => NobodyForgotten
    BY DEF Init, NobodyForgotten, Connected
  <1>2. IndInv /\ NobodyForgotten /\ [Next]_vars => NobodyForgotten'
    <2> SUFFICES ASSUME IndInv, NobodyForgotten, [Next]_vars PROVE NobodyForgotten'
      OBVIOUS
    <2>1. CASE UNCHANGED vars
      BY <2>1 DEF vars, NobodyForgotten, Minded, Told, Serving
    <2> QED  BY <2>1, ServerMinds, ClientMinds DEF Next
  <1> QED  BY <1>1, <1>2, Inductive, PTL DEF Spec

=============================================================================
