--------------------------- MODULE UdpEchoProofs ---------------------------
(***************************************************************************)
(* lab3, for any number of clients and any receive buffer: a client has at *)
(* most one datagram under way, the programs implement the lossy echo      *)
(* service, and a datagram the server has received is lost only with it.   *)
(***************************************************************************)
EXTENDS UdpEcho, FiniteSetTheorems, SequenceTheorems, TLAPS

(* Nothing of c's is in the buffer, in the server's hand, or with c.       *)
Quiet(c) == Inbound(c) = {} /\ mail[c] = <<>> /\ ~InHand(c)

(* Something of c's is in one place at most.                               *)
InOnePlace(c) ==
    /\ \A m, n \in Inbound(c) : m = n
    /\ Inbound(c) # {} => mail[c] = <<>> /\ ~InHand(c)
    /\ InHand(c) => mail[c] = <<>>
    /\ Len(mail[c]) <= 1

(* All that is under way to or from c belongs to a message.                *)
IsText(c) ==
    /\ \A n \in Inbound(c) : inbox[n].what = "text"
    /\ InHand(c) => msg.what = "text"
    /\ \A n \in DOMAIN mail[c] : mail[c][n] \in {"text", "unreach"}

PendingOK ==
    \A c \in Clients :
        /\ client[c] \in {"idle", "prompt", "send"} => Quiet(c)
        /\ client[c] \in {"greet", "await"} => InOnePlace(c)
        /\ client[c] = "await" => IsText(c)

LeftOK == \A c \in Clients : client[c] \in {"send", "await"} => left[c] > 0

(* The empty datagram is never answered.                                   *)
HandOK == server = "echo" => msg \in Datagram

IndInv == TypeOK /\ PendingOK /\ LeftOK /\ HandOK

-----------------------------------------------------------------------------
(* The places of the buffer.                                               *)
LEMMA InboxPlaces ==
    ASSUME TypeOK
    PROVE  /\ inbox \in Seq(Datagram \cup {Empty})
           /\ Len(inbox) \in Nat /\ DOMAIN inbox = 1..Len(inbox)
           /\ \A n \in 1..Len(inbox) : inbox[n] \in Datagram \cup {Empty}
           /\ \A c \in Clients : Inbound(c) \subseteq 1..Len(inbox)
  <1>1. inbox \in Seq(Datagram \cup {Empty})
    BY DEF TypeOK
  <1> QED  BY <1>1, LenProperties, ElementOfSeq DEF Inbound

LEMMA EmptyIsNobodys ==
    ASSUME NEW c \in Clients PROVE Empty.from # c /\ Empty \notin Datagram
  BY UdpAssumption DEF Empty, Datagram

(* An arrival takes the next place, and leaves the others.                 *)
LEMMA AppendPlaces ==
    ASSUME TypeOK, NEW d \in Datagram \cup {Empty}, inbox' = Append(inbox, d)
    PROVE  /\ inbox' \in Seq(Datagram \cup {Empty})
           /\ Len(inbox') = Len(inbox) + 1
           /\ inbox'[Len(inbox) + 1] = d
           /\ \A n \in 1..Len(inbox) : inbox'[n] = inbox[n]
           /\ \A c \in Clients :
                 Inbound(c)' = IF d.from = c THEN Inbound(c) \cup {Len(inbox) + 1}
                                             ELSE Inbound(c)
  <1> DEFINE N == Len(inbox)
  <1>1. /\ N \in Nat /\ DOMAIN inbox = 1..N
        /\ inbox \in Seq(Datagram \cup {Empty})
    BY InboxPlaces
  <1>2. /\ inbox' \in Seq(Datagram \cup {Empty})
        /\ Len(inbox') = N + 1 /\ DOMAIN inbox' = 1..(N + 1)
        /\ inbox'[N + 1] = d
        /\ \A n \in 1..N : inbox'[n] = inbox[n]
    BY <1>1, AppendProperties
  <1>3. 1..(N + 1) = (1..N) \cup {N + 1}
    BY <1>1
  <1> HIDE DEF N
  <1>4. ASSUME NEW c \in Clients
        PROVE  Inbound(c)' = IF d.from = c THEN Inbound(c) \cup {N + 1} ELSE Inbound(c)
    BY <1>1, <1>2, <1>3 DEF Inbound
  <1> QED  BY <1>1, <1>2, <1>4 DEF N

(* What recvfrom() takes is the first, and the others move up.             *)
LEMMA RecvPlaces ==
    ASSUME TypeOK, Recv
    PROVE  /\ inbox' \in Seq(Datagram \cup {Empty})
           /\ Len(inbox') = Len(inbox) - 1
           /\ \A n \in 1..Len(inbox') : inbox'[n] = inbox[n + 1]
           /\ msg' = inbox[1] /\ msg' \in Datagram
           /\ \A c \in Clients :
                 /\ \A n \in Inbound(c)' : n + 1 \in Inbound(c) /\ n \in Nat \ {0}
                 /\ InHand(c)' <=> 1 \in Inbound(c)
                 /\ Inbound(c) # {} => Inbound(c)' # {} \/ InHand(c)'
  <1> DEFINE N == Len(inbox)
  <1>1. /\ N \in Nat /\ DOMAIN inbox = 1..N
        /\ inbox \in Seq(Datagram \cup {Empty}) /\ inbox # <<>>
        /\ inbox' = Tail(inbox) /\ Head(inbox) = inbox[1]
    BY InboxPlaces DEF Recv, Taken
  <1>2. /\ inbox' \in Seq(Datagram \cup {Empty})
        /\ Len(inbox') = N - 1 /\ DOMAIN inbox' = 1..(N - 1)
        /\ \A n \in 1..(N - 1) : inbox'[n] = inbox[n + 1]
        /\ N > 0
    BY <1>1, HeadTailProperties, EmptySeq, LenProperties
  <1>3. msg' = inbox[1] /\ msg' \in Datagram /\ server' = "echo"
    BY <1>1, <1>2, InboxPlaces DEF Recv, ServerGoes
  <1> HIDE DEF N
  <1>4. ASSUME NEW c \in Clients
        PROVE  /\ \A n \in Inbound(c)' : n + 1 \in Inbound(c) /\ n \in Nat \ {0}
               /\ InHand(c)' <=> 1 \in Inbound(c)
               /\ Inbound(c) # {} => Inbound(c)' # {} \/ InHand(c)'
    <2>1. \A n \in Inbound(c)' : n + 1 \in Inbound(c) /\ n \in Nat \ {0}
      BY <1>1, <1>2 DEF Inbound
    <2>2. InHand(c)' <=> 1 \in Inbound(c)
      BY <1>1, <1>2, <1>3 DEF Inbound, InHand
    <2>3. ASSUME NEW n \in Inbound(c), n # 1 PROVE Inbound(c)' # {}
      <3>1. n - 1 \in 1..(N - 1) /\ inbox'[n - 1] = inbox[n]
        BY <1>1, <1>2, <2>3 DEF Inbound
      <3> QED  BY <1>2, <3>1 DEF Inbound
    <2> QED  BY <2>1, <2>2, <2>3
  <1> QED  BY <1>2, <1>3, <1>4 DEF N

-----------------------------------------------------------------------------
LEMMA InitIndInv == Init => IndInv
  <1> SUFFICES ASSUME Init PROVE IndInv
    OBVIOUS
  <1>1. TypeOK
    <2>1. \A S : <<>> \in Seq(S) /\ Len(<<>>) = 0
      BY EmptySeq
    <2>2. inbox \in Seq(Datagram \cup {Empty}) /\ Len(inbox) <= Capacity
      BY <2>1, UdpAssumption DEF Init
    <2>3. mail \in [Clients -> Seq({"hello", "text", "q", "unreach"})]
      BY <2>1 DEF Init
    <2>4. left \in [Clients -> 0..MaxCount]
      BY UdpAssumption DEF Init
    <2>5. server \in {"boot", "recv", "echo"} \cup Over
      BY DEF Init
    <2>6. msg \in Datagram \cup {Empty}
      BY DEF Init
    <2>7. reset \in BOOLEAN
      BY DEF Init
    <2>8. client \in [Clients -> Open \cup {"idle", "gone", "dead"}]
      BY DEF Init
    <2> QED  BY <2>2, <2>3, <2>4, <2>5, <2>6, <2>7, <2>8 DEF TypeOK
  <1>2. \A c \in Clients : Quiet(c)
    BY DEF Init, Quiet, Inbound, InHand
  <1> QED  BY <1>1, <1>2 DEF Init, IndInv, PendingOK, LeftOK, HandOK

(* What c sends is in one place at most.                                   *)
LEMMA PostStep ==
    ASSUME IndInv, NEW c \in Clients, Quiet(c), NEW what \in {"hello", "text", "q"},
           Post(c, what), UNCHANGED <<server, msg>>
    PROVE  /\ inbox' \in Seq(Datagram \cup {Empty}) /\ Len(inbox') <= Capacity
           /\ mail' \in [Clients -> Seq({"hello", "text", "q", "unreach"})]
           /\ InOnePlace(c)'
           /\ what = "text" => IsText(c)'
           /\ \A d \in Clients \ {c} :
                 /\ Quiet(d) => Quiet(d)'
                 /\ InOnePlace(d) => InOnePlace(d)'
                 /\ IsText(d) => IsText(d)'
  <1>1. CASE Bound /\ Len(inbox) < Capacity
             /\ inbox' = Append(inbox, [from |-> c, what |-> what]) /\ mail' = mail
    <2> DEFINE new == [from |-> c, what |-> what]
    <2>1. new \in Datagram /\ new.from = c /\ new.what = what
      BY DEF Datagram
    <2>2. /\ inbox' \in Seq(Datagram \cup {Empty})
          /\ Len(inbox') = Len(inbox) + 1
          /\ inbox'[Len(inbox) + 1] = new
          /\ \A n \in 1..Len(inbox) : inbox'[n] = inbox[n]
          /\ \A d \in Clients :
                Inbound(d)' = IF d = c THEN Inbound(d) \cup {Len(inbox) + 1}
                                       ELSE Inbound(d)
      BY <1>1, <2>1, AppendPlaces DEF IndInv
    <2> HIDE DEF new
    <2>3. \A d \in Clients : Inbound(d) \subseteq 1..Len(inbox)
      BY InboxPlaces DEF IndInv
    <2>4. \A d \in Clients : InHand(d)' <=> InHand(d)
      BY DEF InHand
    <2>5. Len(inbox') <= Capacity
      BY <1>1, <2>2, InboxPlaces, UdpAssumption DEF IndInv
    <2>6. InOnePlace(c)' /\ (what = "text" => IsText(c)')
      BY <1>1, <2>1, <2>2, <2>4 DEF InOnePlace, IsText, Quiet
    <2>7. ASSUME NEW d \in Clients \ {c}
          PROVE  /\ Quiet(d) => Quiet(d)'
                 /\ InOnePlace(d) => InOnePlace(d)'
                 /\ IsText(d) => IsText(d)'
      BY <1>1, <2>2, <2>3, <2>4 DEF InOnePlace, IsText, Quiet
    <2> QED  BY <1>1, <2>2, <2>5, <2>6, <2>7 DEF IndInv, TypeOK
  <1>2. CASE UNCHANGED <<inbox, mail>>
    <2>1. \A d \in Clients : Inbound(d)' = Inbound(d) /\ (InHand(d)' <=> InHand(d))
      BY <1>2 DEF Inbound, InHand
    <2> QED  BY <1>2, <2>1 DEF IndInv, TypeOK, Quiet, InOnePlace, IsText
  <1>3. CASE inbox' = inbox /\ mail' = [mail EXCEPT ![c] = Append(@, "unreach")]
    <2>1. \A d \in Clients : Inbound(d)' = Inbound(d) /\ (InHand(d)' <=> InHand(d))
      BY <1>3 DEF Inbound, InHand
    <2>2. /\ mail[c] = <<>>
          /\ mail \in [Clients -> Seq({"hello", "text", "q", "unreach"})]
      BY DEF Quiet, IndInv, TypeOK
    <2>3. mail'[c] = <<"unreach">>
      BY <1>3, <2>2
    <2> QED  BY <1>3, <2>1, <2>2, <2>3 DEF IndInv, TypeOK, Quiet, InOnePlace, IsText
  <1> QED  BY <1>1, <1>2, <1>3 DEF Post

(* What keeps every client's datagrams where they are keeps the invariant. *)
Keeps(d) ==
    /\ Quiet(d) => Quiet(d)'
    /\ InOnePlace(d) => InOnePlace(d)'
    /\ IsText(d) => IsText(d)'

LEMMA ServerEndsStep ==
    ASSUME IndInv, NEW how \in Over, ServerEnds(how) PROVE IndInv'
  <1>1. inbox' = <<>> /\ server' = how /\ UNCHANGED <<client, left, msg, mail>>
    BY DEF ServerEnds, ServerGoes
  <1>2. \A d \in Clients : Inbound(d)' = {} /\ ~InHand(d)'
    BY <1>1 DEF Inbound, InHand, Over
  <1>3. \A d \in Clients : Keeps(d)
    BY <1>1, <1>2 DEF Keeps, Quiet, InOnePlace, IsText
  <1>4. /\ inbox' \in Seq(Datagram \cup {Empty}) /\ Len(inbox') = 0
        /\ reset' \in BOOLEAN
    BY <1>1, EmptySeq DEF ServerEnds
  <1>5. TypeOK'
    BY <1>1, <1>4, UdpAssumption DEF IndInv, TypeOK
  <1>6. PendingOK' /\ LeftOK' /\ HandOK'
    BY <1>1, <1>3 DEF IndInv, PendingOK, LeftOK, HandOK, Keeps, Over
  <1> QED  BY <1>5, <1>6 DEF IndInv

LEMMA RecvStep ==
    ASSUME IndInv, Recv PROVE IndInv'
  <1>1. /\ inbox' \in Seq(Datagram \cup {Empty})
        /\ Len(inbox') = Len(inbox) - 1
        /\ \A n \in 1..Len(inbox') : inbox'[n] = inbox[n + 1]
        /\ msg' = inbox[1] /\ msg' \in Datagram
        /\ \A c \in Clients :
              /\ \A n \in Inbound(c)' : n + 1 \in Inbound(c) /\ n \in Nat \ {0}
              /\ InHand(c)' <=> 1 \in Inbound(c)
    BY RecvPlaces DEF IndInv
  <1>2. /\ Len(inbox) \in Nat
        /\ \A c \in Clients : Inbound(c) \subseteq 1..Len(inbox)
        /\ \A c \in Clients : ~InHand(c)
    BY InboxPlaces DEF IndInv, Recv, ServerGoes, InHand
  <1>3. /\ server' = "echo" /\ UNCHANGED <<client, left, reset, mail>>
    BY DEF Recv, ServerGoes
  <1>4. ASSUME NEW d \in Clients PROVE Keeps(d)
    <2>1. Quiet(d) => Quiet(d)'
      BY <1>1, <1>3 DEF Quiet
    <2>2. ASSUME InOnePlace(d) PROVE InOnePlace(d)'
      <3>1. \A m, n \in Inbound(d)' : m = n
        BY <1>1, <2>2 DEF InOnePlace
      <3>2. Inbound(d)' # {} => ~InHand(d)'
        BY <1>1, <2>2 DEF InOnePlace
      <3>3. Inbound(d)' # {} \/ InHand(d)' => Inbound(d) # {}
        BY <1>1
      <3> QED  BY <1>3, <2>2, <3>1, <3>2, <3>3 DEF InOnePlace
    <2>3. ASSUME IsText(d) PROVE IsText(d)'
      <3>1. \A n \in Inbound(d)' : inbox'[n] = inbox[n + 1]
        <4>1. \A n \in Inbound(d)' : n \in 1..Len(inbox')
          BY <1>1, <1>2
        <4> QED  BY <1>1, <4>1
      <3> QED  BY <1>1, <1>3, <2>3, <3>1 DEF IsText
    <2> QED  BY <2>1, <2>2, <2>3 DEF Keeps
  <1>5. TypeOK'
    BY <1>1, <1>2, <1>3, UdpAssumption DEF IndInv, TypeOK
  <1>6. PendingOK' /\ LeftOK' /\ HandOK'
    BY <1>1, <1>3, <1>4 DEF IndInv, PendingOK, LeftOK, HandOK, Keeps
  <1> QED  BY <1>5, <1>6 DEF IndInv

LEMMA EchoStep ==
    ASSUME IndInv, Echo PROVE IndInv'
  <1>1. /\ msg \in Datagram /\ server = "echo" /\ server' = "recv"
        /\ UNCHANGED <<inbox, msg, client, left>>
    BY DEF IndInv, HandOK, Echo, ServerGoes
  <1>2. PICK p \in Clients : p = msg.from
    BY <1>1 DEF Datagram
  <1>3. /\ InHand(p) /\ msg.what \in {"hello", "text", "q"}
        /\ mail \in [Clients -> Seq({"hello", "text", "q", "unreach"})]
    BY <1>1, <1>2 DEF InHand, Datagram, IndInv, TypeOK
  <1>4. /\ \A d \in Clients : ~InHand(d)' /\ Inbound(d)' = Inbound(d)
        /\ \A d \in Clients \ {p} : ~InHand(d)
    BY <1>1, <1>2 DEF InHand, Inbound
  <1>5. \/ client[p] \in Open /\ mail' = [mail EXCEPT ![p] = @ \o <<msg.what>>]
        \/ mail' = mail
    BY <1>2 DEF Echo, Echoed
  <1>6. /\ mail' \in [Clients -> Seq({"hello", "text", "q", "unreach"})]
        /\ \A d \in Clients \ {p} : mail'[d] = mail[d]
        /\ mail[p] = <<>> => mail'[p] \in {<<>>, <<msg.what>>}
    <2>1. mail[p] \in Seq({"hello", "text", "q", "unreach"})
      BY <1>3
    <2>2. <<msg.what>> \in Seq({"hello", "text", "q", "unreach"})
      BY <1>3
    <2>3. mail[p] \o <<msg.what>> \in Seq({"hello", "text", "q", "unreach"})
      BY <2>1, <2>2, ConcatProperties
    <2>4. mail[p] = <<>> => mail[p] \o <<msg.what>> = <<msg.what>>
      BY <2>2, ConcatEmptySeq
    <2> QED  BY <1>3, <1>5, <2>3, <2>4
  <1>7. \A d \in Clients \ {p} : Keeps(d)
    BY <1>1, <1>4, <1>6 DEF Keeps, Quiet, InOnePlace, IsText
  <1>8. Keeps(p)
    <2>1. ~Quiet(p)
      BY <1>3 DEF Quiet
    <2>2. ASSUME InOnePlace(p)
          PROVE  InOnePlace(p)'
      <3>1. Inbound(p) = {} /\ mail[p] = <<>>
        BY <1>3, <2>2 DEF InOnePlace
      <3>2. Len(mail'[p]) <= 1
        <4>1. CASE mail'[p] = <<>>
          BY <4>1
        <4>2. CASE mail'[p] = <<msg.what>>
          BY <4>2
        <4> QED  BY <1>6, <3>1, <4>1, <4>2
      <3> QED  BY <1>4, <3>1, <3>2 DEF InOnePlace
    <2>3. ASSUME IsText(p) PROVE IsText(p)'
      <3>1. msg.what = "text" /\ \A n \in Inbound(p) : inbox[n].what = "text"
        BY <1>3, <2>3 DEF IsText
      <3>2. \A n \in DOMAIN mail'[p] : mail'[p][n] \in {"text", "unreach"}
        <4>1. CASE mail'[p] = mail[p]
          BY <2>3, <4>1 DEF IsText
        <4>2. CASE mail'[p] = mail[p] \o <<"text">>
          BY <1>3, <2>3, <4>2 DEF IsText
        <4> QED  BY <1>3, <1>5, <3>1, <4>1, <4>2
      <3> QED  BY <1>1, <1>4, <3>1, <3>2 DEF IsText
    <2> QED  BY <2>1, <2>2, <2>3 DEF Keeps
  <1>9. TypeOK'
    BY <1>1, <1>6 DEF IndInv, TypeOK, Echo
  <1>10. PendingOK' /\ LeftOK' /\ HandOK'
    BY <1>1, <1>7, <1>8 DEF IndInv, PendingOK, LeftOK, HandOK, Keeps
  <1> QED  BY <1>9, <1>10 DEF IndInv

LEMMA StrangerStep ==
    ASSUME IndInv, Stranger PROVE IndInv'
  <1>1. /\ inbox' = Append(inbox, Empty) /\ Len(inbox) < Capacity
        /\ UNCHANGED <<server, msg, reset, client, left, mail>>
    BY DEF Stranger
  <1>2. \A d \in Clients : Empty.from # d
    BY EmptyIsNobodys
  <1>3. /\ inbox' \in Seq(Datagram \cup {Empty})
        /\ Len(inbox') = Len(inbox) + 1 /\ Len(inbox) \in Nat
        /\ \A n \in 1..Len(inbox) : inbox'[n] = inbox[n]
        /\ \A d \in Clients :
              Inbound(d)' = Inbound(d) /\ Inbound(d) \subseteq 1..Len(inbox)
    BY <1>1, <1>2, AppendPlaces, InboxPlaces DEF IndInv
  <1>4. \A d \in Clients : Keeps(d)
    BY <1>1, <1>3 DEF Keeps, Quiet, InOnePlace, IsText, InHand
  <1>5. TypeOK'
    BY <1>1, <1>3, UdpAssumption DEF IndInv, TypeOK
  <1>6. PendingOK' /\ LeftOK' /\ HandOK'
    BY <1>1, <1>4 DEF IndInv, PendingOK, LeftOK, HandOK, Keeps
  <1> QED  BY <1>5, <1>6 DEF IndInv

LEMMA ServerStep ==
    ASSUME IndInv, Server PROVE IndInv'
  <1>1. CASE Boot
    <2>1. /\ server' = "recv" /\ server = "boot"
          /\ UNCHANGED <<inbox, msg, reset, client, left, mail>>
      BY <1>1 DEF Boot, ServerGoes
    <2>2. \A d \in Clients : Keeps(d)
      BY <2>1 DEF Keeps, Quiet, InOnePlace, IsText, Inbound, InHand
    <2> QED
      BY <2>1, <2>2 DEF IndInv, TypeOK, PendingOK, LeftOK, HandOK, Keeps
  <1>2. CASE BootFails \/ Shutdown \/ Throws
    BY <1>2, ServerEndsStep DEF BootFails, Shutdown, Throws, Over
  <1> QED  BY <1>1, <1>2, RecvStep, EchoStep DEF Server

(* A step of c's alone.                                                    *)
LEMMA ClientMoves ==
    ASSUME IndInv, NEW c \in Clients, NEW from, NEW to, Goes(c, from, to),
           to \in Open \cup {"gone", "dead"},
           inbox' \in Seq(Datagram \cup {Empty}), Len(inbox') <= Capacity,
           mail' \in [Clients -> Seq({"hello", "text", "q", "unreach"})],
           left' \in [Clients -> 0..MaxCount],
           \A d \in Clients \ {c} : Keeps(d) /\ left'[d] = left[d],
           to = "prompt" \/ to = "send" => Quiet(c)',
           to = "greet" \/ to = "await" => InOnePlace(c)',
           to = "await" => IsText(c)',
           to = "send" \/ to = "await" => left'[c] > 0
    PROVE  IndInv'
  <1>1. /\ client \in [Clients -> Open \cup {"idle", "gone", "dead"}]
        /\ client' = [client EXCEPT ![c] = to] /\ UNCHANGED <<server, msg, reset>>
    BY DEF Goes, IndInv, TypeOK
  <1>2. client'[c] = to /\ \A d \in Clients \ {c} : client'[d] = client[d]
    BY <1>1
  <1>3. TypeOK'
    BY <1>1 DEF IndInv, TypeOK
  <1>4. PendingOK'
    BY <1>2 DEF IndInv, PendingOK, Keeps, Open
  <1>5. LeftOK' /\ HandOK'
    BY <1>1, <1>2 DEF IndInv, LeftOK, HandOK, Open
  <1> QED  BY <1>3, <1>4, <1>5 DEF IndInv

(* What changes the mail of c alone keeps the others' datagrams.           *)
LEMMA OthersKeep ==
    ASSUME NEW c \in Clients, UNCHANGED <<inbox, server, msg>>,
           \A d \in Clients \ {c} : mail'[d] = mail[d]
    PROVE  \A d \in Clients \ {c} : Keeps(d)
  BY DEF Keeps, Quiet, InOnePlace, IsText, Inbound, InHand

LEMMA PostedStep ==
    ASSUME IndInv, NEW c \in Clients, Hello(c) \/ Send(c) \/ Quit(c)
    PROVE  IndInv'
  <1>1. PICK what \in {"hello", "text", "q"} :
           \/ what = "hello" /\ Goes(c, "idle", "greet") /\ Post(c, what)
           \/ what = "text" /\ Goes(c, "send", "await") /\ Post(c, what)
           \/ what = "q" /\ Goes(c, "prompt", "leaving") /\ Post(c, what)
    BY DEF Hello, Send, Quit
  <1>2. left' = left /\ Post(c, what) /\ UNCHANGED <<server, msg>>
    BY <1>1 DEF Hello, Send, Quit, Goes
  <1>3. Quiet(c) /\ (what = "text" => left[c] > 0)
    BY <1>1 DEF Goes, IndInv, PendingOK, LeftOK
  <1>4. /\ inbox' \in Seq(Datagram \cup {Empty}) /\ Len(inbox') <= Capacity
        /\ mail' \in [Clients -> Seq({"hello", "text", "q", "unreach"})]
        /\ InOnePlace(c)'
        /\ what = "text" => IsText(c)'
        /\ \A d \in Clients \ {c} : Keeps(d)
    BY <1>2, <1>3, PostStep DEF Keeps
  <1>5. left' \in [Clients -> 0..MaxCount] /\ \A d \in Clients \ {c} : left'[d] = left[d]
    BY <1>2 DEF IndInv, TypeOK
  <1>6. CASE what = "hello"
    BY <1>1, <1>4, <1>5, <1>6, ClientMoves DEF Open
  <1>7. CASE what = "text"
    BY <1>1, <1>2, <1>3, <1>4, <1>5, <1>7, ClientMoves DEF Open
  <1>8. CASE what = "q"
    BY <1>1, <1>4, <1>5, <1>8, ClientMoves DEF Open
  <1> QED  BY <1>6, <1>7, <1>8

(* A client takes the only thing it has received.                          *)
LEMMA TakenStep ==
    ASSUME IndInv, NEW c \in Clients, Greet(c) \/ Reply(c)
    PROVE  IndInv'
  <1>1. /\ client[c] \in {"greet", "await"} /\ mail[c] # <<>> /\ inbox' = inbox
        /\ UNCHANGED <<server, msg, reset>>
        /\ mail' = [mail EXCEPT ![c] = Tail(@)]
           \/ mail' = [mail EXCEPT ![c] = SubSeq(@, 2, Len(@))]
    BY DEF Greet, Reply, Answered, Goes
  <1>2. /\ mail \in [Clients -> Seq({"hello", "text", "q", "unreach"})]
        /\ InOnePlace(c) /\ left \in [Clients -> 0..MaxCount]
        /\ inbox \in Seq(Datagram \cup {Empty}) /\ Len(inbox) <= Capacity
    BY <1>1 DEF IndInv, TypeOK, PendingOK
  <1>3. Len(mail[c]) = 1
    <2>1. /\ mail[c] \in Seq({"hello", "text", "q", "unreach"}) /\ mail[c] # <<>>
          /\ Len(mail[c]) <= 1
      BY <1>1, <1>2 DEF InOnePlace
    <2>2. Len(mail[c]) \in Nat \ {0}
      BY <2>1, EmptySeq
    <2>3. \A n \in Nat \ {0} : n <= 1 => n = 1
      OBVIOUS
    <2> QED  BY <2>1, <2>2, <2>3, Zenon
  <1>4. mail'[c] = <<>>
    BY <1>1, <1>2, <1>3, SubSeqProperties, EmptySeq
  <1>5. \A d \in Clients \ {c} : mail'[d] = mail[d]
    BY <1>1, <1>2
  <1>6. mail' \in [Clients -> Seq({"hello", "text", "q", "unreach"})]
    BY <1>1, <1>2, <1>4, <1>5, EmptySeq
  <1>7. \A d \in Clients \ {c} : Keeps(d)
    BY <1>1, <1>5, OthersKeep
  <1>8. Quiet(c)'
    BY <1>1, <1>2, <1>4 DEF Quiet, InOnePlace, Inbound, InHand
  <1>9. CASE Greet(c)
    <2>1. Goes(c, "greet", "prompt") /\ left' = left
      BY <1>9 DEF Greet
    <2> QED
      BY <1>1, <1>2, <1>6, <1>7, <1>8, <2>1, ClientMoves DEF Open
  <1>10. CASE Reply(c)
    <2>1. /\ Goes(c, "await", IF More(c) THEN "send" ELSE "prompt")
          /\ left' = [left EXCEPT ![c] = @ - 1]
      BY <1>10 DEF Reply
    <2>2. left[c] > 0
      BY <2>1 DEF Goes, IndInv, LeftOK
    <2>3. /\ left' \in [Clients -> 0..MaxCount] /\ left'[c] = left[c] - 1
          /\ \A d \in Clients \ {c} : left'[d] = left[d]
      BY <1>2, <2>1, <2>2, UdpAssumption
    <2>4. CASE More(c)
      <3>1. Goes(c, "await", "send") /\ left'[c] > 0
        BY <1>2, <2>1, <2>3, <2>4, UdpAssumption DEF More
      <3> QED
        BY <1>1, <1>2, <1>6, <1>7, <1>8, <2>3, <3>1, ClientMoves DEF Open
    <2>5. CASE ~More(c)
      <3>1. Goes(c, "await", "prompt")
        BY <2>1, <2>5
      <3> QED
        BY <1>1, <1>2, <1>6, <1>7, <1>8, <2>3, <3>1, ClientMoves DEF Open
    <2> QED  BY <2>4, <2>5
  <1> QED  BY <1>9, <1>10

(* A client orders messages, or its socket is closed.                      *)
LEMMA OtherClientStep ==
    ASSUME IndInv, NEW c \in Clients,
           Order(c) \/ ReplyThrows(c) \/ Exit(c) \/ Crash(c)
    PROVE  IndInv'
  <1>1. /\ mail \in [Clients -> Seq({"hello", "text", "q", "unreach"})]
        /\ left \in [Clients -> 0..MaxCount]
        /\ inbox \in Seq(Datagram \cup {Empty}) /\ Len(inbox) <= Capacity
    BY DEF IndInv, TypeOK
  <1>2. CASE Order(c)
    <2>1. /\ Goes(c, "prompt", "send") /\ UNCHANGED <<inbox, mail, server, msg>>
          /\ \E count \in 1..MaxCount : left' = [left EXCEPT ![c] = count]
      BY <1>2 DEF Order, Goes
    <2>2. /\ left' \in [Clients -> 0..MaxCount] /\ left'[c] > 0
          /\ \A d \in Clients \ {c} : left'[d] = left[d]
      BY <1>1, <2>1, UdpAssumption
    <2>3. Quiet(c) /\ \A d \in Clients : Keeps(d)
      BY <2>1 DEF Goes, IndInv, PendingOK, Keeps, Quiet, InOnePlace, IsText, Inbound,
                  InHand
    <2> QED  BY <1>1, <2>1, <2>2, <2>3, ClientMoves DEF Open, Keeps
  <1>3. CASE ReplyThrows(c) \/ Exit(c) \/ Crash(c)
    <2>1. PICK to \in {"gone", "dead"} : Goes(c, client[c], to)
      BY <1>3 DEF ReplyThrows, Exit, Crash, Goes
    <2>2. /\ UNCHANGED <<inbox, left, server, msg>>
          /\ mail' = [mail EXCEPT ![c] = <<>>]
      BY <1>3 DEF ReplyThrows, Exit, Crash, Drops, Goes
    <2>3. /\ mail' \in [Clients -> Seq({"hello", "text", "q", "unreach"})]
          /\ \A d \in Clients \ {c} : mail'[d] = mail[d]
      BY <1>1, <2>2, EmptySeq
    <2>4. \A d \in Clients \ {c} : Keeps(d)
      BY <2>2, <2>3, OthersKeep
    <2> QED  BY <1>1, <2>1, <2>2, <2>3, <2>4, ClientMoves
  <1> QED  BY <1>2, <1>3

(* What the programs of lab3 keep between any two steps, of which the      *)
(* theorems below are consequences.                                        *)
THEOREM Inductive == Spec => []IndInv
  <1>1. IndInv /\ [Next]_vars => IndInv'
    <2> SUFFICES ASSUME IndInv, [Next]_vars PROVE IndInv'
      OBVIOUS
    <2>1. CASE Kill
      BY <2>1, ServerEndsStep DEF Kill, Over
    <2>2. CASE UNCHANGED vars
      BY <2>2 DEF vars, IndInv, TypeOK, PendingOK, LeftOK, HandOK, Quiet, InOnePlace,
                  IsText, Inbound, InHand
    <2>3. ASSUME NEW c \in Clients, Works(c) \/ User(c) \/ Crash(c) PROVE IndInv'
      BY <2>3, PostedStep, TakenStep, OtherClientStep DEF Works, User
    <2> QED  BY <2>1, <2>2, <2>3, ServerStep, StrangerStep DEF Next
  <1> QED  BY <1>1, InitIndInv, PTL DEF Spec

(* The variables have their types.                                         *)
THEOREM TypeCorrect == Spec => []TypeOK
  <1>1. IndInv => TypeOK
    BY DEF IndInv
  <1> QED  BY <1>1, Inductive, PTL

(* A client has at most one datagram under way, of the kind it waits for.  *)
THEOREM OneIsOutstanding == Spec => []OneOutstanding
  <1>1. ASSUME IndInv, NEW c \in Clients
        PROVE  LET pending == Cardinality(Inbound(c)) + Len(mail[c])
                                + (IF InHand(c) THEN 1 ELSE 0)
               IN  /\ client[c] \in {"idle", "prompt", "send"} => pending = 0
                   /\ client[c] \in {"greet", "await"} => pending <= 1
                   /\ client[c] = "await" => Range(mail[c]) \subseteq {"text", "unreach"}
    <2>1. mail[c] \in Seq({"hello", "text", "q", "unreach"})
      BY <1>1 DEF IndInv, TypeOK
    <2>2. Inbound(c) = {} => Cardinality(Inbound(c)) = 0
      BY FS_EmptySet
    <2>3. ASSUME Inbound(c) # {}, \A m, n \in Inbound(c) : m = n
          PROVE  Cardinality(Inbound(c)) = 1
      <3>1. PICK n \in Inbound(c) : Inbound(c) = {n}
        BY <2>3
      <3> QED  BY <3>1, FS_Singleton
    <2>4. Len(<<>>) = 0 /\ Len(mail[c]) \in Nat
      BY <2>1, EmptySeq, LenProperties
    <2>5. CASE client[c] \in {"idle", "prompt", "send"}
      <3>1. Quiet(c)
        BY <1>1, <2>5 DEF IndInv, PendingOK
      <3> QED  BY <2>2, <2>4, <2>5, <3>1 DEF Quiet
    <2>6. CASE client[c] \in {"greet", "await"}
      <3>1. InOnePlace(c) /\ (client[c] = "await" => IsText(c))
        BY <1>1, <2>6 DEF IndInv, PendingOK
      <3>2. CASE Inbound(c) # {}
        BY <2>3, <2>4, <2>6, <3>1, <3>2 DEF InOnePlace, Range
      <3>3. CASE Inbound(c) = {}
        BY <2>2, <2>4, <2>6, <3>1, <3>3 DEF InOnePlace, IsText, Range
      <3> QED  BY <3>2, <3>3
    <2>7. CASE client[c] \notin {"idle", "prompt", "send", "greet", "await"}
      BY <2>7
    <2> QED  BY <2>5, <2>6, <2>7
  <1>2. IndInv => OneOutstanding
    BY <1>1 DEF OneOutstanding
  <1> QED  BY <1>2, Inductive, PTL

-----------------------------------------------------------------------------
(* What a step does to the phases in the service: one client's moves, or   *)
(* all that ask lose what they asked, or none moves.                       *)
Same(c) == Phase(c)' = Phase(c)

Moves(c) ==
    /\ \A d \in Clients \ {c} : Same(d)
    /\ \/ Phase(c) = "free" /\ Phase(c)' \in {"asked", "answered", "lost"}
       \/ Phase(c) = "asked" /\ Phase(c)' = "answered"
       \/ Phase(c) = "answered" /\ Phase(c)' = "free"
       \/ Phase(c)' = "gone"

Lost ==
    /\ server' \in Over
    /\ \A c \in Clients :
          Phase(c)' = IF Phase(c) = "asked" THEN "lost" ELSE Phase(c)

Progress == Lost \/ (\A c \in Clients : Same(c)) \/ \E c \in Clients : Moves(c)

(* A client's phase depends on its own datagrams and place.                *)
LEMMA SamePhase ==
    ASSUME NEW c \in Clients, client'[c] = client[c], mail'[c] = mail[c],
           (Inbound(c) # {} \/ InHand(c)) <=> (Inbound(c)' # {} \/ InHand(c)')
    PROVE  Same(c)
  BY DEF Same, Phase

LEMMA ServerEndsPhases ==
    ASSUME NEW how \in Over, ServerEnds(how) PROVE Lost
  <1>1. inbox' = <<>> /\ server' = how /\ UNCHANGED <<client, msg, mail>>
    BY DEF ServerEnds, ServerGoes
  <1>2. \A d \in Clients : Inbound(d)' = {} /\ ~InHand(d)'
    BY <1>1 DEF Inbound, InHand, Over
  <1> QED  BY <1>1, <1>2 DEF Lost, Phase

LEMMA ServerPhases ==
    ASSUME IndInv, Server \/ Kill \/ Stranger PROVE Progress
  <1>1. CASE BootFails \/ Shutdown \/ Throws \/ Kill
    BY <1>1, ServerEndsPhases DEF BootFails, Shutdown, Throws, Kill, Over, Progress
  <1>2. CASE Boot
    <2>1. server' = "recv" /\ server = "boot" /\ UNCHANGED <<inbox, msg, client, mail>>
      BY <1>2 DEF Boot, ServerGoes
    <2> QED  BY <2>1, SamePhase DEF Inbound, InHand, Progress
  <1>3. CASE Recv
    <2>1. UNCHANGED <<client, mail>> /\ server = "recv"
      BY <1>3 DEF Recv, ServerGoes
    <2>2. \A c \in Clients : ~InHand(c)
      BY <2>1 DEF InHand
    <2>3. \A c \in Clients :
             /\ Inbound(c)' # {} \/ InHand(c)' => Inbound(c) # {}
             /\ Inbound(c) # {} => Inbound(c)' # {} \/ InHand(c)'
      BY <1>3, RecvPlaces DEF IndInv
    <2> QED  BY <2>1, <2>2, <2>3, SamePhase DEF Progress
  <1>4. CASE Stranger
    <2>1. /\ UNCHANGED <<server, msg, client, mail>>
          /\ inbox' = Append(inbox, Empty)
      BY <1>4 DEF Stranger
    <2>2. \A d \in Clients : Inbound(d)' = Inbound(d) /\ (InHand(d)' <=> InHand(d))
      BY <2>1, AppendPlaces, EmptyIsNobodys DEF IndInv, InHand
    <2> QED  BY <2>1, <2>2, SamePhase DEF Progress
  <1>5. CASE Echo
    <2>1. /\ msg \in Datagram /\ server = "echo" /\ server' = "recv"
          /\ UNCHANGED <<inbox, msg, client>>
      BY <1>5 DEF IndInv, HandOK, Echo, ServerGoes
    <2>2. PICK p \in Clients : p = msg.from
      BY <2>1 DEF Datagram
    <2>3. InHand(p) /\ \A d \in Clients \ {p} : ~InHand(d)
      BY <2>1, <2>2 DEF InHand
    <2>4. \A d \in Clients : Inbound(d)' = Inbound(d) /\ ~InHand(d)'
      BY <2>1 DEF InHand, Inbound
    <2>5. mail \in [Clients -> Seq({"hello", "text", "q", "unreach"})]
      BY DEF IndInv, TypeOK
    <2>6. \/ client[p] \in Open /\ mail' = [mail EXCEPT ![p] = @ \o <<msg.what>>]
          \/ client[p] \notin Open /\ mail' = mail
      BY <1>5, <2>2 DEF Echo, Echoed
    <2>7. \A d \in Clients \ {p} : mail'[d] = mail[d]
      BY <2>5, <2>6
    <2>8. \A d \in Clients \ {p} : Same(d)
      BY <2>1, <2>3, <2>4, <2>7, SamePhase
    <2>9. client[p] \in {"greet", "await", "leaving", "gone", "dead"}
      BY <2>3 DEF IndInv, TypeOK, PendingOK, Quiet, Open
    <2>10. CASE client[p] \in {"leaving", "gone", "dead"}
      BY <2>1, <2>8, <2>10 DEF Phase, Moves, Progress
    <2>11. CASE client[p] \in {"greet", "await"}
      <3>1. mail[p] = <<>>
        BY <2>3, <2>11 DEF IndInv, PendingOK, InOnePlace
      <3>2. mail'[p] = <<>> \o <<msg.what>>
        BY <2>5, <2>6, <2>11, <3>1 DEF Open
      <3>3. <<msg.what>> \in Seq({msg.what})
        OBVIOUS
      <3>4. mail'[p] = <<msg.what>>
        BY <3>2, <3>3, ConcatEmptySeq
      <3>5. mail'[p] # <<>>
        BY <3>4
      <3>6. Phase(p) = "asked" /\ Phase(p)' = "answered"
        BY <2>1, <2>3, <2>11, <3>1, <3>5 DEF Phase
      <3> QED  BY <2>8, <3>6 DEF Moves, Progress
    <2> QED  BY <2>9, <2>10, <2>11
  <1> QED  BY <1>1, <1>2, <1>3, <1>4, <1>5 DEF Server

(* A step of c moves no other.                                             *)
LEMMA OthersStay ==
    ASSUME IndInv, NEW c \in Clients, Works(c) \/ User(c) \/ Crash(c)
    PROVE  \A d \in Clients \ {c} : Same(d)
  <1>1. PICK from, to : Goes(c, from, to)
    BY DEF Works, User, Hello, Greet, Order, Send, Reply, ReplyThrows, Quit, Exit, Crash
  <1>2. /\ client' = [client EXCEPT ![c] = to] /\ UNCHANGED <<server, msg>>
        /\ \A d \in Clients \ {c} : client'[d] = client[d]
    BY <1>1 DEF Goes, IndInv, TypeOK
  <1>3. mail \in [Clients -> Seq({"hello", "text", "q", "unreach"})]
    BY DEF IndInv, TypeOK
  <1>4. \A d \in Clients : InHand(d)' <=> InHand(d)
    BY <1>2 DEF InHand
  <1>5. CASE Hello(c) \/ Send(c) \/ Quit(c)
    <2>1. PICK what \in {"hello", "text", "q"} : Post(c, what)
      BY <1>5 DEF Hello, Send, Quit
    <2>2. CASE inbox' = Append(inbox, [from |-> c, what |-> what]) /\ mail' = mail
      <3>1. [from |-> c, what |-> what] \in Datagram
        BY DEF Datagram
      <3>2. \A d \in Clients \ {c} : Inbound(d)' = Inbound(d)
        BY <2>2, <3>1, AppendPlaces DEF IndInv
      <3> QED  BY <1>2, <1>4, <2>2, <3>2, SamePhase
    <2>3. CASE inbox' = inbox /\ \A d \in Clients \ {c} : mail'[d] = mail[d]
      BY <1>2, <1>4, <2>3, SamePhase DEF Inbound
    <2> QED  BY <1>3, <2>1, <2>2, <2>3 DEF Post
  <1>6. CASE Greet(c) \/ Order(c) \/ Reply(c) \/ ReplyThrows(c) \/ Exit(c) \/ Crash(c)
    <2>1. inbox' = inbox /\ \A d \in Clients \ {c} : mail'[d] = mail[d]
      BY <1>3, <1>6 DEF Greet, Order, Reply, ReplyThrows, Exit, Crash, Drops
    <2> QED  BY <1>2, <1>4, <2>1, SamePhase DEF Inbound
  <1> QED  BY <1>5, <1>6 DEF Works, User

LEMMA ClientPhases ==
    ASSUME IndInv, NEW c \in Clients, Works(c) \/ User(c) \/ Crash(c)
    PROVE  Progress
  <1>1. \A d \in Clients \ {c} : Same(d)
    BY OthersStay
  <1>2. client \in [Clients -> Open \cup {"idle", "gone", "dead"}]
    BY DEF IndInv, TypeOK
  <1>3. CASE Hello(c) \/ Send(c)
    <2>1. client[c] \in {"idle", "send"} /\ client'[c] \in {"greet", "await"}
      BY <1>2, <1>3 DEF Hello, Send, Goes
    <2>2. Phase(c) = "free" /\ Phase(c)' \in {"asked", "answered", "lost"}
      BY <2>1 DEF Phase
    <2> QED  BY <1>1, <2>2 DEF Moves, Progress
  <1>4. CASE Greet(c) \/ Reply(c)
    <2>1. /\ client[c] \in {"greet", "await"} /\ client'[c] \in {"prompt", "send"}
          /\ mail[c] # <<>>
      BY <1>2, <1>4 DEF Greet, Reply, Answered, Goes
    <2>2. Phase(c) = "answered" /\ Phase(c)' = "free"
      BY <2>1 DEF Phase
    <2> QED  BY <1>1, <2>2 DEF Moves, Progress
  <1>5. CASE Order(c)
    <2>1. client[c] = "prompt" /\ client'[c] = "send"
      BY <1>2, <1>5 DEF Order, Goes
    <2>2. Same(c)
      BY <2>1 DEF Phase, Same
    <2> QED  BY <1>1, <2>2 DEF Progress
  <1>6. CASE Quit(c) \/ ReplyThrows(c) \/ Exit(c) \/ Crash(c)
    <2>1. client'[c] \in {"leaving", "gone", "dead"}
      BY <1>2, <1>6 DEF Quit, ReplyThrows, Exit, Crash, Goes
    <2>2. Phase(c)' = "gone"
      BY <2>1 DEF Phase
    <2> QED  BY <1>1, <2>2 DEF Moves, Progress
  <1> QED  BY <1>3, <1>4, <1>5, <1>6 DEF Works, User

LEMMA StepPhases == IndInv /\ [Next]_vars => Progress
  <1> SUFFICES ASSUME IndInv, [Next]_vars PROVE Progress
    OBVIOUS
  <1>1. CASE UNCHANGED vars
    BY <1>1 DEF vars, Progress, Same, Phase, Inbound, InHand
  <1> QED  BY <1>1, ServerPhases, ClientPhases DEF Next

(* A server that goes on loses no datagram it has received.                *)
THEOREM LosesWithCause == Spec => LossHasCause
  <1>1. Progress => [\A c \in Clients :
                       Phase(c) = "asked" /\ Phase(c)' = "lost" => server' \in Over]_vars
    BY DEF Progress, Lost, Moves, Same
  <1> QED  BY <1>1, StepPhases, Inductive, PTL DEF Spec, LossHasCause

(* The programs implement the lossy echo service.                          *)
THEOREM ImplementsLossyEcho == Spec => ImplementsService
  <1> DEFINE phase == [c \in Clients |-> Phase(c)]
  <1>1. Init => Service!LossyInit
    BY DEF Init, Service!LossyInit, Phase
  <1>2. ASSUME Progress PROVE [Service!LossyNext]_phase
    <2>1. CASE Lost
      <3>1. Service!Lose
        BY <2>1 DEF Lost, Service!Lose
      <3> QED  BY <3>1 DEF Service!LossyNext
    <2>2. CASE \A c \in Clients : Same(c)
      BY <2>2 DEF Same
    <2>3. ASSUME NEW c \in Clients, Moves(c) PROVE Service!LossyNext
      <3>1. phase' = [phase EXCEPT ![c] = Phase(c)']
        BY <2>3 DEF Moves, Same
      <3>2. phase[c] = Phase(c)
        OBVIOUS
      <3>3. \/ Service!Ask(c) \/ Service!Answer(c)
            \/ Service!Receive(c) \/ Service!Leave(c)
        BY <2>3, <3>1, <3>2
           DEF Moves, Service!Ask, Service!Answer, Service!Receive, Service!Leave
      <3> QED  BY <3>3 DEF Service!LossyNext
    <2> QED  BY <1>2, <2>1, <2>2, <2>3 DEF Progress
  <1>3. IndInv /\ [Next]_vars => [Service!LossyNext]_phase
    BY <1>2, StepPhases
  <1> QED
    BY <1>1, <1>3, Inductive, PTL DEF Spec, ImplementsService, Service!LossySpec

=============================================================================
