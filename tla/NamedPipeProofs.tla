-------------------------- MODULE NamedPipeProofs --------------------------
(***************************************************************************)
(* lab6's pipe, for any number of clients of any of the three programs:    *)
(* nothing is dropped when the server disconnects, and the programs        *)
(* implement the echo service.                                             *)
(***************************************************************************)
EXTENDS NamedPipe, TLAPS

(* ClientNPct has no handle between two calls, and the other two never     *)
(* call.                                                                   *)
KindsOK ==
    \A c \in Clients :
        IF Kind[c] = "ClientNPct"
          THEN client[c] \in {"prompt", "call", "wait", "retry", "await"} \cup Ended
          ELSE client[c] \notin {"call", "wait", "retry"}

(* Who sends or waits for an answer has a message left.                    *)
LeftOK ==
    \A c \in Clients :
        client[c] \in {"send", "await", "call", "wait", "retry"} => left[c] > 0

(* The instance and the server go together.                                *)
InstanceOK ==
    /\ server \in {"boot"} \cup Over => pipe = "none"
    /\ server = "connect" => pipe # "none"
    /\ server = "connecting" => pipe \in {"listening", "connected", "closing"}
    /\ server \in {"read", "write", "writing", "disconnect"} =>
           pipe \in {"connected", "closing"}
    /\ pipe \in {"connected", "closing"} <=> peer # NoClient
    /\ pipe # "connected" => req = "none"
    /\ rep # "none" => server = "writing" /\ peer # NoClient

(* Where the server is when its client is at a given place, and where      *)
(* their message is.                                                       *)
Free == server \in {"connect", "connecting", "read", "writing"} /\ rep = "none"

Waited ==
    \/ Free /\ req = Message(peer)
    \/ req = "none" /\ (server = "write" \/ (server = "writing" /\ rep # "none"))

PeerOK ==
    pipe = "connected" =>
        /\ \/ client[peer] \in {"mode", "prompt", "send", "ask"} /\ Free /\ req = "none"
           \/ client[peer] = "await" /\ Waited
           \/ client[peer] = "last" /\ Free /\ req \in {"STOP", "EXIT"}
           \/ /\ client[peer] = "close" /\ server = "disconnect"
              /\ req = "none" /\ rep = "none"
        /\ Kind[peer] = "ClientNPct" => client[peer] = "await"
        /\ server \in {"write", "writing"} => buf = Message(peer)
        /\ server = "writing" /\ Kind[peer] = "ClientNPct" => rep # "none"

IndInv == TypeOK /\ KindsOK /\ LeftOK /\ InstanceOK /\ PeerOK

-----------------------------------------------------------------------------
LEMMA MessageType == \A c \in Clients : Message(c) \in Messages
  BY DEF Message, Messages

LEMMA InitIndInv == Init => IndInv
  BY PipeAssumption
     DEF Init, IndInv, TypeOK, KindsOK, LeftOK, InstanceOK, PeerOK, Over, Ended

LEMMA ServerEndsStep ==
    ASSUME IndInv, NEW how \in Over, ServerEnds(how) PROVE IndInv'
  BY PipeAssumption
     DEF ServerEnds, ServerGoes, InstanceIs, IndInv, TypeOK, KindsOK, LeftOK,
         InstanceOK, PeerOK, Over

LEMMA ServerStep ==
    ASSUME IndInv, Server PROVE IndInv'
  <1> USE PipeAssumption, MessageType
      DEF IndInv, TypeOK, KindsOK, LeftOK, InstanceOK, PeerOK, Free, Waited, Message
  <1>1. CASE Create
    BY <1>1 DEF Create, ServerGoes, Over
  <1>2. CASE CreateThrows \/ ConnectThrows \/ ReadThrows \/ WriteThrows \/ DisconnectLast
    BY <1>2, ServerEndsStep
       DEF CreateThrows, ConnectThrows, ReadThrows, WriteThrows, DisconnectLast, Over
  <1>3. CASE Connect
    BY <1>3 DEF Connect, ServerGoes, Over
  <1>4. CASE Connected
    BY <1>4 DEF Connected, ServerGoes, instance, Over
  <1>5. CASE Read
    BY <1>5 DEF Read, ServerGoes, Released, Emptied, StillWorks, Over, Ended, Messages
  <1>6. CASE Write
    BY <1>6 DEF Write, ServerGoes, SentBack, Over, Messages
  <1>7. CASE Written
    BY <1>7 DEF Written, ServerGoes, Received, instance, Over, Messages
  <1>8. CASE Disconnect
    BY <1>8 DEF Disconnect, ServerGoes, InstanceIs, Over
  <1> QED  BY <1>1, <1>2, <1>3, <1>4, <1>5, <1>6, <1>7, <1>8 DEF Server

LEMMA ClientStep ==
    ASSUME IndInv, NEW c \in Clients,
           Works(c) \/ User(c) \/ Open(c) \/ OpenThrows(c) \/ Crash(c)
    PROVE  IndInv'
  <1> USE PipeAssumption, MessageType
      DEF IndInv, TypeOK, KindsOK, LeftOK, InstanceOK, PeerOK, Free, Waited, Message,
          Goes, Mine, instance, Ended, Over
  <1>1. CASE SetMode(c)
    BY <1>1 DEF SetMode
  <1>2. CASE Send(c)
    BY <1>2 DEF Send, Messages
  <1>3. CASE Reply(c)
    BY <1>3 DEF Reply, Step, LeftAfter
  <1>4. CASE PipeBreaks(c)
    BY <1>4 DEF PipeBreaks, Throws
  <1>5. CASE Close(c)
    BY <1>5 DEF Close
  <1>6. CASE Call(c)
    BY <1>6 DEF Call, Takes, Messages
  <1>7. CASE CallWaits(c)
    BY <1>7 DEF CallWaits
  <1>8. CASE CallWakes(c)
    BY <1>8 DEF CallWakes
  <1>9. CASE CallThrows(c) \/ OpenThrows(c)
    BY <1>9 DEF CallThrows, OpenThrows, Throws
  <1>10. CASE Order(c)
    BY <1>10 DEF Order, Step
  <1>11. CASE Last(c)
    BY <1>11 DEF Last
  <1>12. CASE Open(c)
    BY <1>12 DEF Open, Takes
  <1>13. CASE Crash(c)
    BY <1>13 DEF Crash
  <1> QED
    BY <1>1, <1>2, <1>3, <1>4, <1>5, <1>6, <1>7, <1>8, <1>9, <1>10, <1>11, <1>12,
       <1>13
       DEF Works, User

(* What the programs of lab6 keep between any two steps, of which the      *)
(* theorems below are consequences.                                        *)
THEOREM Inductive == Spec => []IndInv
  <1>1. IndInv /\ [Next]_vars => IndInv'
    <2> SUFFICES ASSUME IndInv, [Next]_vars PROVE IndInv'
      OBVIOUS
    <2>1. CASE Kill
      BY <2>1, ServerEndsStep DEF Kill, Over
    <2>2. CASE UNCHANGED vars
      BY <2>2 DEF vars, IndInv, TypeOK, KindsOK, LeftOK, InstanceOK, PeerOK,
                  Free, Waited
    <2> QED  BY <2>1, <2>2, ServerStep, ClientStep DEF Next
  <1> QED  BY <1>1, InitIndInv, PTL DEF Spec

(* The variables have their types.                                         *)
THEOREM TypeCorrect == Spec => []TypeOK
  <1>1. IndInv => TypeOK
    BY DEF IndInv
  <1> QED  BY <1>1, Inductive, PTL

(* DisconnectNamedPipe drops no reply and no message.                      *)
THEOREM DiscardsNothing == Spec => []NothingDiscarded
  <1>1. IndInv => NothingDiscarded
    BY DEF IndInv, TypeOK, InstanceOK, PeerOK, Free, Waited, NothingDiscarded
  <1> QED  BY <1>1, Inductive, PTL

-----------------------------------------------------------------------------
(* The refinement.  At most one client is not "out", so a step moves the   *)
(* phase of one client, or takes it out.                                   *)
Phases == [c \in Clients |-> Phase(c)]

LEMMA OneMoves ==
    ASSUME NEW c \in Clients, NEW to,
           Phase(c)' = to, \A d \in Clients \ {c} : Phase(d)' = Phase(d)
    PROVE  Phases' = [Phases EXCEPT ![c] = to]
  BY DEF Phases

LEMMA PhasesLeave ==
    ASSUME \A d \in Clients : Phase(d)' \in {Phase(d), "out"}
    PROVE  [Service!EchoNext]_Phases
  <1> DEFINE S == {d \in Clients : Phase(d)' # Phase(d)}
  <1>1. \A d \in S : Phases[d] # "out"
    BY DEF Phases
  <1>2. Phases' = [d \in Clients |-> IF d \in S THEN "out" ELSE Phases[d]]
    BY DEF Phases
  <1>3. Service!Leave(S)
    BY <1>1, <1>2 DEF Service!Leave, Phases
  <1> QED  BY <1>3 DEF Service!EchoNext

LEMMA ServerPhases ==
    ASSUME IndInv, Server PROVE [Service!EchoNext]_Phases
  <1> USE PipeAssumption, MessageType
      DEF IndInv, TypeOK, KindsOK, InstanceOK, PeerOK, Free, Waited, Message
  <1>1. CASE Create \/ Connect \/ Disconnect
    <2>1. \A d \in Clients : Phase(d)' \in {Phase(d), "out"}
      BY <1>1 DEF Create, Connect, Disconnect, ServerGoes, InstanceIs, Phase, Mine, Over
    <2> QED  BY <2>1, PhasesLeave
  <1>2. CASE CreateThrows \/ ConnectThrows \/ ReadThrows \/ WriteThrows \/ DisconnectLast
    <2>1. \A d \in Clients : Phase(d)' \in {Phase(d), "out"}
      BY <1>2 DEF CreateThrows, ConnectThrows, ReadThrows, WriteThrows,
                  DisconnectLast, ServerEnds, InstanceIs, Phase, Mine
    <2> QED  BY <2>1, PhasesLeave
  <1>3. CASE Connected /\ Mine(peer) /\ client[peer] # "last"
    <2>1. PICK c \in Clients : c = peer
      BY <1>3 DEF Mine
    <2>2. Phase(c) = "queued" /\ \A d \in Clients \ {c} : Phase(d) = "out"
      BY <1>3, <2>1 DEF Connected, ServerGoes, Phase, Mine
    <2>3. /\ Phase(c)' \in {"ready", "asked"}
          /\ \A d \in Clients \ {c} : Phase(d)' = Phase(d)
      BY <1>3, <2>1 DEF Connected, ServerGoes, Phase, Mine, instance
    <2>4. /\ Phases[c] = "queued"
          /\ {d \in Clients : Phases[d] \in {"ready", "asked", "answered"}} = {}
      BY <2>2 DEF Phases
    <2>5. Service!Admit(c)
      BY <2>3, <2>4, OneMoves
         DEF Service!Admit, Service!Admitted, Service!Goes, Phases
    <2> QED  BY <2>5 DEF Service!EchoNext
  <1>4. CASE Connected /\ ~(Mine(peer) /\ client[peer] # "last")
    <2>1. \A d \in Clients : Phase(d)' \in {Phase(d), "out"}
      BY <1>4 DEF Connected, ServerGoes, Phase, Mine, instance
    <2> QED  BY <2>1, PhasesLeave
  <1>5. CASE Read
    <2>1. \A d \in Clients : Phase(d)' \in {Phase(d), "out"}
      BY <1>5 DEF Read, ServerGoes, Released, Emptied, Phase, Mine, Messages
    <2> QED  BY <2>1, PhasesLeave
  <1>6. CASE Write
    <2>1. PICK c \in Clients : c = peer
      BY <1>6 DEF Write
    <2>2. Phases[c] = "asked"
      BY <1>6, <2>1 DEF Write, ServerGoes, Phases, Phase, Mine
    <2>3. /\ Phase(c)' = "answered"
          /\ \A d \in Clients \ {c} : Phase(d)' = Phase(d)
      BY <1>6, <2>1 DEF Write, ServerGoes, SentBack, Phase, Mine, Messages
    <2>4. Service!Answer(c)
      BY <2>2, <2>3, OneMoves DEF Service!Answer, Service!Goes, Phases
    <2> QED  BY <2>4 DEF Service!EchoNext
  <1>7. CASE Written
    <2>1. \A d \in Clients : Phase(d)' \in {Phase(d), "out"}
      BY <1>7 DEF Written, ServerGoes, Received, Phase, Mine, instance, Messages
    <2> QED  BY <2>1, PhasesLeave
  <1> QED  BY <1>1, <1>2, <1>3, <1>4, <1>5, <1>6, <1>7 DEF Server

LEMMA ClientPhases ==
    ASSUME IndInv, NEW c \in Clients,
           Works(c) \/ User(c) \/ Open(c) \/ OpenThrows(c) \/ Crash(c)
    PROVE  [Service!EchoNext]_Phases
  <1> USE PipeAssumption, MessageType
      DEF IndInv, TypeOK, KindsOK, LeftOK, InstanceOK, PeerOK, Free, Waited, Message,
          Goes, Mine, instance, Ended, Over
  <1>1. CASE SetMode(c) \/ PipeBreaks(c) \/ CallWaits(c) \/ CallWakes(c)
             \/ CallThrows(c) \/ OpenThrows(c) \/ Last(c) \/ Close(c) \/ Crash(c)
    <2>1. \A d \in Clients : Phase(d)' \in {Phase(d), "out"}
      BY <1>1 DEF SetMode, PipeBreaks, CallWaits, CallWakes, CallThrows, OpenThrows,
                  Throws, Last, Close, Crash, Phase
    <2> QED  BY <2>1, PhasesLeave
  <1>2. CASE Order(c)
    <2>1. \A d \in Clients : Phase(d)' \in {Phase(d), "out"}
      BY <1>2 DEF Order, Step, Phase
    <2> QED  BY <2>1, PhasesLeave
  <1>3. CASE Open(c) \/ Call(c)
    <2>1. Phases[c] = "out"
      BY <1>3 DEF Open, Call, Takes, Phases, Phase
    <2>2. Phase(c)' = "queued" /\ \A d \in Clients \ {c} : Phase(d)' = Phase(d)
      BY <1>3 DEF Open, Call, Takes, Phase
    <2>3. Service!Join(c)
      BY <2>1, <2>2, OneMoves DEF Service!Join, Service!Goes, Phases
    <2> QED  BY <2>3 DEF Service!EchoNext
  <1>4. CASE Send(c) /\ server \in {"connect", "connecting"}
    <2>1. \A d \in Clients : Phase(d)' \in {Phase(d), "out"}
      BY <1>4 DEF Send, Phase
    <2> QED  BY <2>1, PhasesLeave
  <1>5. CASE Send(c) /\ server \notin {"connect", "connecting"}
    <2>1. Phases[c] = "ready"
      BY <1>5 DEF Send, Phases, Phase
    <2>2. Phase(c)' = "asked" /\ \A d \in Clients \ {c} : Phase(d)' = Phase(d)
      BY <1>5 DEF Send, Phase, Messages
    <2>3. Service!Ask(c)
      BY <2>1, <2>2, OneMoves DEF Service!Ask, Service!Goes, Phases
    <2> QED  BY <2>3 DEF Service!EchoNext
  <1>6. CASE Reply(c) /\ Kind[c] = "ClientNPct"
    <2>1. \A d \in Clients : Phase(d)' \in {Phase(d), "out"}
      BY <1>6 DEF Reply, Phase
    <2> QED  BY <2>1, PhasesLeave
  <1>7. CASE Reply(c) /\ Kind[c] # "ClientNPct"
    <2>1. Phases[c] = "answered"
      BY <1>7 DEF Reply, Phases, Phase
    <2>2. Phase(c)' = "ready" /\ \A d \in Clients \ {c} : Phase(d)' = Phase(d)
      BY <1>7 DEF Reply, Step, Phase
    <2>3. Service!Receive(c)
      BY <2>1, <2>2, OneMoves DEF Service!Receive, Service!Goes, Phases
    <2> QED  BY <2>3 DEF Service!EchoNext
  <1> QED
    BY <1>1, <1>2, <1>3, <1>4, <1>5, <1>6, <1>7 DEF Works, User

(* The programs of lab6 implement the echo service.                        *)
THEOREM ImplementsEcho == Spec => ImplementsService
  <1>1. Init => Service!EchoInit
    BY DEF Init, Service!EchoInit, Phase, Mine
  <1>2. IndInv /\ [Next]_vars => [Service!EchoNext]_Phases
    <2> SUFFICES ASSUME IndInv, [Next]_vars PROVE [Service!EchoNext]_Phases
      OBVIOUS
    <2>1. CASE Kill
      <3>1. \A d \in Clients : Phase(d)' \in {Phase(d), "out"}
        BY <2>1 DEF Kill, ServerEnds, InstanceIs, Phase, Mine
      <3> QED  BY <3>1, PhasesLeave
    <2>2. CASE UNCHANGED vars
      <3>1. \A d \in Clients : Phase(d)' \in {Phase(d), "out"}
        BY <2>2 DEF vars, Phase, Mine
      <3> QED  BY <3>1, PhasesLeave
    <2> QED  BY <2>1, <2>2, ServerPhases, ClientPhases DEF Next
  <1> QED
    BY <1>1, <1>2, Inductive, PTL
       DEF Spec, ImplementsService, Service!EchoSpec, Phases

=============================================================================
