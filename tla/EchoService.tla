---------------------------- MODULE EchoService ----------------------------
(***************************************************************************)
(* What the echo servers of lab2 (TCP) and lab6 (named pipe) promise their *)
(* clients: they serve one client at a time, each message of a client is   *)
(* answered once, and a client sends the next one after the answer.        *)
(***************************************************************************)
EXTENDS Naturals, FiniteSets

CONSTANT Clients

VARIABLE phase  \* phase[c]: how far client c is

Admitted == {c \in Clients : phase[c] \in {"ready", "asked", "answered"}}

EchoTypeOK ==
    phase \in [Clients -> {"out", "queued", "ready", "asked", "answered"}]

EchoInit == phase = [c \in Clients |-> "out"]

Goes(c, from, to) ==
    /\ phase[c] = from
    /\ phase' = [phase EXCEPT ![c] = to]

Join(c) == Goes(c, "out", "queued")

(* A client may have sent its first message before it is admitted.         *)
Admit(c) ==
    /\ Admitted = {}
    /\ Goes(c, "queued", "ready") \/ Goes(c, "queued", "asked")

Ask(c) == Goes(c, "ready", "asked")

Answer(c) == Goes(c, "asked", "answered")

Receive(c) == Goes(c, "answered", "ready")

(* Clients end their sessions, or the server ends and takes them all.      *)
Leave(S) ==
    /\ \A c \in S : phase[c] # "out"
    /\ phase' = [c \in Clients |-> IF c \in S THEN "out" ELSE phase[c]]

EchoNext ==
    \/ \E c \in Clients :
          Join(c) \/ Admit(c) \/ Ask(c) \/ Answer(c) \/ Receive(c)
    \/ \E S \in SUBSET Clients : Leave(S)

EchoSpec == EchoInit /\ [][EchoNext]_phase

-----------------------------------------------------------------------------
(* The servers serve one client at a time.                                 *)
OneAtATime == \A c, d \in Admitted : c = d

=============================================================================
