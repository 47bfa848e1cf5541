----------------------------- MODULE LossyEcho -----------------------------
(***************************************************************************)
(* What lab3's echo over UDP promises a client, which is less than         *)
(* EchoService: clients are served side by side, and a client that asked   *)
(* gets one answer or, if its question is lost, none for ever, since it    *)
(* never asks again on its own.                                            *)
(***************************************************************************)
EXTENDS Naturals

CONSTANT Clients

VARIABLE phase  \* phase[c]: how far client c is with its question

LossyTypeOK == phase \in [Clients -> {"free", "asked", "answered", "lost", "gone"}]

LossyInit == phase = [c \in Clients |-> "free"]

(* The question is on its way, or refused at once, or lost at once.        *)
Ask(c) ==
    /\ phase[c] = "free"
    /\ \E p \in {"asked", "answered", "lost"} : phase' = [phase EXCEPT ![c] = p]

Answer(c) ==
    /\ phase[c] = "asked"
    /\ phase' = [phase EXCEPT ![c] = "answered"]

Receive(c) ==
    /\ phase[c] = "answered"
    /\ phase' = [phase EXCEPT ![c] = "free"]

(* The server ends, and every question it has not answered is lost.        *)
Lose ==
    phase' = [c \in Clients |-> IF phase[c] = "asked" THEN "lost" ELSE phase[c]]

Leave(c) == phase' = [phase EXCEPT ![c] = "gone"]

LossyNext ==
    Lose \/ \E c \in Clients : Ask(c) \/ Answer(c) \/ Receive(c) \/ Leave(c)

LossySpec == LossyInit /\ [][LossyNext]_phase

=============================================================================
