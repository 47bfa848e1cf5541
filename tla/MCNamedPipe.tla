---------------------------- MODULE MCNamedPipe ----------------------------
(* Instances of NamedPipe for TLC: a client that opens the pipe in each    *)
(* mode, and two that call it.                                             *)
EXTENDS NamedPipe, TLC

CONSTANTS c1, c2, c3, c4

EachKind ==
    c1 :> "ClientNP" @@ c2 :> "ClientNPt" @@ c3 :> "ClientNPct"
        @@ c4 :> "ClientNPct"

=============================================================================
