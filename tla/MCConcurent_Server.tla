------------------------- MODULE MCConcurent_Server -------------------------
(* Instances of Concurent_Server for TLC.                                  *)
EXTENDS Concurent_Server, TLC

(* No action and no safety property names a client.                        *)
Symmetry == Permutations(Clients)

=============================================================================
