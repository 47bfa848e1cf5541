------------------------- MODULE MCConcurrentServer -------------------------
(* Instances of ConcurrentServer for TLC.                                  *)
EXTENDS ConcurrentServer, TLC

(* No action and no safety property names a client.                        *)
Symmetry == Permutations(Clients)

=============================================================================
