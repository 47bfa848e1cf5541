------------------------------ MODULE MCMailslot ------------------------------
(* Instances of Mailslot for TLC.                                          *)
EXTENDS Mailslot, TLC

=============================================================================
