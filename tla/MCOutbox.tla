------------------------------ MODULE MCOutbox -------------------------------
(* Small instances of Outbox for TLC. *)
EXTENDS Outbox, TLC

CONSTANTS c1, c2, w1, w2

ProcessSymmetry == Permutations(Client) \cup Permutations(Dispatcher)
=============================================================================
