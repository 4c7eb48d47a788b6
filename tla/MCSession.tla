------------------------------ MODULE MCSession ------------------------------
(* Instances of SessionProperties: one session, every request addressed to it. *)
EXTENDS SessionProperties

CONSTANT c1

OneSession == [q \in Requests |-> c1]

=============================================================================
