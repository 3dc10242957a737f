------------------------------- MODULE MCInvites -------------------------------
(* Instances of Invites for TLC. *)
EXTENDS Invites, TLC

CONSTANTS e1, e2, i1, i2, r1, r2

MCSymmetry == Permutations(Requests) \cup Permutations(Invites)
===============================================================================
