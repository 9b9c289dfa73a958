------------------------------ MODULE MCTripWalk ------------------------------
(* Every trip of four stops that two people can ride, in a car of one seat.   *)
EXTENDS TripWalk, TLC

Symmetry == Permutations(People)
===============================================================================
