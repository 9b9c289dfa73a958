------------------------------ MODULE MCPlanning ------------------------------
(* Planning on a small instance: one row of each kind but two trips, under two *)
(* overlapping requests, and a station that clients name and nobody created.   *)
EXTENDS Planning, TLC

Symmetry == Permutations(Requests) \cup Permutations(Trips)
===============================================================================
