----------------------------- MODULE MCSharedPV -----------------------------
(* Symmetry of the threads and of the channels, for model checking.        *)
EXTENDS SharedPV, TLC

Symmetry == Permutations(Users) \cup Permutations(Channels)
=============================================================================
