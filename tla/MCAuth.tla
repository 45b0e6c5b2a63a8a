------------------------------- MODULE MCAuth -------------------------------
(***************************************************************************)
(* Instances of Auth for TLC.                                              *)
(***************************************************************************)
EXTENDS Auth, TLC

\* All ids are interchangeable.
Symmetry == Permutations(Workers) \cup Permutations(Users)
            \cup Permutations(Sessions) \cup Permutations(Bases)
=============================================================================
