----------------------------- MODULE MCWgManager -----------------------------
(***************************************************************************)
(* Instances of WgManager for TLC.                                         *)
(***************************************************************************)
EXTENDS WgManager, TLC

\* Peer ids, interface keys and workers are interchangeable, and so are the
\* interfaces where Preset is all of them or none.
Symmetry == Permutations(Peers) \cup Permutations(Workers) \cup Permutations(Keys)

SymmetryAll == Symmetry \cup Permutations(Ifaces)
=============================================================================
