------------------------------ MODULE MCPoller ------------------------------
(***************************************************************************)
(* Instances of Poller for TLC.                                            *)
(***************************************************************************)
EXTENDS Poller, TLC

\* Peers are interchangeable.
Symmetry == Permutations(Peers)
=============================================================================
