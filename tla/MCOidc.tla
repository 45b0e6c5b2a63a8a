------------------------------- MODULE MCOidc -------------------------------
(***************************************************************************)
(* Instances of Oidc for TLC.                                              *)
(***************************************************************************)
EXTENDS Oidc, TLC

\* Two providers: one that may be moved to the issuer of the other, which
\* then vouches for a name that belonged to another, and one that is disabled.
MCOffers == {[name |-> "n1", issuer |-> "i1", enabled |-> TRUE],
             [name |-> "n1", issuer |-> "i2", enabled |-> TRUE],
             [name |-> "n2", issuer |-> "i2", enabled |-> FALSE]}

\* Ids, tokens, codes and goroutines are interchangeable.
Symmetry == Permutations(Workers) \cup Permutations(Ids) \cup Permutations(Tokens)
            \cup Permutations(Codes)
=============================================================================
