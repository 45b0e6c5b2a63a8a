------------------------------- MODULE MCAddr -------------------------------
(***************************************************************************)
(* Instances of Addr for TLC.                                              *)
(***************************************************************************)
EXTENDS Addr, TLC

CONSTANTS p1, p2, p3  \* peer ids

\* Subnets of one, two, four and eight addresses; one crosses a byte.
MCSubnets == {[ip |-> 6, size |-> 1], [ip |-> 6, size |-> 2], [ip |-> 5, size |-> 4],
              [ip |-> 9, size |-> 8]}

\* Nothing, or a site's gateway that was set up over the API and a client
\* without a name, as an import leaves it.
MCExisting == {<<>>,
    <<[id |-> p1, name |-> "c", addr |-> 6, nets |-> <<6, 1>>, ka |-> 0, ep |-> "e",
       alert |-> TRUE]>>,
    <<[id |-> p1, name |-> None, addr |-> None, nets |-> <<10>>, ka |-> 25, ep |-> None,
       alert |-> FALSE],
      [id |-> p2, name |-> "b", addr |-> 10, nets |-> <<10>>, ka |-> 25, ep |-> None,
       alert |-> TRUE]>>}

MCNetChoices == {<<>>, <<1>>}
MCHooks == <<"c1", "c2">>

Symmetry == Permutations(Tabs)
=============================================================================
