------------------------------- MODULE MCMail -------------------------------
(***************************************************************************)
(* Instances of Mail for TLC.                                              *)
(***************************************************************************)
EXTENDS Mail, TLC

CONSTANTS va, vb  \* two values of a setting

All(v) == [k \in Fields |-> v]

\* No configuration file, or one with every field.
MCConfigs == {None, All(va)}

\* A new installation, or one with settings.
MCStored == {All(None), All(va)}

\* A whole server, another one, and a new sender address only.
MCEdits == {All(va), All(vb), [from |-> vb]}

\* Two addresses, the first entry of the list being empty.
MCLists == {<<None, "x", "y">>}

Symmetry == Permutations(Tabs)
=============================================================================
