-------------------------------- MODULE MCWeb --------------------------------
(***************************************************************************)
(* Instances of Web for TLC.                                               *)
(***************************************************************************)
EXTENDS Web

MCIfaces == <<"wg0", "wg1">>
MCPaths == {Home, List, LogsOf(None), LogsOf("wg0"),
            [page |-> "new", id |-> None],
            [page |-> "detail", id |-> "wg0"],
            [page |-> "config", id |-> "wg0"], [page |-> "users", id |-> None]}
MCEntries == {Home, LogsOf("wg0"), [page |-> "detail", id |-> "wg0"],
              [page |-> "config", id |-> "wg0"], [page |-> "users", id |-> None]}
=============================================================================
