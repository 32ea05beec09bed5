--------------------------- MODULE MCSubnetCommands ----------------------------
(***************************************************************************)
(* A root with one child.  The config is right, names the wrong node for   *)
(* the child or for the root, lacks an entry, a token or accounts, or has  *)
(* another gateway and other accounts.                                     *)
(***************************************************************************)
EXTENDS SubnetCommands

MCSubnets == {"root", "child"}
MCParentOf == [s \in {"child"} |-> "root"]
MCUrls == {"rootUrl", "childUrl"}
MCNetworkAt == [u \in MCUrls |-> IF u = "rootUrl" THEN "root" ELSE "child"]

RootEntry == [url |-> "rootUrl", token |-> TRUE, accounts |-> <<"alice", "bob">>, gateway |-> "g1"]
ChildEntry == [RootEntry EXCEPT !.url = "childUrl"]
Right == [s \in MCSubnets |-> IF s = "root" THEN RootEntry ELSE ChildEntry]

MCConfigs ==
  {Right,
   [Right EXCEPT !["child"] = RootEntry],
   [Right EXCEPT !["root"] = ChildEntry],
   [Right EXCEPT !["root"].gateway = "g2", !["root"].accounts = <<"bob">>],
   [Right EXCEPT !["child"].gateway = "g2", !["child"].accounts = <<>>],
   [s \in {"child"} |-> [ChildEntry EXCEPT !.token = FALSE]]}
===============================================================================
