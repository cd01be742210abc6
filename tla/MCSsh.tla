------------------------------- MODULE MCSsh --------------------------------
(***************************************************************************)
(* Small instances of SshSessions: a name that the DNS server knows, with  *)
(* an address of each family, and one of the network map, with an address  *)
(* of the node itself.                                                     *)
(***************************************************************************)
EXTENDS SshSessions

CONSTANTS a4, a6, own4, dns4, web, node

MCV4 == {a4, own4, dns4}
MCV6 == {a6}
MCZone == [n \in {web, node} |-> IF n = web THEN {a4, a6} ELSE {own4, dns4}]
=============================================================================
