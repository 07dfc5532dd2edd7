---------------------- MODULE MCTransactionController ----------------------
(***************************************************************************)
(* Instances of TransactionController for TLC: one extension with two      *)
(* parts, one instance and two versions, and two clients whose requests    *)
(* are taken from a different set of operations in each run.               *)
(***************************************************************************)
EXTENDS TransactionController, TLC

CONSTANTS c1, c2, e1, p1, p2, i1, v1, v2

MCClients == {c1, c2}
ClientSymmetry == Permutations(MCClients)
MCExtensions == {e1}
MCParts == {p1, p2}
MCOnePart == {p1}
MCInstances == {i1}
MCVersions == {v1, v2}

Request(kind, v) == [kind |-> kind, ext |-> e1, version |-> v, inst |-> i1]

(* Writers of the same objects.                                             *)
InstallUpgrade ==
  {Request("install", v1), Request("upgrade", v1), Request("uninstall", v1)}

(* The operations that relate an extension to its instances.                *)
InstallInstances ==
  {Request("install", v1), Request("createInstance", v1),
   Request("uninstall", v1), Request("deleteInstance", v1)}

(* Requests that need a second connection, or may need one, and a request   *)
(* that reads with an extension's method.                                   *)
ReadsInstall ==
  {Request("listAvailable", v1), Request("listInstalled", v1), Request("install", v1)}
=============================================================================
