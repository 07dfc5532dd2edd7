---------------------------- MODULE Operations ----------------------------
(***************************************************************************)
(* The operations of the extension manager's controller and the database   *)
(* objects they work on: the vocabulary that the specification of what the *)
(* controller promises (AtomicOperations) and the specification of how it  *)
(* keeps the promise (TransactionController) share.                        *)
(*                                                                         *)
(* The database is a function from keys to values.  A key is the extension *)
(* schema, one of the objects an extension installs (its scripts and       *)
(* connections, "parts"), or an instance of an extension.                  *)
(***************************************************************************)
CONSTANTS
  Extensions,    \* ids of the extensions in the registry
  Parts,         \* database objects that make up an installed extension
  Instances,     \* ids of instances (virtual schemas)
  Versions,      \* versions an extension can be installed in
  Latest,        \* the version upgrade() installs
  Listing,       \* the extensions whose findInstances() is implemented
  Requested,     \* the operations clients ask for
  Serializable,  \* TRUE: the database refuses conflicting commits
  Schema,        \* the key of the extension schema
  Present,       \* value of the schema and of instances
  Absent,        \* value of a key whose object does not exist
  Unwritten      \* mark of a key a transaction has not written

WriteKinds == {"install", "uninstall", "upgrade", "createInstance", "deleteInstance"}
ReadKinds == {"listAvailable", "listInstalled", "parameters", "listInstances"}

(* The extension schema is created by these operations (ensureSchemaExists). *)
SchemaKinds == {"install", "createInstance"}

Operation == [kind : WriteKinds \cup ReadKinds, ext : Extensions,
              version : Versions, inst : Instances]

PartKeys(e) == {e} \X Parts
InstanceKeys(e) == {e} \X Instances
ExtensionKeys(e) == PartKeys(e) \cup InstanceKeys(e)
Keys == {Schema} \cup (Extensions \X (Parts \cup Instances))

Values == Versions \cup {Present, Absent}

Database == [Keys -> Values]
Writes == [Keys -> Values \cup {Unwritten}]

EmptyDatabase == [k \in Keys |-> Absent]
AnyOperation == CHOOSE o \in Requested : TRUE  \* before the first request
NoWrites == [k \in Keys |-> Unwritten]

ASSUME OperationsAssumption ==
  /\ Latest \in Versions
  /\ Listing \subseteq Extensions
  /\ Requested \subseteq Operation
  /\ Requested # {}
  /\ Serializable \in BOOLEAN
  /\ Parts \cap Instances = {}
  /\ Schema \notin Extensions \X (Parts \cup Instances)
  /\ Unwritten \notin Values
  /\ Absent \notin Versions \cup {Present}

----------------------------------------------------------------------------
Assign(keys, v) == [k \in Keys |-> IF k \in keys THEN v ELSE Unwritten]

Overlay(w, d) == [k \in Keys |-> IF w[k] = Unwritten THEN d[k] ELSE w[k]]

(* What the extension's JavaScript method writes for an operation.  The     *)
(* methods that answer a read are not supposed to write, but they get the   *)
(* same SQL client: a stray write of one is the assignment to an instance.  *)
Script(o) ==
  CASE o.kind = "install"        -> Assign(PartKeys(o.ext), o.version)
    [] o.kind = "uninstall"      -> Assign(PartKeys(o.ext), Absent)
    [] o.kind = "upgrade"        -> Assign(PartKeys(o.ext), Latest)
    [] o.kind = "createInstance" -> Assign({<<o.ext, o.inst>>}, Present)
    [] o.kind = "deleteInstance" -> Assign({<<o.ext, o.inst>>}, Absent)
    [] o.kind = "listAvailable"  -> NoWrites
    [] OTHER                     -> Assign({<<o.ext, o.inst>>}, Present)

(* The whole effect of an operation that changes the database.              *)
Effect(o) ==
  [k \in Keys |-> IF k = Schema /\ o.kind \in SchemaKinds THEN Present
                                                          ELSE Script(o)[k]]

Installed(d, e) == \A k \in PartKeys(e) : d[k] # Absent
HasInstances(d, e) == \E k \in InstanceKeys(e) : d[k] # Absent

(* The database rejects an instance whose extension's objects are missing,  *)
(* and upgrade() throws when the extension is not installed.                *)
Executable(o, d) == o.kind \in {"createInstance", "upgrade"} => Installed(d, o.ext)

(* The instance check of verifyNoInstances: an extension that cannot list   *)
(* its instances passes it.                                                 *)
NoInstancesRemain(o, d) ==
  o.kind = "uninstall" /\ o.ext \in Listing => ~HasInstances(d, o.ext)

Permitted(o, d) == Executable(o, d) /\ NoInstancesRemain(o, d)
=============================================================================
