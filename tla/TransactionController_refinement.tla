------------------ MODULE TransactionController_refinement ------------------
(***************************************************************************)
(* Proof that TransactionController implements AtomicOperations, and what  *)
(* follows from it for the committed database.                             *)
(*                                                                         *)
(* The step that maps to TakeEffect is CommitTransaction.  It commits what *)
(* the request wrote over several steps, from a snapshot that may be old,  *)
(* and the inductive invariant says that this is the whole effect of the   *)
(* operation on the database at the time of the commit.                    *)
(***************************************************************************)
EXTENDS TransactionController_proofs

USE DEF txVars, bfsVars, requestVars, Goto, Write, Kind

----------------------------------------------------------------------------
(* The path of a request: which operations come to which point.             *)
OnPath(c) ==
  /\ pc[c] = "metadata" => Kind(c) = "listInstalled"
  /\ pc[c] = "list" => Kind(c) = "listAvailable"
  /\ pc[c] = "verify" => Kind(c) = "uninstall"
  /\ pc[c] = "schema" => Kind(c) \in SchemaKinds
  /\ pc[c] = "params" => Kind(c) = "createInstance"
  /\ pc[c] \in {"commit", "txCommit"} => Kind(c) \in WriteKinds

(* A committed transaction belongs to a write that has nothing left to do,  *)
(* and a write that ended well has committed.                               *)
OutcomeKnown(c) ==
  /\ tx[c] = "committed" => pc[c] \in {"rollback", "answer"} /\ Kind(c) \in WriteKinds
  /\ pc[c] \in {"rollback", "answer"} /\ result[c] = "ok" /\ Kind(c) \in WriteKinds
       => tx[c] = "committed"

(* Outside its transaction a request has written nothing.                   *)
NothingWrittenOutside(c) == Outside(c) => writes[c] = NoWrites

(* All that was written is part of the operation's effect.                  *)
PartOfEffect(o, w) == \A k \in Keys : w[k] = Unwritten \/ w[k] = Effect(o)[k]
WritesFit(c) == PartOfEffect(op[c], writes[c])

(* Behind ensureSchemaExists the transaction sees or has written the schema. *)
SchemaThere(w, s) == w[Schema] # Unwritten \/ s[Schema] # Absent
SchemaEnsured(c) ==
  Kind(c) \in SchemaKinds
    /\ pc[c] \in {"params", "script", "bfsBegin", "udf", "commit", "txCommit"}
  => SchemaThere(writes[c], snapshot[c])

(* Behind verifyNoInstances the snapshot holds no instances.                *)
InstancesChecked(c) ==
  Kind(c) = "uninstall"
    /\ pc[c] \in {"script", "bfsBegin", "udf", "commit", "txCommit"}
  => NoInstancesRemain(op[c], snapshot[c])

(* When the method has written, the snapshot allowed it to.                 *)
Begun(o, w) == \E k \in Keys : w[k] # Unwritten /\ Script(o)[k] # Unwritten
ExecutionAllowed(c) ==
  Begun(op[c], writes[c]) => Executable(op[c], snapshot[c])

ClientFaithful(c) ==
  /\ OnPath(c) /\ OutcomeKnown(c) /\ NothingWrittenOutside(c) /\ WritesFit(c)
  /\ SchemaEnsured(c) /\ InstancesChecked(c) /\ ExecutionAllowed(c)

(* The extension schema is never dropped, so what a snapshot shows of it    *)
(* still holds.                                                             *)
SchemaStays ==
  /\ db[Schema] \in {Absent, Present}
  /\ \A c \in Clients : snapshot[c][Schema] # Absent => db[Schema] = Present

Faithful == SchemaStays /\ \A c \in Clients : ClientFaithful(c)

----------------------------------------------------------------------------
(* Facts about effects.  Neither scripts nor instances are the schema.      *)
LEMMA SchemaIsNoObject ==
  ASSUME NEW o \in Requested
  PROVE  /\ Schema \in Keys
         /\ Schema \notin ExtensionKeys(o.ext)
         /\ ExtensionKeys(o.ext) \subseteq Keys
         /\ <<o.ext, o.inst>> \in InstanceKeys(o.ext)
BY OperationsAssumption DEF Operation, ExtensionKeys, PartKeys, InstanceKeys, Keys

(* No method writes the schema.                                             *)
LEMMA ScriptLeavesSchema ==
  ASSUME NEW o \in Requested
  PROVE  Script(o)[Schema] = Unwritten
<1>1. \A keys, v : Schema \notin keys => Assign(keys, v)[Schema] = Unwritten
  BY SchemaIsNoObject DEF Assign
<1>2. NoWrites[Schema] = Unwritten
  BY SchemaIsNoObject DEF NoWrites
<1>3. Schema \notin PartKeys(o.ext) /\ Schema # <<o.ext, o.inst>>
  BY SchemaIsNoObject DEF ExtensionKeys
<1> QED BY <1>1, <1>2, <1>3 DEF Script

(* An uninstallation and a creation write the keys they are for.            *)
LEMMA ScriptKeys ==
  ASSUME NEW o \in Requested
  PROVE  /\ o.kind = "uninstall" => \A k \in InstanceKeys(o.ext) : Script(o)[k] = Unwritten
         /\ o.kind = "createInstance" => Script(o)[<<o.ext, o.inst>>] # Unwritten
         /\ o.kind = "upgrade" => \A k \in PartKeys(o.ext) : Script(o)[k] # Unwritten
         /\ o.kind = "createInstance" => \A k \in PartKeys(o.ext) : Script(o)[k] = Unwritten
<1>1. PartKeys(o.ext) \cap InstanceKeys(o.ext) = {}
  BY OperationsAssumption DEF PartKeys, InstanceKeys
<1>2. PartKeys(o.ext) \subseteq Keys /\ InstanceKeys(o.ext) \subseteq Keys
  BY SchemaIsNoObject DEF ExtensionKeys
<1>3. <<o.ext, o.inst>> \in InstanceKeys(o.ext)
  BY SchemaIsNoObject
<1>4. Present # Unwritten /\ Latest # Unwritten
  BY OperationsAssumption DEF Values
<1>5. o.kind = "uninstall" => \A k \in InstanceKeys(o.ext) : Script(o)[k] = Unwritten
  <2>1. ASSUME o.kind = "uninstall" PROVE Script(o) = Assign(PartKeys(o.ext), Absent)
    BY <2>1 DEF Script
  <2> QED BY <1>1, <1>2, <2>1 DEF Assign
<1>6. ASSUME o.kind = "createInstance"
      PROVE  /\ Script(o)[<<o.ext, o.inst>>] # Unwritten
             /\ \A k \in PartKeys(o.ext) : Script(o)[k] = Unwritten
  <2>1. Script(o) = Assign({<<o.ext, o.inst>>}, Present)
    BY <1>6 DEF Script
  <2> QED BY <1>1, <1>2, <1>3, <1>4, <2>1 DEF Assign
<1>7. o.kind = "upgrade" => \A k \in PartKeys(o.ext) : Script(o)[k] # Unwritten
  <2>1. ASSUME o.kind = "upgrade" PROVE Script(o) = Assign(PartKeys(o.ext), Latest)
    BY <2>1 DEF Script
  <2> QED BY <1>2, <1>4, <2>1 DEF Assign
<1> QED BY <1>5, <1>6, <1>7

(* Outside of the schema an effect is what the method writes.               *)
LEMMA EffectIsScript ==
  ASSUME NEW o \in Requested, NEW k \in Keys
  PROVE  /\ k # Schema => Effect(o)[k] = Script(o)[k]
         /\ k = Schema => Effect(o)[k] = IF o.kind \in SchemaKinds THEN Present ELSE Unwritten
BY ScriptLeavesSchema DEF Effect

(* Nothing written is part of every effect and begins no method.            *)
LEMMA NoWritesFit ==
  ASSUME NEW o
  PROVE  PartOfEffect(o, NoWrites) /\ ~Begun(o, NoWrites)
BY DEF PartOfEffect, Begun, NoWrites

----------------------------------------------------------------------------
LEMMA FaithfulInit == Init => Faithful
<1> SUFFICES ASSUME Init PROVE Faithful
  OBVIOUS
<1>1. \A k \in Keys : EmptyDatabase[k] = Absent
  BY DEF EmptyDatabase
<1>2. Schema \in Keys
  BY DEF Keys
<1>3. SchemaStays
  BY <1>1, <1>2 DEF Init, SchemaStays
<1>4. ASSUME NEW c \in Clients PROVE ClientFaithful(c)
  <2>1. WritesFit(c) /\ ExecutionAllowed(c)
    BY NoWritesFit DEF Init, WritesFit, ExecutionAllowed
  <2> QED BY <2>1 DEF Init, ClientFaithful, OnPath, OutcomeKnown,
       NothingWrittenOutside, SchemaEnsured, InstancesChecked
<1> QED BY <1>3, <1>4 DEF Faithful

LEMMA UntouchedStaysFaithful ==
  ASSUME NEW d \in Clients, ClientFaithful(d), Untouched(d)
  PROVE  ClientFaithful(d)'
BY DEF ClientFaithful, OnPath, OutcomeKnown, NothingWrittenOutside, Outside, WritesFit,
       SchemaEnsured, InstancesChecked, ExecutionAllowed, Untouched

(* The kinds of operations do not overlap, and the schema kinds are writes. *)
LEMMA KindFacts ==
  /\ SchemaKinds \subseteq WriteKinds
  /\ "listAvailable" \notin WriteKinds /\ "listInstalled" \notin WriteKinds
  /\ "uninstall" \notin SchemaKinds
BY DEF SchemaKinds, WriteKinds

(* The steps that write: the schema, and the objects of the extension.      *)
LEMMA EnsureSchemaFaithful ==
  ASSUME TypeOK, NEW c \in Clients, ClientFaithful(c), EnsureSchemaExists(c)
  PROVE  ClientFaithful(c)'
<1> USE DEF EnsureSchemaExists
<1>1. /\ op[c] \in Requested /\ writes[c] \in Writes /\ snapshot[c] \in Database
      /\ op' = op /\ snapshot' = snapshot /\ tx' = tx /\ result' = result
      /\ Kind(c) \in SchemaKinds
      /\ pc'[c] \in {"params", "script"}
      /\ pc'[c] = "params" => Kind(c) = "createInstance"
  BY DEF TypeOK, ClientFaithful, OnPath
<1>2. Schema \in Keys /\ Effect(op[c])[Schema] = Present /\ Script(op[c])[Schema] = Unwritten
  BY <1>1, EffectIsScript, SchemaIsNoObject, ScriptLeavesSchema
<1>3. Present # Unwritten
  BY OperationsAssumption DEF Values
<1>4. WritesFit(c)'
  <2>1. CASE writes' = writes
    BY <1>1, <2>1 DEF ClientFaithful, WritesFit
  <2>2. CASE writes' = [writes EXCEPT ![c][Schema] = Present]
    BY <1>1, <1>2, <2>2 DEF TypeOK, Writes, ClientFaithful, WritesFit, PartOfEffect
  <2> QED BY <2>1, <2>2
<1>5. SchemaEnsured(c)'
  <2>1. CASE View(c)[Schema] = Absent
    BY <1>1, <1>2, <1>3, <2>1 DEF TypeOK, Writes, SchemaEnsured, SchemaThere
  <2>2. CASE View(c)[Schema] # Absent
    BY <1>1, <1>2, <2>2 DEF View, Overlay, SchemaEnsured, SchemaThere
  <2> QED BY <2>1, <2>2
<1>6. ExecutionAllowed(c)'
  <2>1. \A k \in Keys \ {Schema} : writes'[c][k] = writes[c][k]
    BY <1>1 DEF TypeOK, Writes
  <2>2. Begun(op[c], writes'[c]) => Begun(op[c], writes[c])
    BY <1>2, <2>1 DEF Begun
  <2> QED BY <1>1, <2>2 DEF ClientFaithful, ExecutionAllowed
<1>7. OnPath(c)' /\ OutcomeKnown(c)' /\ NothingWrittenOutside(c)' /\ InstancesChecked(c)'
  BY <1>1, KindFacts DEF TypeOK, ClientFaithful, OnPath, OutcomeKnown,
     NothingWrittenOutside, Outside, InstancesChecked, SchemaKinds
<1> QED BY <1>4, <1>5, <1>6, <1>7 DEF ClientFaithful

LEMMA ExecuteFaithful ==
  ASSUME TypeOK, NEW c \in Clients, ClientFaithful(c),
         NEW k \in Keys, ExecuteStatement(c, k)
  PROVE  ClientFaithful(c)'
<1> USE DEF ExecuteStatement
<1>1. /\ op[c] \in Requested /\ writes[c] \in Writes /\ snapshot[c] \in Database
      /\ op' = op /\ snapshot' = snapshot /\ tx' = tx /\ result' = result /\ pc' = pc
      /\ pc[c] = "script"
      /\ Script(op[c])[k] # Unwritten /\ writes[c][k] = Unwritten
      /\ writes' = [writes EXCEPT ![c][k] = Script(op[c])[k]]
  BY DEF TypeOK, Remaining
<1>2. k # Schema /\ Effect(op[c])[k] = Script(op[c])[k]
  BY <1>1, ScriptLeavesSchema, EffectIsScript
<1>3. \A l \in Keys : writes'[c][l] = IF l = k THEN Script(op[c])[k] ELSE writes[c][l]
  BY <1>1 DEF TypeOK, Writes
<1>4. WritesFit(c)'
  BY <1>1, <1>2, <1>3 DEF ClientFaithful, WritesFit, PartOfEffect
<1>5. SchemaEnsured(c)'
  BY <1>1, <1>2, <1>3, SchemaIsNoObject
  DEF ClientFaithful, SchemaEnsured, SchemaThere
<1>6. Executable(op[c], snapshot[c])
  <2>1. CASE Begun(op[c], writes[c])
    BY <2>1 DEF ClientFaithful, ExecutionAllowed
  <2>2. CASE ~Begun(op[c], writes[c])
    <3>1. \A l \in PartKeys(op[c].ext) : l \in Keys /\ l # Schema
      BY <1>1, SchemaIsNoObject DEF ExtensionKeys
    <3>2. \A l \in PartKeys(op[c].ext) : writes[c][l] = Unwritten
      BY <1>1, <2>2, <3>1, EffectIsScript DEF ClientFaithful, WritesFit, PartOfEffect, Begun
    <3>3. \A l \in PartKeys(op[c].ext) : View(c)[l] = snapshot[c][l]
      BY <3>1, <3>2 DEF View, Overlay
    <3> QED BY <1>1, <3>3 DEF Executable, Installed
  <2> QED BY <2>1, <2>2
<1>7. ExecutionAllowed(c)'
  BY <1>1, <1>6 DEF ExecutionAllowed
<1>8. OnPath(c)' /\ OutcomeKnown(c)' /\ NothingWrittenOutside(c)' /\ InstancesChecked(c)'
  BY <1>1 DEF TypeOK, ClientFaithful, OnPath, OutcomeKnown,
     NothingWrittenOutside, Outside, InstancesChecked
<1> QED BY <1>4, <1>5, <1>7, <1>8 DEF ClientFaithful

(* The check for instances sees the snapshot: an uninstallation has written *)
(* no instance of its own.                                                  *)
LEMMA VerifyFaithful ==
  ASSUME TypeOK, NEW c \in Clients, ClientFaithful(c), VerifyNoInstances(c)
  PROVE  ClientFaithful(c)'
<1> USE DEF VerifyNoInstances
<1>1. /\ op[c] \in Requested /\ op[c].kind = "uninstall"
      /\ UNCHANGED <<op, snapshot, writes, tx, result>> /\ pc'[c] = "script"
  BY DEF TypeOK, ClientFaithful, OnPath
<1>2. ASSUME NEW k \in InstanceKeys(op[c].ext) PROVE View(c)[k] = snapshot[c][k]
  <2>1. k \in Keys /\ k # Schema
    BY <1>1, SchemaIsNoObject DEF ExtensionKeys
  <2>2. Effect(op[c])[k] = Script(op[c])[k]
    BY <1>1, <2>1, EffectIsScript
  <2>3. Script(op[c])[k] = Unwritten
    <3>1. \A i \in InstanceKeys(op[c].ext) : Script(op[c])[i] = Unwritten
      BY <1>1, ScriptKeys, Zenon
    <3> QED BY <1>2, <3>1
  <2> QED BY <2>1, <2>2, <2>3 DEF View, Overlay, ClientFaithful, WritesFit, PartOfEffect
<1>3. NoInstancesRemain(op[c], snapshot[c])
  BY <1>2 DEF NoInstancesRemain, HasInstances
<1>4. InstancesChecked(c)'
  BY <1>1, <1>3 DEF InstancesChecked
<1> QED BY <1>1, <1>4, KindFacts DEF TypeOK, ClientFaithful, OnPath, OutcomeKnown,
  NothingWrittenOutside, Outside, WritesFit, SchemaEnsured, ExecutionAllowed

(* The steps that begin, commit and end the transaction.                    *)
LEMMA BeginFaithful ==
  ASSUME TypeOK, NEW c \in Clients, ClientFaithful(c), BeginTransaction(c)
  PROVE  ClientFaithful(c)'
<1>1. /\ pc[c] = "begin" /\ writes[c] = NoWrites /\ UNCHANGED <<op, writes, result>>
      /\ tx'[c] = "open" /\ pc'[c] = AfterBegin(Kind(c))
  BY DEF BeginTransaction, TypeOK, ClientFaithful, NothingWrittenOutside, Outside
<1>2. /\ pc'[c] \in {"bfsBegin", "metadata", "load"}
      /\ pc'[c] = "bfsBegin" <=> Kind(c) = "listAvailable"
      /\ pc'[c] = "metadata" <=> Kind(c) = "listInstalled"
  BY <1>1 DEF AfterBegin
<1>3. WritesFit(c)' /\ ExecutionAllowed(c)'
  BY <1>1, NoWritesFit DEF WritesFit, ExecutionAllowed
<1>4. "listAvailable" \notin SchemaKinds \cup {"uninstall"}
  BY DEF SchemaKinds
<1> QED BY <1>1, <1>2, <1>3, <1>4 DEF ClientFaithful, OnPath, OutcomeKnown,
  NothingWrittenOutside, Outside, SchemaEnsured, InstancesChecked

LEMMA CommitFaithful ==
  ASSUME TypeOK, NEW c \in Clients, ClientFaithful(c),
         CommitTransaction(c) \/ CommitTransactionFails(c)
  PROVE  ClientFaithful(c)'
<1>1. /\ pc[c] = "txCommit" /\ pc'[c] = "rollback" /\ Kind(c) \in WriteKinds
      /\ UNCHANGED <<op, snapshot, writes>>
      /\ tx'[c] = "committed" \/ result'[c] = "error"
  BY DEF CommitTransaction, CommitTransactionFails, TypeOK, ClientFaithful, OnPath
<1> QED BY <1>1 DEF ClientFaithful, OnPath, OutcomeKnown, NothingWrittenOutside,
  Outside, WritesFit, SchemaEnsured, InstancesChecked, ExecutionAllowed

LEMMA RollbackFaithful ==
  ASSUME TypeOK, NEW c \in Clients, ClientFaithful(c), Rollback(c)
  PROVE  ClientFaithful(c)'
<1>1. /\ pc[c] = "rollback" /\ UNCHANGED <<op, result>> /\ writes'[c] = NoWrites
      /\ tx'[c] = "committed" <=> tx[c] = "committed"
      /\ pc'[c] = IF Kind(c) = "listAvailable" /\ result[c] = "ok" THEN "load" ELSE "answer"
  BY DEF Rollback, TypeOK
<1>2. WritesFit(c)' /\ ExecutionAllowed(c)'
  BY <1>1, NoWritesFit DEF WritesFit, ExecutionAllowed
<1> QED BY <1>1, <1>2, KindFacts DEF ClientFaithful, OnPath, OutcomeKnown,
  NothingWrittenOutside, SchemaEnsured, InstancesChecked

LEMMA AnswerFaithful ==
  ASSUME TypeOK, NEW c \in Clients, ClientFaithful(c),
         NEW r \in {"success", "error", "lost"}, Answer(c, r)
  PROVE  ClientFaithful(c)'
<1>1. /\ pc[c] = "answer" /\ pc'[c] = "idle" /\ tx'[c] = "none"
      /\ writes'[c] = NoWrites
  BY DEF Answer, TypeOK, ClientFaithful, NothingWrittenOutside, Outside
<1>2. WritesFit(c)' /\ ExecutionAllowed(c)'
  BY <1>1, NoWritesFit DEF WritesFit, ExecutionAllowed
<1> QED BY <1>1, <1>2 DEF ClientFaithful, OnPath, OutcomeKnown,
  NothingWrittenOutside, SchemaEnsured, InstancesChecked

LEMMA ReceiveFaithful ==
  ASSUME TypeOK, NEW c \in Clients, ClientFaithful(c),
         NEW o \in Requested, Receive(c, o)
  PROVE  ClientFaithful(c)'
<1>1. /\ pc'[c] \in {"begin", "answer"} /\ writes'[c] = NoWrites
      /\ pc'[c] = "answer" => result'[c] = "error"
      /\ tx'[c] # "committed"
  BY DEF Receive, TypeOK, ClientFaithful, NothingWrittenOutside, Outside, OutcomeKnown
<1>2. WritesFit(c)' /\ ExecutionAllowed(c)'
  BY <1>1, NoWritesFit DEF WritesFit, ExecutionAllowed
<1> QED BY <1>1, <1>2 DEF ClientFaithful, OnPath, OutcomeKnown,
  NothingWrittenOutside, SchemaEnsured, InstancesChecked

----------------------------------------------------------------------------
(* The remaining steps leave the operation, the snapshot and the writes     *)
(* alone: what matters is where they go.                                    *)
LEMMA MoveFaithful ==
  ASSUME TypeOK, NEW c \in Clients, ClientFaithful(c),
         \/ BeginTransactionFails(c)
         \/ ReadMetadataTables(c) \/ LoadExtension(c) \/ ConvertAndValidate(c)
         \/ ResolvePath(c) \/ BeginBucketFs(c) \/ BeginBucketFsFails(c)
         \/ CreateUdfScript(c) \/ CreateUdfScriptFails(c) \/ ListFiles(c)
         \/ ScriptReturns(c) \/ Fail(c) \/ RefuseStatement(c)
         \/ CommitCleanup(c) \/ CommitCleanupFails(c)
         \/ Cancel(c) \/ AutoRollback(c)
  PROVE  ClientFaithful(c)'
<1> USE DEF TypeOK, ClientFaithful, OnPath, OutcomeKnown, NothingWrittenOutside,
            Outside, WritesFit, SchemaEnsured, InstancesChecked, ExecutionAllowed
<1>1. CASE BeginTransactionFails(c)
  BY <1>1, KindFacts DEF BeginTransactionFails
<1>2. CASE ReadMetadataTables(c)
  BY <1>2 DEF ReadMetadataTables
<1>3. CASE LoadExtension(c)
  BY <1>3, KindFacts DEF LoadExtension, AfterLoad
<1>4. CASE ConvertAndValidate(c)
  BY <1>4, KindFacts DEF ConvertAndValidate
<1>5. CASE ResolvePath(c) \/ BeginBucketFs(c) \/ BeginBucketFsFails(c)
  BY <1>5 DEF ResolvePath, BeginBucketFs, BeginBucketFsFails
<1>6. CASE CreateUdfScript(c) \/ CreateUdfScriptFails(c)
  BY <1>6 DEF CreateUdfScript, CreateUdfScriptFails
<1>7. CASE ListFiles(c)
  BY <1>7, KindFacts DEF ListFiles
<1>8. CASE ScriptReturns(c)
  BY <1>8 DEF ScriptReturns
<1>9. CASE Fail(c) \/ RefuseStatement(c)
  BY <1>9, KindFacts DEF Fail, AfterFailure, RefuseStatement
<1>10. CASE CommitCleanup(c) \/ CommitCleanupFails(c)
  BY <1>10 DEF CommitCleanup, CommitCleanupFails
<1>11. CASE Cancel(c)
  BY <1>11 DEF Cancel
<1>12. CASE AutoRollback(c)
  BY <1>12 DEF AutoRollback
<1> QED BY <1>1, <1>2, <1>3, <1>4, <1>5, <1>6, <1>7, <1>8, <1>9, <1>10, <1>11, <1>12

(* Every step keeps the client that moves faithful.                         *)
LEMMA MoverFaithful ==
  ASSUME TypeOK, NEW c \in Clients, ClientFaithful(c),
         \/ \E o \in Requested : Receive(c, o)
         \/ Step(c) \/ Cancel(c) \/ AutoRollback(c)
  PROVE  ClientFaithful(c)'
BY ReceiveFaithful, EnsureSchemaFaithful, ExecuteFaithful, VerifyFaithful,
   BeginFaithful, CommitFaithful, RollbackFaithful, AnswerFaithful, MoveFaithful
DEF Step

(* Only a commit changes the database, and a snapshot is taken of the       *)
(* database or forgotten.                                                   *)
LEMMA WhoWrites ==
  ASSUME TypeOK, NEW c \in Clients,
         \/ \E o \in Requested : Receive(c, o)
         \/ Step(c) \/ Cancel(c) \/ AutoRollback(c)
  PROVE  /\ db' = db \/ CommitTransaction(c)
         /\ \A d \in Clients : snapshot'[d] \in {snapshot[d], db, EmptyDatabase}
<1> USE DEF TypeOK
<1>1. ASSUME NEW o \in Requested, Receive(c, o)
      PROVE  UNCHANGED <<db, snapshot>>
  BY <1>1 DEF Receive
<1>2. CASE Step(c)
  BY <1>2 DEF Step, BeginTransaction,
    BeginTransactionFails, ReadMetadataTables, LoadExtension, EnsureSchemaExists,
    ConvertAndValidate, VerifyNoInstances, ExecuteStatement, ResolvePath,
    BeginBucketFs, BeginBucketFsFails, CreateUdfScript, CreateUdfScriptFails,
    ListFiles, ScriptReturns, RefuseStatement, Fail, CommitCleanup, CommitCleanupFails,
    CommitTransaction, CommitTransactionFails, Rollback, Answer
<1>3. CASE Cancel(c) \/ AutoRollback(c)
  BY <1>3 DEF Cancel, AutoRollback
<1> QED BY <1>1, <1>2, <1>3

LEMMA SchemaStaysNext ==
  ASSUME TypeOK, Faithful, NEW c \in Clients,
         \/ \E o \in Requested : Receive(c, o)
         \/ Step(c) \/ Cancel(c) \/ AutoRollback(c)
  PROVE  SchemaStays'
<1>1. Schema \in Keys
  BY DEF Keys
<1>2. db'[Schema] \in {db[Schema], Present}
  <2>1. CASE CommitTransaction(c)
    <3>1. writes[c][Schema] \in {Unwritten, Present}
      BY <1>1, EffectIsScript DEF Faithful, ClientFaithful, WritesFit, PartOfEffect, TypeOK
    <3> QED BY <1>1, <2>1, <3>1 DEF CommitTransaction, Overlay
  <2> QED BY <2>1, WhoWrites
<1>3. \A d \in Clients : snapshot'[d] \in {snapshot[d], db, EmptyDatabase}
  BY WhoWrites
<1>4. EmptyDatabase[Schema] = Absent
  BY <1>1 DEF EmptyDatabase
<1> QED BY <1>2, <1>3, <1>4 DEF Faithful, SchemaStays

LEMMA FaithfulNext == TypeOK /\ Faithful /\ [Next]_vars => Faithful'
<1> SUFFICES ASSUME TypeOK, Faithful, [Next]_vars PROVE Faithful'
  OBVIOUS
<1>1. ASSUME NEW c \in Clients, NEW d \in Clients,
             \/ \E o \in Requested : Receive(c, o)
             \/ Step(c) \/ Cancel(c) \/ AutoRollback(c)
      PROVE  ClientFaithful(d)'
  <2>1. CASE d = c
    BY <1>1, <2>1, MoverFaithful DEF Faithful
  <2>2. CASE d # c
    BY <1>1, <2>2, OneClientMoves, UntouchedStaysFaithful DEF Faithful
  <2> QED BY <2>1, <2>2
<1>2. CASE UNCHANGED vars
  <2>1. ASSUME NEW d \in Clients PROVE ClientFaithful(d)'
    BY <1>2, UntouchedStaysFaithful DEF vars, Untouched, Faithful
  <2>2. SchemaStays'
    BY <1>2 DEF vars, Faithful, SchemaStays
  <2> QED BY <2>1, <2>2 DEF Faithful
<1>3. CASE Next
  <2>1. SchemaStays'
    BY <1>3, SchemaStaysNext DEF Next
  <2>2. \A d \in Clients : ClientFaithful(d)'
    BY <1>1, <1>3 DEF Next
  <2> QED BY <2>1, <2>2 DEF Faithful
<1> QED BY <1>2, <1>3

(* What a request has written is always a part of its operation's effect,   *)
(* and the checks it has passed hold for its snapshot.                      *)
THEOREM AlwaysFaithful == SafeSpec => []Faithful
BY FaithfulInit, FaithfulNext, TypeCorrect, PTL DEF SafeSpec

----------------------------------------------------------------------------
(* A commit has the whole effect of its operation.                          *)
LEMMA CommitIsWhole ==
  ASSUME TypeOK, Discipline, Faithful, NEW c \in Clients, CommitTransaction(c)
  PROVE  Overlay(writes[c], db) = Overlay(Effect(op[c]), db)
<1>1. /\ op[c] \in Requested /\ pc[c] = "txCommit" /\ Remaining(c) = {}
      /\ WritesFit(c) /\ SchemaEnsured(c) /\ SchemaStays
  BY DEF CommitTransaction, TypeOK, Discipline, ReadyToCommit, Faithful, ClientFaithful
<1>2. ASSUME NEW k \in Keys
      PROVE  (IF writes[c][k] = Unwritten THEN db[k] ELSE writes[c][k])
               = (IF Effect(op[c])[k] = Unwritten THEN db[k] ELSE Effect(op[c])[k])
  <2>1. CASE writes[c][k] # Unwritten
    BY <1>1, <2>1 DEF WritesFit, PartOfEffect
  <2>2. CASE writes[c][k] = Unwritten /\ k # Schema
    <3>1. Effect(op[c])[k] = Script(op[c])[k]
      BY <1>1, <2>2, EffectIsScript
    <3>2. Script(op[c])[k] = Unwritten
      BY <1>1, <2>2 DEF Remaining
    <3> QED BY <2>2, <3>1, <3>2
  <2>3. CASE writes[c][k] = Unwritten /\ k = Schema
    <3>1. CASE Kind(c) \in SchemaKinds
      <4>1. snapshot[c][Schema] # Absent
        BY <1>1, <2>3, <3>1 DEF SchemaEnsured, SchemaThere
      <4>2. db[Schema] = Present
        BY <1>1, <4>1 DEF SchemaStays
      <4> QED BY <1>1, <2>3, <3>1, <4>2, EffectIsScript
    <3>2. CASE Kind(c) \notin SchemaKinds
      BY <1>1, <2>3, <3>2, EffectIsScript
    <3> QED BY <3>1, <3>2
  <2> QED BY <2>1, <2>2, <2>3
<1> QED BY <1>2 DEF Overlay

(* When the database is serializable, what the request has checked on its   *)
(* snapshot still holds at its commit.                                      *)
LEMMA CommitIsPermitted ==
  ASSUME TypeOK, Discipline, Faithful, NEW c \in Clients, CommitTransaction(c),
         Serializable
  PROVE  Permitted(op[c], db)
<1>1. /\ op[c] \in Requested /\ pc[c] = "txCommit" /\ Remaining(c) = {}
      /\ InstancesChecked(c) /\ ExecutionAllowed(c)
      /\ \A k \in ExtensionKeys(op[c].ext) : db[k] = snapshot[c][k]
  BY DEF CommitTransaction, Accepted, TypeOK, Discipline, ReadyToCommit, Faithful,
     ClientFaithful
<1>2. NoInstancesRemain(op[c], db)
  <2>1. Kind(c) = "uninstall" => NoInstancesRemain(op[c], snapshot[c])
    BY <1>1 DEF InstancesChecked
  <2> QED BY <1>1, <2>1 DEF NoInstancesRemain, HasInstances, ExtensionKeys
<1>3. Kind(c) \in {"createInstance", "upgrade"} => Installed(snapshot[c], op[c].ext)
  <2>1. CASE Begun(op[c], writes[c])
    BY <1>1, <2>1 DEF ExecutionAllowed, Executable
  <2>2. CASE ~Begun(op[c], writes[c])
    <3>1. \A k \in Keys : Script(op[c])[k] = Unwritten
      BY <1>1, <2>2 DEF Remaining, Begun
    <3>2. /\ ExtensionKeys(op[c].ext) \subseteq Keys
          /\ <<op[c].ext, op[c].inst>> \in ExtensionKeys(op[c].ext)
          /\ PartKeys(op[c].ext) \subseteq ExtensionKeys(op[c].ext)
      BY <1>1, SchemaIsNoObject DEF ExtensionKeys
    <3>0. /\ Kind(c) = "createInstance" => Script(op[c])[<<op[c].ext, op[c].inst>>] # Unwritten
          /\ Kind(c) = "upgrade" => \A k \in PartKeys(op[c].ext) : Script(op[c])[k] # Unwritten
      BY <1>1, ScriptKeys, Zenon DEF Kind
    <3>3. Kind(c) # "createInstance"
      BY <3>0, <3>1, <3>2
    <3>4. Kind(c) = "upgrade" => PartKeys(op[c].ext) = {}
      BY <3>0, <3>1, <3>2
    <3> QED BY <3>3, <3>4 DEF Installed
  <2> QED BY <2>1, <2>2
<1>4. Executable(op[c], db)
  BY <1>1, <1>3 DEF Executable, Installed, ExtensionKeys
<1> QED BY <1>2, <1>4 DEF Permitted

(* How the phase of a request follows from its control state.               *)
LEMMA PhaseOf ==
  ASSUME NEW c \in Clients
  PROVE  /\ Phase[c] = IF pc[c] = "idle" THEN "idle"
                       ELSE IF tx[c] = "committed" THEN "applied" ELSE "pending"
         /\ Phase'[c] = IF pc'[c] = "idle" THEN "idle"
                        ELSE IF tx'[c] = "committed" THEN "applied" ELSE "pending"
BY DEF Phase

(* AtomicOperations means the same operations.                              *)
LEMMA SameOperations ==
  /\ Atomic!EmptyDatabase = EmptyDatabase
  /\ Atomic!AnyOperation = AnyOperation
  /\ Atomic!WriteKinds = WriteKinds /\ Atomic!ReadKinds = ReadKinds
  /\ \A w, d : Atomic!Overlay(w, d) = Overlay(w, d)
  /\ \A o : Atomic!Effect(o) = Effect(o)
  /\ \A o, d : Atomic!Permitted(o, d) <=> Permitted(o, d)
<1>1. Atomic!Keys = Keys /\ Atomic!NoWrites = NoWrites
  BY DEF Atomic!Keys, Keys, Atomic!NoWrites, NoWrites
<1>2. \A e : Atomic!PartKeys(e) = PartKeys(e) /\ Atomic!InstanceKeys(e) = InstanceKeys(e)
  BY DEF Atomic!PartKeys, PartKeys, Atomic!InstanceKeys, InstanceKeys
<1>3. \A keys, v : Atomic!Assign(keys, v) = Assign(keys, v)
  BY <1>1 DEF Atomic!Assign, Assign
<1>4. \A o : Atomic!Script(o) = Script(o)
  BY <1>1, <1>2, <1>3 DEF Atomic!Script, Script
<1>5. \A o : Atomic!Effect(o) = Effect(o)
  BY <1>1, <1>4 DEF Atomic!Effect, Effect, Atomic!SchemaKinds, SchemaKinds
<1>6. \A o, d : Atomic!Permitted(o, d) <=> Permitted(o, d)
  BY <1>2 DEF Atomic!Permitted, Permitted, Atomic!Executable, Executable,
    Atomic!Installed, Installed, Atomic!NoInstancesRemain, NoInstancesRemain,
    Atomic!HasInstances, HasInstances
<1>7. Atomic!EmptyDatabase = EmptyDatabase /\ Atomic!AnyOperation = AnyOperation
  BY <1>1 DEF Atomic!EmptyDatabase, EmptyDatabase, Atomic!AnyOperation, AnyOperation
<1>8. \A w, d : Atomic!Overlay(w, d) = Overlay(w, d)
  BY <1>1 DEF Atomic!Overlay, Overlay
<1> QED BY <1>5, <1>6, <1>7, <1>8
  DEF Atomic!WriteKinds, WriteKinds, Atomic!ReadKinds, ReadKinds

LEMMA InitRefines == Init => Atomic!Init
<1> SUFFICES ASSUME Init PROVE Atomic!Init
  OBVIOUS
<1>1. Phase = [c \in Clients |-> "idle"]
  BY DEF Init, Phase
<1> QED BY <1>1, SameOperations DEF Init, Atomic!Init

(* Of the steps of a request only its commit and its answer are visible.    *)
LEMMA StepRefines ==
  ASSUME TypeOK, Discipline, Faithful, NEW c \in Clients,
         \/ \E o \in Requested : Receive(c, o)
         \/ Step(c) \/ Cancel(c) \/ AutoRollback(c)
  PROVE  [Atomic!Next]_(Atomic!vars)
<1>1. \A d \in Clients : d # c => pc'[d] = pc[d] /\ tx'[d] = tx[d]
  BY OneClientMoves DEF Untouched
<1>2. \A d \in Clients : d # c => Phase'[d] = Phase[d]
  BY <1>1 DEF Phase
<1>3. ClientFaithful(c)
  BY DEF Faithful
<1>4. ASSUME NEW o \in Requested, Receive(c, o) PROVE Atomic!Receive(c, o)
  <2>1. Phase[c] = "idle" /\ Phase'[c] = "pending"
    BY <1>3, <1>4 DEF Receive, TypeOK, Phase, ClientFaithful, OutcomeKnown
  <2>2. Phase' = [Phase EXCEPT ![c] = "pending"]
    BY <1>2, <2>1 DEF Phase
  <2> QED BY <1>4, <2>1, <2>2 DEF Receive, Atomic!Receive
<1>5. CASE CommitTransaction(c)
  <2>1. Phase[c] = "pending" /\ Phase'[c] = "applied" /\ op[c].kind \in WriteKinds
    BY <1>3, <1>5 DEF CommitTransaction, TypeOK, Phase, ClientFaithful, OnPath
  <2>2. Phase' = [Phase EXCEPT ![c] = "applied"]
    BY <1>2, <2>1 DEF Phase
  <2>3. db' = Overlay(Effect(op[c]), db)
    BY <1>5, CommitIsWhole DEF CommitTransaction
  <2>4. Serializable => Permitted(op[c], db)
    BY <1>5, CommitIsPermitted
  <2>5. Atomic!TakeEffect(c)
    BY <1>5, <2>1, <2>2, <2>3, <2>4, SameOperations
    DEF CommitTransaction, Atomic!TakeEffect
  <2> QED BY <2>5 DEF Atomic!Next
<1>6. ASSUME NEW r \in {"success", "error", "lost"}, Answer(c, r)
      PROVE  Atomic!Answer(c, r)
  <2>1. Phase[c] # "idle" /\ Phase'[c] = "idle"
    BY <1>6 DEF Answer, TypeOK, Phase
  <2>2. Phase' = [Phase EXCEPT ![c] = "idle"]
    BY <1>2, <2>1 DEF Phase
  <2>3. op[c].kind \in WriteKinds \cup ReadKinds
    BY OperationsAssumption DEF TypeOK, Operation
  <2>4. r = "success" => Phase[c] = "applied" \/ op[c].kind \in ReadKinds
    BY <1>3, <1>6, <2>3 DEF Answer, Phase, ClientFaithful, OutcomeKnown
  <2> QED BY <1>6, <2>1, <2>2, <2>4, SameOperations DEF Answer, Atomic!Answer
<1>7. ASSUME UNCHANGED <<db, op, reply>>, pc[c] # "idle", pc'[c] # "idle",
             tx[c] = "committed" <=> tx'[c] = "committed"
      PROVE  UNCHANGED Atomic!vars
  <2>1. Phase'[c] = Phase[c]
    BY <1>7 DEF Phase
  <2>2. Phase' = Phase
    BY <1>2, <2>1 DEF Phase
  <2> QED BY <1>7, <2>2 DEF Atomic!vars
<1>8. CASE Cancel(c)
  BY <1>7, <1>8 DEF Cancel, TypeOK
<1>9. CASE AutoRollback(c)
  <2>1. pc[c] # "idle"
    BY <1>9 DEF AutoRollback, Discipline, NothingOpenOutside, Outside
  <2> QED BY <1>7, <1>9, <2>1 DEF AutoRollback, TypeOK
<1>10. CASE Step(c) /\ ~CommitTransaction(c)
            /\ ~ \E r \in {"success", "error", "lost"} : Answer(c, r)
  <2>1. UNCHANGED <<db, op, reply>> /\ pc[c] # "idle" /\ pc'[c] # "idle"
    BY <1>10 DEF TypeOK, Step, BeginTransaction,
      BeginTransactionFails, ReadMetadataTables, LoadExtension, EnsureSchemaExists,
      ConvertAndValidate, VerifyNoInstances, ExecuteStatement, ResolvePath,
      BeginBucketFs, BeginBucketFsFails, CreateUdfScript, CreateUdfScriptFails,
      ListFiles, ScriptReturns, RefuseStatement, Fail, CommitCleanup, CommitCleanupFails,
      CommitTransactionFails, Rollback, AfterBegin, AfterLoad, AfterFailure
  <2>2. tx[c] = "committed" <=> tx'[c] = "committed"
    BY <1>3, <1>10 DEF TypeOK, Step, BeginTransaction,
      BeginTransactionFails, ReadMetadataTables, LoadExtension, EnsureSchemaExists,
      ConvertAndValidate, VerifyNoInstances, ExecuteStatement, ResolvePath,
      BeginBucketFs, BeginBucketFsFails, CreateUdfScript, CreateUdfScriptFails,
      ListFiles, ScriptReturns, RefuseStatement, Fail, CommitCleanup, CommitCleanupFails,
      CommitTransactionFails, Rollback, ClientFaithful, OutcomeKnown
  <2> QED BY <1>7, <2>1, <2>2
<1> QED BY <1>4, <1>5, <1>6, <1>8, <1>9, <1>10 DEF Atomic!Next

(* The transaction controller implements the atomic operations: each        *)
(* request takes its whole effect at its commit or none, a success is told  *)
(* only of committed writes, and reads leave the database alone.            *)
THEOREM Refinement == SafeSpec => ImplementsAtomicOperations
<1>1. TypeOK /\ Discipline /\ Faithful /\ [Next]_vars => [Atomic!Next]_(Atomic!vars)
  <2> SUFFICES ASSUME TypeOK, Discipline, Faithful, [Next]_vars
               PROVE  [Atomic!Next]_(Atomic!vars)
    OBVIOUS
  <2>1. CASE Next
    BY <2>1, StepRefines DEF Next
  <2>2. CASE UNCHANGED vars
    BY <2>2 DEF vars, Atomic!vars, Phase
  <2> QED BY <2>1, <2>2
<1> QED
  BY <1>1, InitRefines, TypeCorrect, Disciplined, AlwaysFaithful, PTL
  DEF SafeSpec, ImplementsAtomicOperations, Atomic!SafeSpec

----------------------------------------------------------------------------
(* What an operation does to the objects of an extension.                   *)
LEMMA EffectOnExtension ==
  ASSUME NEW o \in Requested, NEW d \in Database, NEW e \in Extensions,
         NEW k \in ExtensionKeys(e)
  PROVE  LET after == Overlay(Effect(o), d)[k] IN
         /\ e # o.ext => after = d[k]
         /\ e = o.ext /\ o.kind = "install" =>
              after = IF k \in PartKeys(e) THEN o.version ELSE d[k]
         /\ e = o.ext /\ o.kind = "uninstall" =>
              after = IF k \in PartKeys(e) THEN Absent ELSE d[k]
         /\ e = o.ext /\ o.kind = "upgrade" =>
              after = IF k \in PartKeys(e) THEN Latest ELSE d[k]
         /\ e = o.ext /\ o.kind = "createInstance" =>
              after = IF k = <<o.ext, o.inst>> THEN Present ELSE d[k]
         /\ e = o.ext /\ o.kind = "deleteInstance" =>
              after = IF k = <<o.ext, o.inst>> THEN Absent ELSE d[k]
         /\ o.kind \notin WriteKinds /\ k # <<o.ext, o.inst>> => after = d[k]
<1>1. k \in Keys /\ k # Schema
  BY OperationsAssumption DEF ExtensionKeys, PartKeys, InstanceKeys, Keys
<1>2. Overlay(Effect(o), d)[k] = IF Script(o)[k] = Unwritten THEN d[k] ELSE Script(o)[k]
  BY <1>1, EffectIsScript DEF Overlay
<1>3. {o.version, Latest, Present, Absent} \subseteq Values /\ Unwritten \notin Values
  BY OperationsAssumption DEF Values, Operation
<1>4. e # o.ext => k \notin PartKeys(o.ext) /\ k # <<o.ext, o.inst>>
  BY DEF ExtensionKeys, PartKeys, InstanceKeys
<1>5. \A keys, v : Assign(keys, v)[k] = IF k \in keys THEN v ELSE Unwritten
  BY <1>1 DEF Assign
<1>6. NoWrites[k] = Unwritten
  BY <1>1 DEF NoWrites
<1>7. /\ o.kind = "install" => Script(o) = Assign(PartKeys(o.ext), o.version)
      /\ o.kind = "uninstall" => Script(o) = Assign(PartKeys(o.ext), Absent)
      /\ o.kind = "upgrade" => Script(o) = Assign(PartKeys(o.ext), Latest)
      /\ o.kind = "createInstance" => Script(o) = Assign({<<o.ext, o.inst>>}, Present)
      /\ o.kind = "deleteInstance" => Script(o) = Assign({<<o.ext, o.inst>>}, Absent)
      /\ o.kind \notin WriteKinds =>
           Script(o) \in {NoWrites, Assign({<<o.ext, o.inst>>}, Present)}
  BY DEF Script, WriteKinds
<1>8. o.kind \in WriteKinds =>
        o.kind \in {"install", "uninstall", "upgrade", "createInstance", "deleteInstance"}
  BY DEF WriteKinds
<1>9. CASE e # o.ext
  <2>1. Script(o)[k] = Unwritten
    BY <1>4, <1>5, <1>6, <1>7, <1>8, <1>9
  <2> QED BY <1>2, <1>9, <2>1
<1>10. CASE e = o.ext
  BY <1>2, <1>3, <1>5, <1>6, <1>7, <1>10
<1> QED BY <1>9, <1>10

(* Every effect keeps installations whole.                                  *)
LEMMA EffectKeepsWhole ==
  ASSUME TypeOK, WholeInstallations, NEW o \in Requested, o.kind \in WriteKinds,
         db' = Overlay(Effect(o), db)
  PROVE  WholeInstallations'
<1> SUFFICES ASSUME NEW e \in Extensions, NEW k \in PartKeys(e), NEW l \in PartKeys(e)
             PROVE  db'[k] = db'[l]
  BY DEF WholeInstallations
<1>1. k \in ExtensionKeys(e) /\ l \in ExtensionKeys(e) /\ db[k] = db[l]
  BY DEF ExtensionKeys, WholeInstallations
<1>2. <<o.ext, o.inst>> \notin PartKeys(e)
  BY OperationsAssumption DEF PartKeys, Operation
<1>3. db \in Database
  BY DEF TypeOK
<1>4. CASE e # o.ext
  BY <1>1, <1>3, <1>4, EffectOnExtension
<1>5. CASE e = o.ext /\ o.kind \in {"install", "uninstall", "upgrade"}
  BY <1>1, <1>3, <1>5, EffectOnExtension
<1>6. CASE e = o.ext /\ o.kind \in {"createInstance", "deleteInstance"}
  <2>1. k # <<o.ext, o.inst>> /\ l # <<o.ext, o.inst>>
    BY <1>2
  <2>2. db'[k] = db[k] /\ db'[l] = db[l]
    BY <1>1, <1>3, <1>6, <2>1, EffectOnExtension
  <2> QED BY <1>1, <2>2
<1> QED BY <1>4, <1>5, <1>6 DEF WriteKinds

(* Every permitted effect keeps instances from being orphaned.              *)
LEMMA EffectKeepsParents ==
  ASSUME TypeOK, NoOrphanInstances, NEW o \in Requested, o.kind \in WriteKinds,
         Permitted(o, db), db' = Overlay(Effect(o), db)
  PROVE  NoOrphanInstances'
<1> SUFFICES ASSUME NEW e \in Listing, HasInstances(db', e) PROVE Installed(db', e)
  BY DEF NoOrphanInstances
<1>1. e \in Extensions /\ db \in Database
  BY OperationsAssumption DEF TypeOK
<1>2. PartKeys(e) \subseteq ExtensionKeys(e) /\ InstanceKeys(e) \subseteq ExtensionKeys(e)
  BY DEF ExtensionKeys
<1>3. PartKeys(e) \cap InstanceKeys(e) = {}
  BY OperationsAssumption DEF PartKeys, InstanceKeys
<1>4. o.version # Absent /\ Latest # Absent /\ <<o.ext, o.inst>> \in InstanceKeys(o.ext)
  BY OperationsAssumption, SchemaIsNoObject DEF Operation
<1>5. HasInstances(db, e) => Installed(db, e)
  BY DEF NoOrphanInstances
<1>6. CASE e # o.ext
  BY <1>1, <1>2, <1>5, <1>6, EffectOnExtension DEF HasInstances, Installed
<1>7. CASE e = o.ext /\ o.kind \in {"install", "upgrade"}
  BY <1>1, <1>2, <1>4, <1>7, EffectOnExtension DEF Installed
<1>8. CASE e = o.ext /\ o.kind = "uninstall"
  <2>1. ~HasInstances(db, e)
    BY <1>8 DEF Permitted, NoInstancesRemain
  <2>2. ~HasInstances(db', e)
    BY <1>1, <1>2, <1>3, <1>8, <2>1, EffectOnExtension DEF HasInstances
  <2> QED BY <2>2
<1>9. CASE e = o.ext /\ o.kind = "createInstance"
  <2>1. Installed(db, e)
    BY <1>9 DEF Permitted, Executable
  <2> QED BY <1>1, <1>2, <1>3, <1>4, <1>9, <2>1, EffectOnExtension DEF Installed
<1>10. CASE e = o.ext /\ o.kind = "deleteInstance"
  <2>1. HasInstances(db, e)
    BY <1>1, <1>2, <1>10, EffectOnExtension DEF HasInstances
  <2>2. \A k \in PartKeys(e) : db'[k] = db[k]
    BY <1>1, <1>2, <1>3, <1>4, <1>10, EffectOnExtension
  <2> QED BY <1>5, <2>1, <2>2 DEF Installed
<1> QED BY <1>6, <1>7, <1>8, <1>9, <1>10 DEF WriteKinds

(* A step changes the database by the whole, permitted effect of a request. *)
LEMMA DatabaseStep ==
  ASSUME TypeOK, Discipline, Faithful, [Next]_vars
  PROVE  \/ db' = db
         \/ \E o \in Requested : /\ o.kind \in WriteKinds
                                 /\ db' = Overlay(Effect(o), db)
                                 /\ Serializable => Permitted(o, db)
<1>1. CASE UNCHANGED vars
  BY <1>1 DEF vars
<1>2. ASSUME NEW c \in Clients, CommitTransaction(c)
      PROVE  /\ op[c] \in Requested /\ op[c].kind \in WriteKinds
             /\ db' = Overlay(Effect(op[c]), db)
             /\ Serializable => Permitted(op[c], db)
  BY <1>2, CommitIsWhole, CommitIsPermitted
  DEF CommitTransaction, TypeOK, Faithful, ClientFaithful, OnPath
<1>3. CASE Next
  BY <1>2, <1>3, WhoWrites DEF Next
<1> QED BY <1>1, <1>3

(* Installations are whole in every committed state of the database.        *)
THEOREM AlwaysWhole == SafeSpec => []WholeInstallations
<1>1. Init => WholeInstallations
  <2>1. \A e \in Extensions : PartKeys(e) \subseteq Keys
    BY DEF PartKeys, Keys
  <2> QED BY <2>1 DEF Init, WholeInstallations, EmptyDatabase
<1>2. TypeOK /\ Discipline /\ Faithful /\ WholeInstallations /\ [Next]_vars
        => WholeInstallations'
  BY DatabaseStep, EffectKeepsWhole DEF WholeInstallations
<1> QED BY <1>1, <1>2, TypeCorrect, Disciplined, AlwaysFaithful, PTL DEF SafeSpec

(* With a serializable database no instance of a listing extension is ever  *)
(* left without the extension's objects.                                    *)
THEOREM NeverOrphaned == Serializable => (SafeSpec => []NoOrphanInstances)
<1> SUFFICES ASSUME Serializable PROVE SafeSpec => []NoOrphanInstances
  OBVIOUS
<1>1. Init => NoOrphanInstances
  <2>1. \A e \in Listing : InstanceKeys(e) \subseteq Keys
    BY OperationsAssumption DEF InstanceKeys, Keys
  <2> QED BY <2>1 DEF Init, NoOrphanInstances, HasInstances, EmptyDatabase
<1>2. TypeOK /\ Discipline /\ Faithful /\ NoOrphanInstances /\ [Next]_vars
        => NoOrphanInstances'
  BY DatabaseStep, EffectKeepsParents DEF NoOrphanInstances
<1> QED BY <1>1, <1>2, TypeCorrect, Disciplined, AlwaysFaithful, PTL DEF SafeSpec
=============================================================================
