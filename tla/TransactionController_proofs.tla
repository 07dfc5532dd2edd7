-------------------- MODULE TransactionController_proofs --------------------
(***************************************************************************)
(* Proofs about TransactionController for any number of clients,           *)
(* extensions, objects, instances and versions.                            *)
(***************************************************************************)
EXTENDS TransactionController, FiniteSetTheorems, TLAPS

USE DEF txVars, bfsVars, requestVars, Goto, Write, Kind

----------------------------------------------------------------------------
(* The operators of Operations have the types their names say.              *)
LEMMA AnyOperationType == AnyOperation \in Requested
BY OperationsAssumption DEF AnyOperation

(* A database without objects is a database, and no writes are writes.      *)
LEMMA EmptyTypes == EmptyDatabase \in Database /\ NoWrites \in Writes
BY DEF EmptyDatabase, Database, NoWrites, Writes, Values

(* Laying writes over a database gives a database.                          *)
LEMMA OverlayType ==
  ASSUME NEW w \in Writes, NEW d \in Database
  PROVE  Overlay(w, d) \in Database
<1>1. ASSUME NEW k \in Keys
      PROVE  (IF w[k] = Unwritten THEN d[k] ELSE w[k]) \in Values
  <2>1. w[k] \in Values \cup {Unwritten} /\ d[k] \in Values
    BY <1>1 DEF Writes, Database
  <2> QED BY <2>1
<1> QED BY <1>1 DEF Overlay, Database

(* What an extension's method writes for a requested operation.             *)
LEMMA ScriptType ==
  ASSUME NEW o \in Requested
  PROVE  Script(o) \in Writes
<1>1. o.version \in Versions /\ Latest \in Versions
  BY OperationsAssumption DEF Operation
<1>2. \A keys, v : v \in Values => Assign(keys, v) \in Writes
  BY DEF Assign, Writes
<1>3. NoWrites \in Writes
  BY EmptyTypes
<1>4. {o.version, Latest, Present, Absent} \subseteq Values
  BY <1>1 DEF Values
<1> QED BY <1>2, <1>3, <1>4 DEF Script

(* A write of a value to a key keeps the type of the writes.                *)
LEMMA WriteType ==
  ASSUME TypeOK, NEW c \in Clients, NEW k \in Keys, NEW v \in Values, Write(c, k, v)
  PROVE  writes' \in [Clients -> Writes]
<1>1. writes[c] \in [Keys -> Values \cup {Unwritten}]
  BY DEF TypeOK, Writes
<1>2. [writes[c] EXCEPT ![k] = v] \in Writes
  BY <1>1 DEF Writes
<1>3. writes' = [writes EXCEPT ![c] = [writes[c] EXCEPT ![k] = v]]
  OBVIOUS
<1> QED BY <1>2, <1>3 DEF TypeOK

----------------------------------------------------------------------------
(* Type correctness.                                                        *)
LEMMA TypeOKInit == Init => TypeOK
BY AnyOperationType, EmptyTypes DEF Init, TypeOK, Labels, TxStates

(* A step of a client's request keeps the types.                            *)
LEMMA TypeOKStep ==
  ASSUME TypeOK, NEW c \in Clients, Step(c)
  PROVE  TypeOK'
<1> USE DEF TypeOK, Labels, TxStates
<1>1. CASE BeginTransaction(c)
  BY <1>1 DEF BeginTransaction, AfterBegin
<1>2. CASE BeginTransactionFails(c)
  BY <1>2 DEF BeginTransactionFails
<1>3. CASE ReadMetadataTables(c)
  BY <1>3 DEF ReadMetadataTables
<1>4. CASE LoadExtension(c)
  BY <1>4 DEF LoadExtension, AfterLoad
<1>5. CASE EnsureSchemaExists(c)
  <2>1. Schema \in Keys /\ Present \in Values
    BY DEF Keys, Values
  <2>2. writes' \in [Clients -> Writes]
    BY <1>5, <2>1, WriteType DEF EnsureSchemaExists
  <2> QED BY <1>5, <2>2 DEF EnsureSchemaExists
<1>6. CASE ConvertAndValidate(c)
  BY <1>6 DEF ConvertAndValidate
<1>7. CASE VerifyNoInstances(c)
  BY <1>7 DEF VerifyNoInstances
<1>8. ASSUME NEW k \in Keys, ExecuteStatement(c, k) PROVE TypeOK'
  <2>1. Script(op[c])[k] \in Values
    BY <1>8, ScriptType DEF ExecuteStatement, Remaining, Writes
  <2>2. writes' \in [Clients -> Writes]
    BY <1>8, <2>1, WriteType DEF ExecuteStatement
  <2> QED BY <1>8, <2>2 DEF ExecuteStatement
<1>9. CASE ResolvePath(c)
  BY <1>9 DEF ResolvePath
<1>10. CASE BeginBucketFs(c)
  BY <1>10 DEF BeginBucketFs
<1>11. CASE BeginBucketFsFails(c)
  BY <1>11 DEF BeginBucketFsFails
<1>12. CASE CreateUdfScript(c)
  BY <1>12 DEF CreateUdfScript
<1>13. CASE CreateUdfScriptFails(c)
  BY <1>13 DEF CreateUdfScriptFails
<1>14. CASE ListFiles(c)
  BY <1>14 DEF ListFiles
<1>15. CASE ScriptReturns(c)
  BY <1>15 DEF ScriptReturns
<1>16. CASE Fail(c) \/ RefuseStatement(c)
  BY <1>16 DEF Fail, AfterFailure, RefuseStatement
<1>17. CASE CommitCleanup(c)
  BY <1>17 DEF CommitCleanup
<1>18. CASE CommitCleanupFails(c)
  BY <1>18 DEF CommitCleanupFails
<1>19. CASE CommitTransaction(c)
  <2>1. db' \in Database
    BY <1>19, OverlayType DEF CommitTransaction
  <2> QED BY <1>19, <2>1 DEF CommitTransaction
<1>20. CASE CommitTransactionFails(c)
  BY <1>20 DEF CommitTransactionFails
<1>21. CASE Rollback(c)
  BY <1>21, EmptyTypes DEF Rollback
<1>22. ASSUME NEW r \in {"success", "error", "lost"}, Answer(c, r) PROVE TypeOK'
  BY <1>22, AnyOperationType DEF Answer
<1> QED
  BY <1>1, <1>2, <1>3, <1>4, <1>5, <1>6, <1>7, <1>8, <1>9, <1>10, <1>11,
     <1>12, <1>13, <1>14, <1>15, <1>16, <1>17, <1>18, <1>19, <1>20, <1>21, <1>22
  DEF Step

(* Cancellations, automatic rollbacks and new requests keep the types.      *)
LEMMA TypeOKNext == TypeOK /\ [Next]_vars => TypeOK'
<1> SUFFICES ASSUME TypeOK, [Next]_vars PROVE TypeOK'
  OBVIOUS
<1>1. ASSUME NEW c \in Clients, NEW o \in Requested, Receive(c, o) PROVE TypeOK'
  BY <1>1 DEF Receive, TypeOK, Labels
<1>2. ASSUME NEW c \in Clients, Step(c) PROVE TypeOK'
  BY <1>2, TypeOKStep
<1>3. ASSUME NEW c \in Clients, Cancel(c) PROVE TypeOK'
  BY <1>3 DEF Cancel, TypeOK
<1>4. ASSUME NEW c \in Clients, AutoRollback(c) PROVE TypeOK'
  BY <1>4 DEF AutoRollback, TypeOK, TxStates
<1>5. CASE UNCHANGED vars
  BY <1>5 DEF vars, TypeOK
<1> QED BY <1>1, <1>2, <1>3, <1>4, <1>5 DEF Next

(* The variables always have the types TypeOK gives them.                   *)
THEOREM TypeCorrect == SafeSpec => []TypeOK
BY TypeOKInit, TypeOKNext, PTL DEF SafeSpec

----------------------------------------------------------------------------
(* The inductive invariant behind the properties of the transactions: where *)
(* a request may hold a transaction, and what it has done when it commits.  *)

(* The request has not begun its transaction yet, or has ended it.          *)
Outside(c) ==
  \/ pc[c] \in {"idle", "begin", "answer"}
  \/ pc[c] = "load" /\ Kind(c) = "listAvailable"

MetadataIsRead(c) == pc[c] = "metadata" => Kind(c) = "listInstalled"

NothingOpenOutside(c) == Outside(c) => tx[c] # "open" /\ bfsTx[c] # "open"

(* An open transaction of a BucketFS client is one that cleanup will close. *)
BucketFsKnown(c) == bfsTx[c] = "open" => pc[c] = "udf" \/ bfsClient[c]

ReadyToCommit(c) ==
  /\ pc[c] \in {"commit", "txCommit"} => Remaining(c) = {}
  /\ pc[c] = "txCommit" => bfsTx[c] # "open"

Discipline ==
  \A c \in Clients : /\ MetadataIsRead(c)
                     /\ NothingOpenOutside(c)
                     /\ BucketFsKnown(c)
                     /\ ReadyToCommit(c)

LEMMA DisciplineInit == Init => Discipline
BY DEF Init, Discipline, MetadataIsRead, NothingOpenOutside, Outside, BucketFsKnown,
       ReadyToCommit

(* What a step leaves alone for the other clients.                          *)
Untouched(d) ==
  /\ pc'[d] = pc[d] /\ op'[d] = op[d] /\ tx'[d] = tx[d] /\ writes'[d] = writes[d]
  /\ bfsTx'[d] = bfsTx[d] /\ bfsClient'[d] = bfsClient[d]
  /\ snapshot'[d] = snapshot[d] /\ result'[d] = result[d] /\ reply'[d] = reply[d]

(* An action of one client touches no other client's request.               *)
LEMMA OneClientMoves ==
  ASSUME TypeOK, NEW c \in Clients, NEW d \in Clients, d # c,
         \/ \E o \in Requested : Receive(c, o)
         \/ Step(c) \/ Cancel(c) \/ AutoRollback(c)
  PROVE  Untouched(d)
<1>1. ASSUME NEW o \in Requested, Receive(c, o) PROVE Untouched(d)
  BY <1>1 DEF Receive, TypeOK, Untouched
<1>2. CASE Step(c)
  BY <1>2 DEF TypeOK, Untouched, Step, BeginTransaction,
    BeginTransactionFails, ReadMetadataTables, LoadExtension, EnsureSchemaExists,
    ConvertAndValidate, VerifyNoInstances, ExecuteStatement, ResolvePath,
    BeginBucketFs, BeginBucketFsFails, CreateUdfScript, CreateUdfScriptFails,
    ListFiles, ScriptReturns, RefuseStatement, Fail, CommitCleanup, CommitCleanupFails,
    CommitTransaction, CommitTransactionFails, Rollback, Answer
<1>3. CASE Cancel(c)
  BY <1>3 DEF Cancel, TypeOK, Untouched
<1>4. CASE AutoRollback(c)
  BY <1>4 DEF AutoRollback, TypeOK, Untouched
<1> QED BY <1>1, <1>2, <1>3, <1>4

ClientDiscipline(c) ==
  MetadataIsRead(c) /\ NothingOpenOutside(c) /\ BucketFsKnown(c) /\ ReadyToCommit(c)

(* The discipline of a client is kept by every step that does not touch it. *)
LEMMA UntouchedKeepsDiscipline ==
  ASSUME NEW d \in Clients, ClientDiscipline(d), Untouched(d)
  PROVE  ClientDiscipline(d)'
BY DEF ClientDiscipline, MetadataIsRead, NothingOpenOutside, Outside, BucketFsKnown,
       ReadyToCommit, Remaining, Untouched

(* The discipline of the client that moves.                                 *)
LEMMA StepKeepsDiscipline ==
  ASSUME TypeOK, NEW c \in Clients, ClientDiscipline(c), Step(c)
  PROVE  ClientDiscipline(c)'
<1> USE DEF ClientDiscipline, MetadataIsRead, NothingOpenOutside, Outside,
            BucketFsKnown, ReadyToCommit, TypeOK, TxStates
<1>1. CASE BeginTransaction(c)
  BY <1>1 DEF BeginTransaction, AfterBegin
<1>2. CASE BeginTransactionFails(c)
  BY <1>2 DEF BeginTransactionFails
<1>3. CASE ReadMetadataTables(c)
  BY <1>3 DEF ReadMetadataTables
<1>4. CASE LoadExtension(c)
  BY <1>4 DEF LoadExtension, AfterLoad, SchemaKinds
<1>5. CASE EnsureSchemaExists(c)
  BY <1>5 DEF EnsureSchemaExists
<1>6. CASE ConvertAndValidate(c)
  BY <1>6 DEF ConvertAndValidate
<1>7. CASE VerifyNoInstances(c)
  BY <1>7 DEF VerifyNoInstances
<1>8. ASSUME NEW k \in Keys, ExecuteStatement(c, k) PROVE ClientDiscipline(c)'
  BY <1>8 DEF ExecuteStatement
<1>9. CASE ResolvePath(c)
  BY <1>9 DEF ResolvePath
<1>10. CASE BeginBucketFs(c)
  BY <1>10 DEF BeginBucketFs
<1>11. CASE BeginBucketFsFails(c)
  BY <1>11 DEF BeginBucketFsFails
<1>12. CASE CreateUdfScript(c)
  BY <1>12 DEF CreateUdfScript
<1>13. CASE CreateUdfScriptFails(c)
  BY <1>13 DEF CreateUdfScriptFails
<1>14. CASE ListFiles(c)
  BY <1>14 DEF ListFiles
<1>15. CASE ScriptReturns(c)
  <2>1. pc'[c] = "commit" => Remaining(c)' = {}
    BY <1>15 DEF ScriptReturns, Remaining
  <2> QED BY <1>15, <2>1 DEF ScriptReturns
<1>16. CASE Fail(c) \/ RefuseStatement(c)
  BY <1>16 DEF Fail, AfterFailure, RefuseStatement
<1>17. CASE CommitCleanup(c)
  <2>1. Remaining(c)' = {}
    BY <1>17 DEF CommitCleanup, Remaining
  <2> QED BY <1>17, <2>1 DEF CommitCleanup
<1>18. CASE CommitCleanupFails(c)
  BY <1>18 DEF CommitCleanupFails
<1>19. CASE CommitTransaction(c)
  BY <1>19 DEF CommitTransaction
<1>20. CASE CommitTransactionFails(c)
  BY <1>20 DEF CommitTransactionFails
<1>21. CASE Rollback(c)
  BY <1>21 DEF Rollback
<1>22. ASSUME NEW r \in {"success", "error", "lost"}, Answer(c, r)
       PROVE  ClientDiscipline(c)'
  BY <1>22 DEF Answer
<1> QED
  BY <1>1, <1>2, <1>3, <1>4, <1>5, <1>6, <1>7, <1>8, <1>9, <1>10, <1>11,
     <1>12, <1>13, <1>14, <1>15, <1>16, <1>17, <1>18, <1>19, <1>20, <1>21, <1>22
  DEF Step

(* A new request, a cancellation and an automatic rollback keep it as well. *)
LEMMA EnvironmentKeepsDiscipline ==
  ASSUME TypeOK, NEW c \in Clients, ClientDiscipline(c),
         \/ \E o \in Requested : Receive(c, o)
         \/ Cancel(c) \/ AutoRollback(c)
  PROVE  ClientDiscipline(c)'
<1> USE DEF ClientDiscipline, MetadataIsRead, NothingOpenOutside, Outside,
            BucketFsKnown, ReadyToCommit, TypeOK, TxStates
<1>1. ASSUME NEW o \in Requested, Receive(c, o) PROVE ClientDiscipline(c)'
  BY <1>1 DEF Receive
<1>2. CASE Cancel(c)
  BY <1>2 DEF Cancel, Remaining
<1>3. CASE AutoRollback(c)
  <2>1. Remaining(c)' = Remaining(c)
    BY <1>3 DEF AutoRollback, Remaining
  <2> QED BY <1>3, <2>1 DEF AutoRollback
<1> QED BY <1>1, <1>2, <1>3

LEMMA DisciplineNext == TypeOK /\ Discipline /\ [Next]_vars => Discipline'
<1> SUFFICES ASSUME TypeOK, Discipline, [Next]_vars PROVE Discipline'
  OBVIOUS
<1>1. \A d \in Clients : ClientDiscipline(d)
  BY DEF Discipline, ClientDiscipline
<1>2. ASSUME NEW c \in Clients, NEW d \in Clients,
             \/ \E o \in Requested : Receive(c, o)
             \/ Step(c) \/ Cancel(c) \/ AutoRollback(c)
      PROVE  ClientDiscipline(d)'
  <2>1. CASE d = c
    BY <1>1, <1>2, <2>1, StepKeepsDiscipline, EnvironmentKeepsDiscipline
  <2>2. CASE d # c
    BY <1>1, <1>2, <2>2, OneClientMoves, UntouchedKeepsDiscipline
  <2> QED BY <2>1, <2>2
<1>3. ASSUME UNCHANGED vars, NEW d \in Clients PROVE ClientDiscipline(d)'
  <2>1. Untouched(d)
    BY <1>3 DEF vars, Untouched
  <2> QED BY <1>1, <2>1, UntouchedKeepsDiscipline
<1>4. \A d \in Clients : ClientDiscipline(d)'
  BY <1>2, <1>3 DEF Next
<1> QED BY <1>4 DEF Discipline, ClientDiscipline

(* The request's transactions follow the discipline in every state.         *)
THEOREM Disciplined == SafeSpec => []Discipline
BY DisciplineInit, DisciplineNext, TypeCorrect, PTL DEF SafeSpec

(* Before a request is answered both its transactions have ended, for any   *)
(* number of clients and whatever failed.                                   *)
THEOREM NothingStaysOpen == SafeSpec => []NothingLeftOpen
<1>1. Discipline => NothingLeftOpen
  BY DEF Discipline, NothingOpenOutside, Outside, NothingLeftOpen
<1> QED BY <1>1, Disciplined, PTL

(* A transaction becomes committed by CommitTransaction alone, at a point   *)
(* where the method has returned and the BucketFS client has been closed.   *)
LEMMA CommitStep ==
  ASSUME TypeOK, Discipline, [Next]_vars, NEW c \in Clients,
         tx[c] # "committed", tx'[c] = "committed"
  PROVE  bfsTx[c] # "open" /\ ctx[c] = "live" /\ Remaining(c) = {}
<1>1. PICK d \in Clients : \/ \E o \in Requested : Receive(d, o)
                           \/ Step(d) \/ Cancel(d) \/ AutoRollback(d)
  BY DEF Next, vars
<1>2. d = c
  BY <1>1, OneClientMoves DEF Untouched
<1>3. ~ \E o \in Requested : Receive(c, o)
  BY DEF Receive
<1>4. ~Cancel(c) /\ ~AutoRollback(c)
  BY DEF Cancel, AutoRollback, TypeOK
<1>5. CommitTransaction(c)
  BY <1>1, <1>2, <1>3, <1>4 DEF TypeOK, Step, BeginTransaction,
    BeginTransactionFails, ReadMetadataTables, LoadExtension, EnsureSchemaExists,
    ConvertAndValidate, VerifyNoInstances, ExecuteStatement, ResolvePath,
    BeginBucketFs, BeginBucketFsFails, CreateUdfScript, CreateUdfScriptFails,
    ListFiles, ScriptReturns, RefuseStatement, Fail, CommitCleanup, CommitCleanupFails,
    CommitTransactionFails, Rollback, Answer
<1> QED BY <1>5 DEF CommitTransaction, Discipline, ReadyToCommit

(* No commit while the BucketFS transaction is open, after the context has  *)
(* ended, or before the extension's method has made all its writes.         *)
THEOREM CommitComesLast == SafeSpec => CommitIsLast
<1>1. TypeOK /\ Discipline /\ [Next]_vars =>
        [\A c \in Clients :
           tx[c] # "committed" /\ tx'[c] = "committed" =>
             /\ bfsTx[c] # "open"
             /\ ctx[c] = "live"
             /\ Remaining(c) = {}]_vars
  BY CommitStep
<1> QED BY <1>1, TypeCorrect, Disciplined, PTL DEF SafeSpec, CommitIsLast

----------------------------------------------------------------------------
(* The way of a request to its answer.  The distance is the number of steps *)
(* the request takes at most until it is idle again: the writes the method  *)
(* has still to make, and what the code does before and after them.  The    *)
(* method may ask for a BucketFS client once; a request for the available   *)
(* extensions loads definitions after its transaction has ended.            *)
Distance(c) ==
  LET left == Cardinality(Remaining(c)) IN
  CASE pc[c] = "idle"     -> 0
    [] pc[c] = "answer"   -> 1
    [] pc[c] = "rollback" -> 3
    [] pc[c] = "list"     -> 4
    [] pc[c] = "txCommit" -> 4
    [] pc[c] = "commit"   -> 5
    [] pc[c] = "script"   -> left + (IF bfsClient[c] THEN 6 ELSE 9)
    [] pc[c] = "udf"      -> left + 7
    [] pc[c] = "bfsBegin" -> left + 8
    [] pc[c] = "params"   -> left + 10
    [] pc[c] = "verify"   -> left + 10
    [] pc[c] = "schema"   -> left + 11
    [] pc[c] = "load"     -> IF Kind(c) = "listAvailable" THEN 2 ELSE left + 12
    [] pc[c] = "metadata" -> left + 13
    [] pc[c] = "begin"    -> left + 14

(* What an extension's method writes are the extension's objects, or one    *)
(* instance: a finite number of keys, with a finite number of objects.      *)
LEMMA ScriptKeyCount ==
  ASSUME IsFiniteSet(Parts), NEW o \in Requested, NEW S,
         S \subseteq {k \in Keys : Script(o)[k] # Unwritten}
  PROVE  /\ IsFiniteSet(S)
         /\ Cardinality(S) \in 0 .. Cardinality(Parts) + 1
<1>1. IsFiniteSet({o.ext}) /\ Cardinality({o.ext}) = 1
  BY FS_Singleton
<1>2. Cardinality(Parts) \in Nat
  BY FS_CardinalityType
<1>3. IsFiniteSet(PartKeys(o.ext)) /\ Cardinality(PartKeys(o.ext)) = Cardinality(Parts)
  BY <1>1, <1>2, FS_Product DEF PartKeys
<1>4. IsFiniteSet({<<o.ext, o.inst>>}) /\ Cardinality({<<o.ext, o.inst>>}) = 1
  BY FS_Singleton
<1>5. S \subseteq PartKeys(o.ext) \/ S \subseteq {<<o.ext, o.inst>>}
  <2>1. ASSUME NEW keys, NEW v, Script(o) = Assign(keys, v) PROVE S \subseteq keys
    BY <2>1 DEF Assign
  <2>2. CASE o.kind \in {"install", "uninstall", "upgrade"}
    BY <2>1, <2>2 DEF Script
  <2>3. CASE o.kind \in {"createInstance", "deleteInstance"}
    BY <2>1, <2>3 DEF Script
  <2>4. CASE o.kind = "listAvailable"
    <3>1. S = {}
      BY <2>4 DEF Script, NoWrites
    <3> QED BY <3>1
  <2>5. CASE o.kind \notin {"install", "uninstall", "upgrade", "createInstance",
                            "deleteInstance", "listAvailable"}
    BY <2>1, <2>5 DEF Script
  <2> QED BY <2>2, <2>3, <2>4, <2>5
<1>6. /\ IsFiniteSet(S) /\ Cardinality(S) \in Nat
      /\ Cardinality(S) <= Cardinality(Parts) \/ Cardinality(S) <= 1
  <2>1. CASE S \subseteq PartKeys(o.ext)
    BY <1>3, <2>1, FS_Subset, FS_CardinalityType
  <2>2. CASE S \subseteq {<<o.ext, o.inst>>}
    BY <1>4, <2>2, FS_Subset, FS_CardinalityType
  <2> QED BY <1>5, <2>1, <2>2
<1> QED BY <1>2, <1>6

LEMMA RemainingIsFinite ==
  ASSUME IsFiniteSet(Parts), TypeOK, NEW c \in Clients
  PROVE  /\ IsFiniteSet(Remaining(c))
         /\ Cardinality(Remaining(c)) \in 0 .. Cardinality(Parts) + 1
<1>1. op[c] \in Requested
  BY DEF TypeOK
<1>2. Remaining(c) \subseteq {k \in Keys : Script(op[c])[k] # Unwritten}
  BY DEF Remaining
<1> QED BY <1>1, <1>2, ScriptKeyCount


LEMMA DistanceBound ==
  ASSUME IsFiniteSet(Parts), TypeOK, NEW c \in Clients
  PROVE  /\ Distance(c) \in 0 .. Cardinality(Parts) + 15
         /\ Distance(c) = 0 <=> pc[c] = "idle"
<1>1. PICK left \in Nat : left = Cardinality(Remaining(c)) /\ left <= Cardinality(Parts) + 1
  BY RemainingIsFinite, FS_CardinalityType
<1>2. Cardinality(Parts) \in Nat
  BY FS_CardinalityType
<1>3. pc[c] \in Labels
  BY DEF TypeOK
<1>4. /\ Distance(c) \in Nat /\ Distance(c) <= left + 14
      /\ Distance(c) = 0 <=> pc[c] = "idle"
  BY <1>1, <1>3 DEF Distance, Labels
<1> QED BY <1>1, <1>2, <1>4

LEMMA NextDistanceType ==
  ASSUME IsFiniteSet(Parts), TypeOK', NEW c \in Clients
  PROVE  Distance(c)' \in Nat
<1>1. op'[c] \in Requested /\ pc'[c] \in Labels
  BY DEF TypeOK
<1>2. Remaining(c)' \subseteq {k \in Keys : Script(op'[c])[k] # Unwritten}
  BY DEF Remaining
<1>3. PICK left \in Nat : left = Cardinality(Remaining(c)')
  BY <1>1, <1>2, ScriptKeyCount, FS_CardinalityType
<1> QED BY <1>1, <1>3 DEF Distance, Labels

(* The others' steps, a cancellation and the automatic rollback that        *)
(* follows it do not lengthen the way.                                      *)
LEMMA OthersKeepDistance ==
  ASSUME TypeOK, NEW c \in Clients, NEW d \in Clients,
         \/ \E o \in Requested : Receive(c, o)
         \/ Step(c) \/ Cancel(c) \/ AutoRollback(c),
         d # c
  PROVE  Distance(d)' = Distance(d)
<1>1. Untouched(d)
  BY OneClientMoves
<1>2. Remaining(d)' = Remaining(d)
  BY <1>1 DEF Untouched, Remaining
<1> QED BY <1>1, <1>2 DEF Untouched, Distance

LEMMA EnvironmentKeepsDistance ==
  ASSUME TypeOK, NEW c \in Clients, Cancel(c) \/ AutoRollback(c)
  PROVE  Distance(c)' = Distance(c)
<1>1. pc' = pc /\ op' = op /\ writes' = writes /\ bfsClient' = bfsClient
  BY DEF Cancel, AutoRollback
<1>2. Remaining(c)' = Remaining(c)
  BY <1>1 DEF Remaining
<1> QED BY <1>1, <1>2 DEF Distance

(* A statement of the method leaves one write less to make.                 *)
LEMMA StatementLeavesLess ==
  ASSUME IsFiniteSet(Parts), TypeOK, NEW c \in Clients, NEW k \in Keys,
         ExecuteStatement(c, k)
  PROVE  Cardinality(Remaining(c)') = Cardinality(Remaining(c)) - 1
<1>1. Script(op[c]) \in Writes /\ writes \in [Clients -> [Keys -> Values \cup {Unwritten}]]
  BY ScriptType DEF TypeOK, Writes
<1>2. Script(op[c])[k] # Unwritten /\ k \in Remaining(c)
  BY DEF ExecuteStatement, Remaining
<1>3. writes'[c] = [writes[c] EXCEPT ![k] = Script(op[c])[k]] /\ op' = op
  BY <1>1 DEF ExecuteStatement
<1>4. \A l \in Keys : writes'[c][l] = Unwritten <=> l # k /\ writes[c][l] = Unwritten
  BY <1>1, <1>2, <1>3
<1>5. Remaining(c)' = Remaining(c) \ {k}
  BY <1>3, <1>4 DEF Remaining
<1> QED BY <1>2, <1>5, RemainingIsFinite, FS_RemoveElement

(* The schema is not among the writes of a method: creating it leaves no    *)
(* more to do than before.                                                  *)
LEMMA SchemaLeavesNoMore ==
  ASSUME IsFiniteSet(Parts), TypeOK, NEW c \in Clients, EnsureSchemaExists(c)
  PROVE  Cardinality(Remaining(c)') \in 0 .. Cardinality(Remaining(c))
<1>1. writes \in [Clients -> [Keys -> Values \cup {Unwritten}]] /\ Schema \in Keys
  BY DEF TypeOK, Writes, Keys
<1>2. \A l \in Keys : writes'[c][l] = Unwritten => writes[c][l] = Unwritten
  BY <1>1, OperationsAssumption DEF EnsureSchemaExists, Values
<1>3. Remaining(c)' \subseteq Remaining(c)
  BY <1>2 DEF EnsureSchemaExists, Remaining
<1> QED BY <1>3, RemainingIsFinite, FS_Subset, FS_CardinalityType

(* Every step of a request brings it nearer to its answer.                  *)
LEMMA StepsShorten ==
  ASSUME IsFiniteSet(Parts), TypeOK, NEW c \in Clients, Step(c)
  PROVE  Distance(c)' < Distance(c)
<1>1. PICK left \in Nat : left = Cardinality(Remaining(c))
  BY RemainingIsFinite
<1>2. ASSUME op'[c] = op[c], writes'[c] = writes[c]
      PROVE  Cardinality(Remaining(c)') = left
  BY <1>1, <1>2 DEF Remaining
<1> USE DEF TypeOK, Distance
<1>3. CASE BeginTransaction(c)
  BY <1>1, <1>2, <1>3 DEF BeginTransaction, AfterBegin
<1>4. CASE BeginTransactionFails(c)
  BY <1>1, <1>4 DEF BeginTransactionFails
<1>5. CASE ReadMetadataTables(c)
  BY <1>1, <1>2, <1>5 DEF ReadMetadataTables
<1>6. CASE LoadExtension(c)
  BY <1>1, <1>2, <1>6 DEF LoadExtension, AfterLoad
<1>7. CASE EnsureSchemaExists(c)
  <2>1. PICK less \in Nat : less = Cardinality(Remaining(c)') /\ less <= left
    BY <1>1, <1>7, SchemaLeavesNoMore
  <2> QED BY <1>1, <1>7, <2>1 DEF EnsureSchemaExists
<1>8. CASE ConvertAndValidate(c)
  BY <1>1, <1>2, <1>8 DEF ConvertAndValidate
<1>9. CASE VerifyNoInstances(c)
  BY <1>1, <1>2, <1>9 DEF VerifyNoInstances
<1>10. ASSUME NEW k \in Keys, ExecuteStatement(c, k) PROVE Distance(c)' < Distance(c)
  <2>1. Cardinality(Remaining(c)') = left - 1
    BY <1>1, <1>10, StatementLeavesLess
  <2> QED BY <1>1, <1>10, <2>1 DEF ExecuteStatement
<1>11. CASE ResolvePath(c)
  BY <1>1, <1>2, <1>11 DEF ResolvePath
<1>12. CASE BeginBucketFs(c)
  BY <1>1, <1>2, <1>12 DEF BeginBucketFs
<1>13. CASE BeginBucketFsFails(c)
  BY <1>1, <1>13 DEF BeginBucketFsFails
<1>14. CASE CreateUdfScript(c)
  BY <1>1, <1>2, <1>14 DEF CreateUdfScript
<1>15. CASE CreateUdfScriptFails(c)
  BY <1>1, <1>15 DEF CreateUdfScriptFails
<1>16. CASE ListFiles(c)
  BY <1>1, <1>16 DEF ListFiles
<1>17. CASE ScriptReturns(c)
  BY <1>1, <1>17 DEF ScriptReturns
<1>18. CASE Fail(c) \/ RefuseStatement(c)
  BY <1>1, <1>18 DEF Fail, AfterFailure, RefuseStatement
<1>19. CASE CommitCleanup(c)
  BY <1>1, <1>19 DEF CommitCleanup
<1>20. CASE CommitCleanupFails(c)
  BY <1>1, <1>20 DEF CommitCleanupFails
<1>21. CASE CommitTransaction(c)
  BY <1>1, <1>21 DEF CommitTransaction
<1>22. CASE CommitTransactionFails(c)
  BY <1>1, <1>22 DEF CommitTransactionFails
<1>23. CASE Rollback(c)
  BY <1>1, <1>23 DEF Rollback
<1>24. ASSUME NEW r \in {"success", "error", "lost"}, Answer(c, r)
       PROVE  Distance(c)' < Distance(c)
  BY <1>1, <1>24 DEF Answer
<1> QED
  BY <1>3, <1>4, <1>5, <1>6, <1>7, <1>8, <1>9, <1>10, <1>11, <1>12, <1>13, <1>14,
     <1>15, <1>16, <1>17, <1>18, <1>19, <1>20, <1>21, <1>22, <1>23, <1>24
  DEF Step

(* A request in progress comes nearer to its answer with each of its steps, *)
(* from at most so many steps away, and no step of another request, no      *)
(* cancellation and no automatic rollback ever takes it further away: a     *)
(* handler does not go round in circles, whatever fails and whatever the    *)
(* extension's method does with the BucketFS client.                        *)
RequestsAdvance ==
  [][\A c \in Clients : pc[c] # "idle" =>
       /\ Distance(c) \in 1 .. Cardinality(Parts) + 15
       /\ Distance(c)' <= Distance(c)
       /\ Step(c) => Distance(c)' < Distance(c)]_vars

(* The handlers of transactionController.go come to their answer in a       *)
(* number of steps that the parts of an extension bound.                    *)
THEOREM RequestsComeToAnEnd ==
  ASSUME IsFiniteSet(Parts)
  PROVE  SafeSpec => RequestsAdvance
<1>1. ASSUME TypeOK, Next, NEW d \in Clients, pc[d] # "idle"
      PROVE  /\ Distance(d) \in 1 .. Cardinality(Parts) + 15
             /\ Distance(d)' <= Distance(d)
             /\ Step(d) => Distance(d)' < Distance(d)
  <2>1. Distance(d) \in 1 .. Cardinality(Parts) + 15
    BY <1>1, DistanceBound, FS_CardinalityType
  <2>2. Step(d) => Distance(d)' \in Nat /\ Distance(d)' < Distance(d)
    BY <1>1, TypeOKNext, StepsShorten, NextDistanceType
  <2>3. PICK c \in Clients : \/ \E o \in Requested : Receive(c, o)
                             \/ Step(c) \/ Cancel(c) \/ AutoRollback(c)
    BY <1>1 DEF Next
  <2>4. CASE Step(d)
    BY <2>1, <2>2, <2>4, FS_CardinalityType
  <2>5. CASE ~Step(d)
    <3>1. ~ \E o \in Requested : Receive(d, o)
      BY <1>1 DEF Receive
    <3>2. Distance(d)' = Distance(d)
      BY <1>1, <2>3, <2>5, <3>1, OthersKeepDistance, EnvironmentKeepsDistance
    <3> QED BY <2>1, <2>5, <3>2, FS_CardinalityType
  <2> QED BY <2>4, <2>5
<1>2. TypeOK /\ [Next]_vars =>
        [\A c \in Clients : pc[c] # "idle" =>
           /\ Distance(c) \in 1 .. Cardinality(Parts) + 15
           /\ Distance(c)' <= Distance(c)
           /\ Step(c) => Distance(c)' < Distance(c)]_vars
  BY <1>1
<1> QED BY <1>2, TypeCorrect, PTL DEF SafeSpec, RequestsAdvance

=============================================================================
