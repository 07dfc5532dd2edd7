----------------------- MODULE TransactionController -----------------------
(***************************************************************************)
(* The controller's transaction handling: how a request of a REST client   *)
(* runs through adaptDbHandler, transactionController.go, controller.go,   *)
(* TransactionContext and the BucketFS client, one action per step at      *)
(* which another request, the cancellation of the request's context or a   *)
(* failure of the database can intervene.                                  *)
(*                                                                         *)
(* A request holds up to two database transactions: the main one, in which *)
(* the extension works, and a second one on a connection of its own, begun *)
(* when a BucketFS client is needed.  The second one contains a temporary  *)
(* schema with a UDF and must never be committed.                          *)
(***************************************************************************)
EXTENDS Operations, Naturals, FiniteSets

CONSTANT Clients   \* each has at most one request in progress

VARIABLES
  db,         \* committed content of the database
  pc,         \* where the request of a client is
  op,         \* its operation
  ctx,        \* its context.Context: live, or cancelled
  tx,         \* the main transaction
  snapshot,   \* what the main transaction saw when it began
  writes,     \* what the main transaction has written
  bfsTx,      \* the transaction of the BucketFS client
  bfsClient,  \* TRUE when TransactionContext.bfsClient is set
  result,     \* what the controller returns to the handler
  reply       \* how its last request was answered

vars == <<db, pc, op, ctx, tx, snapshot, writes, bfsTx, bfsClient, result, reply>>
txVars == <<tx, snapshot, writes>>
bfsVars == <<bfsTx, bfsClient>>
requestVars == <<op, ctx, reply>>

Labels == {"idle", "begin", "metadata", "load", "schema", "params",
           "verify", "script", "bfsBegin", "udf", "list", "commit", "txCommit",
           "rollback", "answer"}
TxStates == {"none", "open", "committed", "rolledBack"}

Init ==
  /\ db = EmptyDatabase
  /\ pc = [c \in Clients |-> "idle"]
  /\ op = [c \in Clients |-> AnyOperation]
  /\ ctx = [c \in Clients |-> "live"]
  /\ tx = [c \in Clients |-> "none"]
  /\ snapshot = [c \in Clients |-> EmptyDatabase]
  /\ writes = [c \in Clients |-> NoWrites]
  /\ bfsTx = [c \in Clients |-> "none"]
  /\ bfsClient = [c \in Clients |-> FALSE]
  /\ result = [c \in Clients |-> "ok"]
  /\ reply = [c \in Clients |-> "none"]

----------------------------------------------------------------------------
Kind(c) == op[c].kind
View(c) == Overlay(writes[c], snapshot[c])

(* The writes the extension's method has still to make.                     *)
Remaining(c) ==
  {k \in Keys : Script(op[c])[k] # Unwritten /\ writes[c][k] = Unwritten}

Goto(c, label) == pc' = [pc EXCEPT ![c] = label]
Write(c, k, v) == writes' = [writes EXCEPT ![c][k] = v]

(* Where a request goes after beginning its transaction and after loading   *)
(* the extension's definition.                                              *)
AfterBegin(k) ==
  CASE k = "listAvailable" -> "bfsBegin"
    [] k = "listInstalled" -> "metadata"
    [] OTHER               -> "load"

AfterLoad(k) ==
  CASE k \in SchemaKinds     -> "schema"
    [] k = "uninstall"       -> "verify"
    [] k = "listAvailable"   -> "answer"
    [] OTHER                 -> "script"

(* The controller returns an error: the deferred Rollback runs next.  The   *)
(* list of available extensions is built after the transaction has ended.   *)
AfterFailure(c) ==
  IF Kind(c) = "listAvailable" /\ pc[c] = "load" THEN "answer" ELSE "rollback"

----------------------------------------------------------------------------
(* A client sends a request; the handler opens a database handle with the   *)
(* request's credentials, or rejects the request because credentials or     *)
(* parameters are missing or the body is not as expected.                   *)
Receive(c, o) ==
  /\ pc[c] = "idle"
  /\ \/ Goto(c, "begin") /\ UNCHANGED result
     \/ Goto(c, "answer") /\ result' = [result EXCEPT ![c] = "error"]
  /\ op' = [op EXCEPT ![c] = o]
  /\ reply' = [reply EXCEPT ![c] = "none"]
  /\ UNCHANGED <<db, ctx, txVars, bfsVars>>

BeginTransaction(c) ==
  /\ pc[c] = "begin"
  /\ ctx[c] = "live"
  /\ tx' = [tx EXCEPT ![c] = "open"]
  /\ snapshot' = [snapshot EXCEPT ![c] = db]
  /\ Goto(c, AfterBegin(Kind(c)))
  /\ UNCHANGED <<db, requestVars, writes, bfsVars, result>>

(* The database refuses the connection, or the context has ended.  There is *)
(* no transaction to roll back.                                             *)
BeginTransactionFails(c) ==
  /\ pc[c] = "begin"
  /\ result' = [result EXCEPT ![c] = "error"]
  /\ Goto(c, "answer")
  /\ UNCHANGED <<db, requestVars, txVars, bfsVars>>

ReadMetadataTables(c) ==
  /\ pc[c] = "metadata"
  /\ tx[c] = "open"
  /\ Goto(c, "load")
  /\ UNCHANGED <<db, requestVars, txVars, bfsVars, result>>

(* Fetch the definition from the registry.  This needs no database and is   *)
(* not bound to the request's context: it can go on after the context has   *)
(* ended, and nothing limits how long it takes.                             *)
LoadExtension(c) ==
  /\ pc[c] = "load"
  /\ Goto(c, AfterLoad(Kind(c)))
  /\ UNCHANGED <<db, requestVars, txVars, bfsVars, result>>

EnsureSchemaExists(c) ==
  /\ pc[c] = "schema"
  /\ tx[c] = "open"
  /\ IF View(c)[Schema] = Absent THEN Write(c, Schema, Present)
                                 ELSE UNCHANGED writes
  /\ Goto(c, IF Kind(c) = "createInstance" THEN "params" ELSE "script")
  /\ UNCHANGED <<db, requestVars, tx, snapshot, bfsVars, result>>

ConvertAndValidate(c) ==
  /\ pc[c] = "params"
  /\ Goto(c, "script")
  /\ UNCHANGED <<db, requestVars, txVars, bfsVars, result>>

(* Faulty variant: the extension is removed without looking for instances.  *)
SkipInstanceCheck(c) ==
  /\ pc[c] = "verify"
  /\ Goto(c, "script")
  /\ UNCHANGED <<db, requestVars, txVars, bfsVars, result>>

VerifyNoInstances(c) ==
  /\ pc[c] = "verify"
  /\ op[c].ext \in Listing => tx[c] = "open"
  /\ NoInstancesRemain(op[c], View(c))
  /\ Goto(c, "script")
  /\ UNCHANGED <<db, requestVars, txVars, bfsVars, result>>

(* A statement of the extension's method.                                   *)
ExecuteStatement(c, k) ==
  /\ pc[c] = "script"
  /\ tx[c] = "open"
  /\ k \in Remaining(c)
  /\ Executable(op[c], View(c))
  /\ Write(c, k, Script(op[c])[k])
  /\ UNCHANGED <<db, pc, requestVars, tx, snapshot, bfsVars, result>>

(* Faulty variant: the check is missing, and the commit of the extension    *)
(* reaches the database.                                                    *)
ExtensionCommits(c) ==
  /\ pc[c] = "script"
  /\ tx[c] = "open"
  /\ db' = Overlay(writes[c], db)
  /\ tx' = [tx EXCEPT ![c] = "committed"]
  /\ UNCHANGED <<pc, requestVars, snapshot, writes, bfsVars, result>>

(* The statement is COMMIT or ROLLBACK and nothing else (validateQuery): the *)
(* database does not see it, and the method fails.  Other texts that end a  *)
(* transaction, like COMMIT WORK, pass the check; that extensions do not    *)
(* send them is an assumption of this module.                               *)
RefuseStatement(c) ==
  /\ pc[c] = "script"
  /\ result' = [result EXCEPT ![c] = "error"]
  /\ Goto(c, "rollback")
  /\ UNCHANGED <<db, requestVars, txVars, bfsVars>>

(* The extension's method needs the path of a file in BucketFS.  A client   *)
(* that exists already is reused.                                           *)
ResolvePath(c) ==
  /\ pc[c] = "script"
  /\ ~bfsClient[c]
  /\ Goto(c, "bfsBegin")
  /\ UNCHANGED <<db, requestVars, txVars, bfsVars, result>>

BeginBucketFs(c) ==
  /\ pc[c] = "bfsBegin"
  /\ ctx[c] = "live"
  /\ bfsTx' = [bfsTx EXCEPT ![c] = "open"]
  /\ Goto(c, "udf")
  /\ UNCHANGED <<db, requestVars, txVars, bfsClient, result>>

BeginBucketFsFails(c) ==
  /\ pc[c] = "bfsBegin"
  /\ result' = [result EXCEPT ![c] = "error"]
  /\ Goto(c, "rollback")
  /\ UNCHANGED <<db, requestVars, txVars, bfsVars>>

CreateUdfScript(c) ==
  /\ pc[c] = "udf"
  /\ bfsTx[c] = "open"
  /\ bfsClient' = [bfsClient EXCEPT ![c] = TRUE]
  /\ Goto(c, IF Kind(c) = "listAvailable" THEN "list" ELSE "script")
  /\ UNCHANGED <<db, requestVars, txVars, bfsTx, result>>

(* The transaction is rolled back and no client is remembered.              *)
CreateUdfScriptFails(c) ==
  /\ pc[c] = "udf"
  /\ bfsTx' = [bfsTx EXCEPT ![c] = "rolledBack"]
  /\ result' = [result EXCEPT ![c] = "error"]
  /\ Goto(c, "rollback")
  /\ UNCHANGED <<db, requestVars, txVars, bfsClient>>

(* Faulty variant: the list of files is returned without a Rollback.        *)
ListWithoutRollback(c) ==
  /\ pc[c] = "list"
  /\ bfsTx[c] = "open"
  /\ Goto(c, "load")
  /\ UNCHANGED <<db, requestVars, txVars, bfsVars, result>>

ListFiles(c) ==
  /\ pc[c] = "list"
  /\ bfsTx[c] = "open"
  /\ Goto(c, "rollback")
  /\ UNCHANGED <<db, requestVars, txVars, bfsVars, result>>

(* Faulty variant: reads are committed like writes.                         *)
AlwaysCommit(c) ==
  /\ pc[c] = "script"
  /\ Kind(c) \in WriteKinds => Remaining(c) = {}
  /\ Goto(c, "commit")
  /\ UNCHANGED <<db, requestVars, txVars, bfsVars, result>>

(* The extension's method returns.                                          *)
ScriptReturns(c) ==
  /\ pc[c] = "script"
  /\ Kind(c) \in WriteKinds => Remaining(c) = {}
  /\ Goto(c, IF Kind(c) \in WriteKinds THEN "commit" ELSE "rollback")
  /\ UNCHANGED <<db, requestVars, txVars, bfsVars, result>>

(* A step of the controller returns an error: the registry or the database  *)
(* fails, the check of a step refuses, the extension throws or panics.      *)
Fail(c) ==
  /\ pc[c] \in {"metadata", "load", "schema", "params", "verify", "script", "list"}
  /\ result' = [result EXCEPT ![c] = "error"]
  /\ Goto(c, AfterFailure(c))
  /\ UNCHANGED <<db, requestVars, txVars, bfsVars>>

----------------------------------------------------------------------------
(* Faulty variants: closing commits the temporary schema, and Commit does   *)
(* not close the client.                                                    *)
CloseCommits(c) ==
  /\ pc[c] = "commit"
  /\ bfsClient[c] => bfsTx[c] = "open"
  /\ bfsTx' = [bfsTx EXCEPT ![c] = IF bfsClient[c] THEN "committed" ELSE @]
  /\ Goto(c, "txCommit")
  /\ UNCHANGED <<db, requestVars, txVars, bfsClient, result>>

CommitWithoutCleanup(c) ==
  /\ pc[c] = "commit"
  /\ Goto(c, "txCommit")
  /\ UNCHANGED <<db, requestVars, txVars, bfsVars, result>>

(* TransactionContext.Commit first closes the BucketFS client, which rolls  *)
(* back its transaction.                                                    *)
CommitCleanup(c) ==
  /\ pc[c] = "commit"
  /\ bfsClient[c] => bfsTx[c] = "open"
  /\ bfsTx' = [bfsTx EXCEPT ![c] = IF bfsClient[c] THEN "rolledBack" ELSE @]
  /\ Goto(c, "txCommit")
  /\ UNCHANGED <<db, requestVars, txVars, bfsClient, result>>

(* Closing fails: the transaction had ended with the context, or the        *)
(* database did not confirm.  The connection is given up in either case.    *)
CommitCleanupFails(c) ==
  /\ pc[c] = "commit"
  /\ bfsClient[c]
  /\ bfsTx' = [bfsTx EXCEPT ![c] = "rolledBack"]
  /\ result' = [result EXCEPT ![c] = "error"]
  /\ Goto(c, "rollback")
  /\ UNCHANGED <<db, requestVars, txVars, bfsClient>>

(* The database accepts the commit of a transaction whose extension has not *)
(* changed since it began, or, if it is not serializable, of any.           *)
Accepted(c) ==
  Serializable => \A k \in ExtensionKeys(op[c].ext) : db[k] = snapshot[c][k]

(* sql.Tx.Commit does not reach the database once the context has ended.    *)
(* An accepted commit whose confirmation is lost looks like a failure.      *)
CommitTransaction(c) ==
  /\ pc[c] = "txCommit"
  /\ tx[c] = "open"
  /\ ctx[c] = "live"
  /\ Accepted(c)
  /\ db' = Overlay(writes[c], db)
  /\ tx' = [tx EXCEPT ![c] = "committed"]
  /\ \E r \in {"ok", "error"} : result' = [result EXCEPT ![c] = r]
  /\ Goto(c, "rollback")
  /\ UNCHANGED <<requestVars, snapshot, writes, bfsVars>>

(* Faulty variant: the error of the commit is dropped.                      *)
DropCommitError(c) ==
  /\ pc[c] = "txCommit"
  /\ tx' = [tx EXCEPT ![c] = IF @ = "open" /\ ctx[c] = "live" THEN "rolledBack" ELSE @]
  /\ Goto(c, "rollback")
  /\ UNCHANGED <<db, requestVars, snapshot, writes, bfsVars, result>>

CommitTransactionFails(c) ==
  /\ pc[c] = "txCommit"
  /\ tx' = [tx EXCEPT ![c] = IF @ = "open" /\ ctx[c] = "live" THEN "rolledBack" ELSE @]
  /\ result' = [result EXCEPT ![c] = "error"]
  /\ Goto(c, "rollback")
  /\ UNCHANGED <<db, requestVars, snapshot, writes, bfsVars>>

(* The deferred TransactionContext.Rollback, which runs after a commit too: *)
(* a transaction that has ended stays as it is and the error is ignored.    *)
Rollback(c) ==
  /\ pc[c] = "rollback"
  /\ bfsTx' = [bfsTx EXCEPT ![c] = IF bfsClient[c] THEN "rolledBack" ELSE @]
  /\ tx' = [tx EXCEPT ![c] = IF @ = "open" THEN "rolledBack" ELSE @]
  /\ snapshot' = [snapshot EXCEPT ![c] = EmptyDatabase]
  /\ writes' = [writes EXCEPT ![c] = NoWrites]
  /\ Goto(c, IF Kind(c) = "listAvailable" /\ result[c] = "ok" THEN "load" ELSE "answer")
  /\ UNCHANGED <<db, requestVars, bfsClient, result>>

(* The handler writes the reply, which may get lost, and closes the handle. *)
(* The handler of an upgrade panics when the extension returned no result:  *)
(* the client is told of an internal error.  The request's state is gone.   *)
Answer(c, r) ==
  /\ pc[c] = "answer"
  /\ \/ r = "lost"
     \/ r = "success" /\ result[c] = "ok"
     \/ r = "error" /\ (result[c] = "error" \/ Kind(c) = "upgrade")
  /\ reply' = [reply EXCEPT ![c] = r]
  /\ Goto(c, "idle")
  /\ op' = [op EXCEPT ![c] = AnyOperation]
  /\ ctx' = [ctx EXCEPT ![c] = "live"]
  /\ tx' = [tx EXCEPT ![c] = "none"]
  /\ bfsTx' = [bfsTx EXCEPT ![c] = "none"]
  /\ bfsClient' = [bfsClient EXCEPT ![c] = FALSE]
  /\ result' = [result EXCEPT ![c] = "ok"]
  /\ UNCHANGED <<db, snapshot, writes>>

----------------------------------------------------------------------------
(* The client disconnects or the request's timeout of a minute expires.     *)
Cancel(c) ==
  /\ pc[c] # "idle"
  /\ ctx[c] = "live"
  /\ ctx' = [ctx EXCEPT ![c] = "cancelled"]
  /\ UNCHANGED <<db, pc, op, txVars, bfsVars, result, reply>>

(* Faulty variant: the main transaction is begun with a context of its own. *)
AutoRollbackOfBucketFs(c) ==
  /\ ctx[c] = "cancelled"
  /\ bfsTx[c] = "open"
  /\ bfsTx' = [bfsTx EXCEPT ![c] = "rolledBack"]
  /\ UNCHANGED <<db, pc, requestVars, txVars, bfsClient, result>>

(* database/sql rolls back the transactions of a context that has ended, at *)
(* any time after, in a goroutine of each transaction.                      *)
AutoRollback(c) ==
  /\ ctx[c] = "cancelled"
  /\ \/ /\ tx[c] = "open"
        /\ tx' = [tx EXCEPT ![c] = "rolledBack"]
        /\ UNCHANGED bfsTx
     \/ /\ bfsTx[c] = "open"
        /\ bfsTx' = [bfsTx EXCEPT ![c] = "rolledBack"]
        /\ UNCHANGED tx
  /\ UNCHANGED <<db, pc, requestVars, snapshot, writes, bfsClient, result>>

----------------------------------------------------------------------------
(* The steps of a request in progress.                                      *)
Step(c) ==
  \/ BeginTransaction(c) \/ BeginTransactionFails(c)
  \/ ReadMetadataTables(c) \/ LoadExtension(c) \/ EnsureSchemaExists(c)
  \/ ConvertAndValidate(c) \/ VerifyNoInstances(c)
  \/ \E k \in Keys : ExecuteStatement(c, k)
  \/ RefuseStatement(c)
  \/ ResolvePath(c) \/ BeginBucketFs(c) \/ BeginBucketFsFails(c)
  \/ CreateUdfScript(c) \/ CreateUdfScriptFails(c) \/ ListFiles(c)
  \/ ScriptReturns(c) \/ Fail(c)
  \/ CommitCleanup(c) \/ CommitCleanupFails(c)
  \/ CommitTransaction(c) \/ CommitTransactionFails(c)
  \/ Rollback(c)
  \/ \E r \in {"success", "error", "lost"} : Answer(c, r)

Next ==
  \E c \in Clients :
    \/ \E o \in Requested : Receive(c, o)
    \/ Step(c)
    \/ Cancel(c)
    \/ AutoRollback(c)

SafeSpec == Init /\ [][Next]_vars

(* A handler keeps running: the database's answers and the extension's      *)
(* method end.  middleware.Timeout ends the context of every request that   *)
(* does not finish, and database/sql the transactions of a context that has *)
(* ended.  Nothing makes a client send a request, and nothing in the code   *)
(* makes an exchange with the registry end.                                 *)
Spec ==
  /\ SafeSpec
  /\ \A c \in Clients :
       /\ WF_vars(pc[c] # "load" /\ Step(c))
       /\ WF_vars(Cancel(c)) /\ WF_vars(AutoRollback(c))

(* What a client has to hope for besides: its exchanges with the registry   *)
(* end.                                                                     *)
RegistryAnswers(c) == []<>(pc[c] # "load")

----------------------------------------------------------------------------
TypeOK ==
  /\ db \in Database
  /\ pc \in [Clients -> Labels]
  /\ op \in [Clients -> Requested]
  /\ ctx \in [Clients -> {"live", "cancelled"}]
  /\ tx \in [Clients -> TxStates]
  /\ snapshot \in [Clients -> Database]
  /\ writes \in [Clients -> Writes]
  /\ bfsTx \in [Clients -> TxStates \ {"committed"}]
  /\ bfsClient \in [Clients -> BOOLEAN]
  /\ result \in [Clients -> {"ok", "error"}]
  /\ reply \in [Clients -> {"none", "success", "error", "lost"}]

(* When a request is about to be answered, it has no transaction open, on   *)
(* either connection: every path of the transaction controller, with all    *)
(* its early returns, has passed the deferred Rollback or never began one.  *)
NothingLeftOpen ==
  \A c \in Clients : pc[c] = "answer" => tx[c] # "open" /\ bfsTx[c] # "open"

(* The transaction of the BucketFS client is never open when the main one   *)
(* is committed (TransactionContext.Commit closes the client first), and no *)
(* transaction is committed whose extension method has not returned or      *)
(* whose context has ended.                                                 *)
CommitIsLast ==
  [][\A c \in Clients :
       tx[c] # "committed" /\ tx'[c] = "committed" =>
         /\ bfsTx[c] # "open"
         /\ ctx[c] = "live"
         /\ Remaining(c) = {}]_vars

(* Every installed extension is whole in the committed database, whatever   *)
(* the requests that failed halfway or were cancelled.                      *)
WholeInstallations ==
  \A e \in Extensions : \A k, l \in PartKeys(e) : db[k] = db[l]

(* With a database that refuses conflicting commits no instance is left     *)
(* without its extension by an uninstallation that runs concurrently with a *)
(* creation of an instance (verifyNoInstances, for listing extensions).     *)
NoOrphanInstances ==
  \A e \in Listing : HasInstances(db, e) => Installed(db, e)

(* No transaction, of either connection, stays open: also when a request    *)
(* hangs in an exchange with the registry, which has no timeout, while its  *)
(* transaction is open.  The timeout of the request or a disconnect ends    *)
(* the context, and database/sql rolls back what was begun with it.         *)
TransactionsEnd ==
  \A c \in Clients : []<>(tx[c] # "open") /\ []<>(bfsTx[c] # "open")

(* The requests implement the operations of AtomicOperations.               *)
Phase ==
  [c \in Clients |-> IF pc[c] = "idle" THEN "idle"
                     ELSE IF tx[c] = "committed" THEN "applied" ELSE "pending"]

Atomic == INSTANCE AtomicOperations WITH phase <- Phase

ImplementsAtomicOperations == Atomic!SafeSpec

(* They do so for reads and lists too, and every client whose own exchanges *)
(* with the registry end is answered, whatever hangs for other clients.     *)
ImplementsFairOperations ==
  /\ Atomic!SafeSpec
  /\ \A c \in Clients : RegistryAnswers(c) => Atomic!Answered(c)
=============================================================================
