------------------------------ MODULE Replies ------------------------------
(***************************************************************************)
(* The status a request is answered with: from the functions of an         *)
(* extension, which return, throw or do not exist, through the conversion  *)
(* of JavaScript errors (errorHandlingExtension.go), the layers of the     *)
(* controller that wrap errors, and UnwrapAPIError, to the response.  The  *)
(* transactions of concurrent requests are in TransactionController; here  *)
(* a behaviour is one request.                                             *)
(***************************************************************************)
EXTENDS ParameterValidation, Integers

CONSTANTS
  Requests,     \* requests that clients send
  Extensions,   \* what the requested extension is like
  Replacements, \* what its definition can be replaced by during the request
  Statuses      \* the statuses of errors that extensions throw

Routes ==
  {"listAvailable", "listInstalled", "details", "install", "uninstall", "upgrade",
   "createInstance", "listInstances", "deleteInstance"}

(* What a function of the extension does.  "throwsOther": it throws         *)
(* something without a status, which the record then has as 0.              *)
Behaviour ==
  [does : {"missing", "returns", "returnsNull", "throwsOther", "throwsNull"}, status : {0}]
    \cup [does : {"throws"}, status : Statuses]

Request ==
  [route : Routes, authorized : BOOLEAN, address : BOOLEAN, body : BOOLEAN,
   values : Seq(ParameterValue)]

Extension ==
  [found : BOOLEAN, loads : BOOLEAN,
   define : Behaviour, convertible : BOOLEAN, definitions : SUBSET Definition,
   find : Behaviour, instances : BOOLEAN,
   method : Behaviour]

(* convertError takes any integer for a status.                             *)
ASSUME RepliesAssumption ==
  /\ Requests \subseteq Request
  /\ Extensions \cup Replacements \subseteq Extension
  /\ Statuses \subseteq Int

VARIABLES
  todo,         \* the stages the request has still to go through
  request,
  extension,    \* what the registry serves
  used,         \* the extension that was loaded to be called
  checked,      \* the extension that was loaded to validate the values
  error,        \* the error that is on its way to the handler
  committed,    \* the transaction has been committed
  status,       \* the status of the response; 0 before there is one
  thrown,       \* history: the statuses an extension's function has thrown, at most one
  fault,        \* history: the database, the registry or the network failed
  replaced      \* history: the definition was replaced, and when

input == <<request, extension, used, checked, replaced>>
vars == <<todo, input, error, committed, status, thrown, fault>>

(* An error is known by its status if it has an APIError in its chain.      *)
NoError == [kind |-> "none", status |-> 0]
Plain == [kind |-> "plain", status |-> 0]
Panic == [kind |-> "panic", status |-> 0]
Api(s) == [kind |-> "api", status |-> s]

----------------------------------------------------------------------------
(* The stages of each route: its handler, the transaction controller and    *)
(* the controller.  Creating an instance loads the extension twice.         *)
ListAvailableExtensions == <<"open", "begin", "bucketfs", "load", "reply">>
ListInstalledExtensions == <<"open", "begin", "metadata", "load", "call", "reply">>
GetExtensionDetails == <<"open", "begin", "load", "define", "reply">>
InstallExtension == <<"open", "begin", "load", "schema", "call", "commit", "reply">>
UninstallExtension == <<"open", "begin", "load", "verify", "call", "commit", "reply">>
UpgradeExtension == <<"open", "begin", "load", "call", "commit", "reply">>
CreateInstance ==
  <<"open", "body", "begin", "load", "schema", "reload", "define", "validate", "call",
    "commit", "reply">>
ListInstances == <<"open", "begin", "load", "call", "reply">>
DeleteInstance == <<"open", "begin", "load", "call", "commit", "reply">>

Path(route) ==
  CASE route = "listAvailable"  -> ListAvailableExtensions
    [] route = "listInstalled"  -> ListInstalledExtensions
    [] route = "details"        -> GetExtensionDetails
    [] route = "install"        -> InstallExtension
    [] route = "uninstall"      -> UninstallExtension
    [] route = "upgrade"        -> UpgradeExtension
    [] route = "createInstance" -> CreateInstance
    [] route = "listInstances"  -> ListInstances
    [] route = "deleteInstance" -> DeleteInstance

Writing == {"install", "uninstall", "upgrade", "createInstance", "deleteInstance"}
At(stage) == todo # <<>> /\ Head(todo) = stage
Proceed == todo' = Tail(todo) /\ UNCHANGED error
Fail(e) == todo' = <<"reply">> /\ error' = e

(* A request has arrived.  Nothing of it is kept for the next one.          *)
Init ==
  /\ request \in Requests
  /\ extension \in Extensions
  /\ used = extension /\ checked = extension
  /\ replaced = "no"
  /\ todo = Path(request.route)
  /\ error = NoError
  /\ committed = FALSE
  /\ status = 0
  /\ thrown = {}
  /\ fault = FALSE

----------------------------------------------------------------------------
(* A new definition is published, once, while it has still to be loaded.    *)
ReplaceDefinition ==
  /\ replaced = "no"
  /\ \E i \in DOMAIN todo : todo[i] \in {"load", "reload"}
  /\ extension' \in Replacements
  /\ replaced' = IF \E i \in DOMAIN todo : todo[i] = "load" THEN "before" ELSE "between"
  /\ UNCHANGED <<todo, request, used, checked, error, committed, status, thrown, fault>>

(* createDbConfig: the credentials are looked at before the address.        *)
OpenDatabase ==
  /\ At("open")
  /\ \/ ~request.authorized /\ Fail(Api(401))
     \/ request.authorized /\ ~request.address /\ Fail(Api(400))
     \/ request.authorized /\ request.address /\ Proceed
  /\ UNCHANGED <<input, committed, status, thrown, fault>>

DecodeJSONBody ==
  /\ At("body")
  /\ \/ request.body /\ Proceed
     \/ ~request.body /\ Fail(Api(400))
  /\ UNCHANGED <<input, committed, status, thrown, fault>>

(* beginTransaction, listBfsFiles, ReadMetadataTables, ensureSchemaExists.   *)
UseDatabase ==
  /\ At("begin") \/ At("bucketfs") \/ At("metadata") \/ At("schema")
  /\ Proceed
  /\ UNCHANGED <<input, committed, status, thrown, fault>>

Load(loaded, failure) ==
  /\ At("load") \/ At("reload")
  /\ checked' = loaded
  /\ used' = IF At("load") THEN loaded ELSE used
  /\ IF loaded.found /\ loaded.loads THEN Proceed ELSE Fail(failure)
  /\ UNCHANGED <<request, extension, replaced, committed, status, thrown, fault>>

(* Faulty variant: the text of the cause is wrapped and not the cause.      *)
LoadWithoutCause == Load(extension, Plain)

(* loadExtensionById, in a list for every extension: each caller wraps the   *)
(* cause.  A definition that does not run, that sets no extension or has     *)
(* another API version does not load.                                       *)
LoadExtension == Load(extension, IF extension.found THEN Plain ELSE Api(404))

Returns(b) == b.does \in {"returns", "returnsNull"}

(* convertError of the extension; it looks for the field status in what was *)
(* thrown, which panics when that is null.                                  *)
ErrorOf(b) ==
  CASE b.does = "throws"     -> Api(b.status)
    [] b.does = "throwsNull" -> Panic
    [] OTHER                 -> Plain

(* A function of the extension that does not return.                        *)
Throw(b) ==
  /\ ~Returns(b)
  /\ Fail(ErrorOf(b))
  /\ thrown' = {s \in {b.status} : b.does = "throws"}

(* getInstanceParameters, and the conversion of what it returns.            *)
GetParameterDefinitions ==
  /\ At("define")
  /\ \/ Throw(checked.define)
     \/ /\ Returns(checked.define)
        /\ IF checked.convertible THEN Proceed ELSE Fail(Plain)
        /\ UNCHANGED thrown
  /\ UNCHANGED <<input, committed, status, fault>>

DefinitionsOf(e) == IF e.define.does = "returnsNull" THEN {} ELSE e.definitions

(* Faulty variant: the validator's own failure counts as no finding.        *)
ValidateWhatWorks ==
  /\ At("validate")
  /\ IF ValidateParameters(DefinitionsOf(checked), request.values) = "invalid"
       THEN Fail(Api(400)) ELSE Proceed
  /\ UNCHANGED <<input, committed, status, thrown, fault>>

Validate ==
  LET verdict == ValidateParameters(DefinitionsOf(checked), request.values) IN
  /\ At("validate")
  /\ \/ verdict = "failed" /\ Fail(Plain)
     \/ verdict = "invalid" /\ Fail(Api(400))
     \/ verdict = "valid" /\ Proceed
  /\ UNCHANGED <<input, committed, status, thrown, fault>>

(* Faulty variant: an extension whose findInstances fails cannot list.      *)
ListsOnlyIfItReturns == Returns(used.find)

(* The instances are listed once for this and once more to be counted.      *)
SupportsListInstances ==
  used.find.does # "missing" /\ used.find.status # 404

VerifyNoInstances ==
  /\ At("verify")
  /\ \/ ~SupportsListInstances /\ Proceed /\ UNCHANGED thrown
     \/ SupportsListInstances /\ Throw(used.find)
     \/ /\ SupportsListInstances /\ Returns(used.find)
        /\ IF used.instances THEN Fail(Api(400)) ELSE Proceed
        /\ UNCHANGED thrown
  /\ UNCHANGED <<input, committed, status, fault>>

(* The last function called: findInstances for a list of instances, and      *)
(* else findInstallations, install, uninstall, upgrade, addInstance or       *)
(* deleteInstance.                                                           *)
Called == IF request.route = "listInstances" THEN used.find ELSE used.method

(* Faulty variant: an instance that is null is found out in the handler.    *)
CallWithoutLook ==
  /\ At("call")
  /\ \/ Throw(Called)
     \/ Returns(Called) /\ Proceed /\ UNCHANGED thrown
  /\ UNCHANGED <<input, committed, status, fault>>

CallMethod ==
  /\ At("call")
  /\ \/ Throw(Called)
     \/ /\ Returns(Called)
        /\ IF request.route = "createInstance" /\ Called.does = "returnsNull"
             THEN Fail(Plain) ELSE Proceed
        /\ UNCHANGED thrown
  /\ UNCHANGED <<input, committed, status, fault>>

(* The confirmation of a commit can get lost.                               *)
Commit ==
  /\ At("commit")
  /\ committed' = TRUE
  /\ \/ Proceed /\ UNCHANGED fault
     \/ Fail(Plain) /\ fault' = TRUE
  /\ UNCHANGED <<input, status, thrown>>

(* The database, the registry or the context fails a stage.                 *)
Fault ==
  /\ todo # <<>>
  /\ Head(todo) # "reply"
  /\ Fail(Plain)
  /\ fault' = TRUE
  /\ UNCHANGED <<input, committed, status, thrown>>

----------------------------------------------------------------------------
Success(route) == IF route \in {"install", "uninstall", "deleteInstance"} THEN 204 ELSE 200

(* The statuses that net/http sends as they are, and what it sends for an    *)
(* error with status s.  For one that it does not know WriteHeader panics,   *)
(* but the wrapper of the response counts it as written, so that nobody      *)
(* writes another; and 100, 102..199 go before the response as informational *)
(* ones.  The response then has the status of one that nobody chose: 200.    *)
Sendable == {101} \cup 200..999
Sent(s) == IF s \in Sendable THEN s ELSE 200

(* The handlers read the fields of the upgrade's result and of the instance. *)
HandlerPanics ==
  \/ error.kind = "panic"
  \/ /\ error.kind = "none"
     /\ request.route \in {"upgrade", "createInstance"}
     /\ used.method.does = "returnsNull"

(* Faulty variant: the status is written as it is.                          *)
WriteStatus ==
  /\ At("reply")
  /\ status' = CASE HandlerPanics                            -> 500
                 [] ~HandlerPanics /\ error.kind = "none"  -> Success(request.route)
                 [] error.kind = "api"                     -> error.status
                 [] error.kind = "plain"                   -> 500
  /\ todo' = <<>>
  /\ UNCHANGED <<input, error, committed, thrown, fault>>

(* The handler, or UnwrapAPIError and sendError.  A panic passes the timeout, *)
(* which may write 504, and ends in the recoverer, which writes 500.         *)
Reply ==
  /\ At("reply")
  /\ \/ HandlerPanics /\ status' \in {500, 504}
     \/ ~HandlerPanics /\ error.kind = "none" /\ status' = Success(request.route)
     \/ error.kind = "plain" /\ status' = 500
     \/ error.kind = "api" /\ status' = Sent(error.status)
  /\ todo' = <<>>
  /\ UNCHANGED <<input, error, committed, thrown, fault>>

Next ==
  \/ OpenDatabase \/ DecodeJSONBody \/ UseDatabase \/ LoadExtension
  \/ GetParameterDefinitions \/ Validate \/ VerifyNoInstances
  \/ CallMethod \/ Commit \/ Fault \/ Reply \/ ReplaceDefinition

Spec == Init /\ [][Next]_vars

----------------------------------------------------------------------------
Answered == todo = <<>>
Accepted == request.authorized /\ request.address
              /\ (request.route = "createInstance" => request.body)

TypeOK ==
  /\ \E n \in 0..Len(Path(request.route)) :
       todo = SubSeq(Path(request.route), n + 1, Len(Path(request.route)))
  /\ request \in Request
  /\ {extension, used, checked} \subseteq Extension
  /\ replaced \in {"no", "before", "between"}
  /\ error \in [kind : {"none", "plain", "panic"}, status : {0}]
                 \cup [kind : {"api"}, status : Statuses \cup {400, 401, 404}]
  /\ committed \in BOOLEAN
  /\ status \in {0} \cup Sendable
  /\ thrown \subseteq Statuses
  /\ fault \in BOOLEAN

(* The status that the registry gives an error ("404: Extension not found"), *)
(* or the extension, is the one the client gets: through all layers that     *)
(* wrap it, for lists too, and whichever function threw it.                  *)
StatusIsTold ==
  Answered =>
    /\ Accepted /\ ~fault /\ ~(used.found /\ checked.found) => status = 404
    /\ thrown \cap Sendable \subseteq {status}

Successful == 200..299
ThrowsSuccess == \E s \in thrown : Sent(s) \in Successful

(* A client that is told of a success can rely on it, with one exception:   *)
(* the extension threw a status that is sent as a success, which convertError *)
(* hands on and sendError writes, be it one of a success or one that cannot *)
(* be sent.  Then the transaction was rolled back.  And a client is told of *)
(* what was committed, unless the confirmation got lost or upgrade returned *)
(* null.                                                                    *)
CommitIsTold ==
  Answered /\ request.route \in Writing =>
    /\ status \in Successful => (committed <=> ~ThrowsSuccess)
    /\ committed /\ ~fault =>
         \/ status = Success(request.route)
         \/ request.route = "upgrade" /\ used.method.does = "returnsNull"

(* An instance is created only with values the definitions accept, also if  *)
(* the validator fails or a value is given twice.  The definitions are those *)
(* of the extension that creates the instance, although it is loaded twice,  *)
(* unless it was replaced just between.                                     *)
OnlyAcceptableInstances ==
  request.route = "createInstance" /\ committed =>
    /\ Acceptable(DefinitionsOf(checked), request.values)
    /\ replaced # "between" => Acceptable(DefinitionsOf(used), request.values)

(* An extension is uninstalled only when it cannot list instances or has    *)
(* listed none: a listing that fails for another reason stops it.           *)
UninstallIsChecked ==
  request.route = "uninstall" /\ committed =>
    \/ used.find.does = "missing"
    \/ used.find.status = 404
    \/ Returns(used.find) /\ ~used.instances
=============================================================================
