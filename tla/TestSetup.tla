------------------------------ MODULE TestSetup ------------------------------
(***************************************************************************)
(* The Java test framework: a test class creates an ExtensionManagerSetup,  *)
(* which builds the extension, installs the manager and starts it as a      *)
(* process; its tests create objects and register them for the cleanup      *)
(* after each test; at last the class closes the setup. Other processes of  *)
(* the machine, other setups among them, take and free the port. A file     *)
(* that exists in the temporary directory of the setup can be deleted.      *)
(***************************************************************************)
EXTENDS SimpleProcess

CONSTANTS
  Objects,       \* virtual schemas and connections of the tests
  Files,         \* definitions of previous versions
  MaxCallbacks   \* bound: callbacks in the queue

ASSUME TestSetupAssumption ==
  /\ Objects \cap Files = {}
  /\ MaxCallbacks \in Nat

VARIABLES
  pc,            \* where create, cleanup or close is; "ready" during a test
  tempDir,       \* the temporary directory exists
  port,          \* who listens at the port: "unknown" before it is chosen
  manager,       \* the process of the manager
  startupLine,   \* the line that counts startupFinishedLatch down
  queue,         \* cleanupCallbacks
  next,          \* the callback the cleanup is at
  closing,       \* the cleanup is part of close
  present,       \* what exists of the tests' objects and files
  thrown,        \* why the last call of create, cleanup or close threw
  aborted        \* history: a callback has thrown since the queue was cleared

tests == <<queue, next, closing, present, aborted>>
vars == <<command, pc, tempDir, port, manager, startupLine, tests, thrown>>

ExtensionSchema == "EXA_EXTENSIONS"
Commands == {"build", "install", "gopath", "help"}
AfterCommand == [build |-> "install", install |-> "gopath", gopath |-> "port", help |-> "spawn"]
Creating == Commands \cup {"port", "spawn", "await", "connect"}
Ended == {"failed", "closed", "leaked"}
Running == {"launched", "logged", "listening"}

Init ==
  /\ NoCommand
  /\ pc = "idle"
  /\ tempDir = FALSE
  /\ port = "unknown"
  /\ manager = "none"
  /\ startupLine = "unwritten"
  /\ queue = <<>> /\ next = 1 /\ closing = FALSE /\ present = {} /\ aborted = FALSE
  /\ thrown = "nothing"

Go(to) == pc' = to /\ UNCHANGED thrown
Throw(why, to) == pc' = to /\ thrown' = why

----------------------------------------------------------------------------
(* create: the version of the database is checked first.                    *)
Create ==
  /\ pc = "idle"
  /\ \/ Go("build") /\ tempDir' = TRUE
     \/ Throw("precondition", "failed") /\ tempDir' \in BOOLEAN
  /\ UNCHANGED <<command, port, manager, startupLine, tests>>

(* The configuration leaves out the builds; with the manager's project at   *)
(* hand nobody asks for the GOPATH. -help is always asked for.              *)
SkipCommand ==
  /\ pc \in {"build", "install", "gopath"}
  /\ tool = "none"
  /\ Go(AfterCommand[pc]) \/ Throw("command", "failed")
  /\ UNCHANGED <<command, tempDir, port, manager, startupLine, tests>>

RunCommand ==
  /\ pc \in Commands
  /\ tool = "none"
  /\ \/ StartCommand /\ Go(pc)
     \/ UNCHANGED command /\ Throw("command", "failed")
  /\ UNCHANGED <<tempDir, port, manager, startupLine, tests>>

AwaitCommand ==
  /\ pc \in Commands
  /\ \/ (WaitUntilTerminated \/ WaitUntilStreamClosed) /\ Go(pc)
     \/ CommandThrows /\ Throw("command", "failed")
  /\ UNCHANGED <<tempDir, port, manager, startupLine, tests>>

(* What a command was for may be missing: the extension file, which is      *)
(* copied into the directory, or the executable.                            *)
CommandReturns ==
  /\ pc \in Commands
  /\ CommandEnded
  /\ \/ Go(AfterCommand[pc])
     \/ pc # "help" /\ Throw("command", "failed")
  /\ DropCommand
  /\ UNCHANGED <<tempDir, port, manager, startupLine, tests>>

(* The port is free when it is chosen, and not reserved.                    *)
FindOpenPort ==
  /\ pc = "port"
  /\ \/ Go("help") /\ port' = "free"
     \/ Throw("startup", "failed") /\ UNCHANGED port
  /\ UNCHANGED <<command, tempDir, manager, startupLine, tests>>

SpawnManager ==
  /\ pc = "spawn"
  /\ \/ Go("await") /\ manager' = "launched"
     \/ Throw("startup", "failed") /\ UNCHANGED manager
  /\ UNCHANGED <<command, tempDir, port, startupLine, tests>>

(* Process.destroy asks the process to end.                                 *)
StopManager == manager' = IF manager \in Running THEN "stopping" ELSE manager

AwaitStartup ==
  /\ pc = "await"
  /\ startupLine = "read"
  /\ Go("connect")
  /\ UNCHANGED <<command, tempDir, port, manager, startupLine, tests>>

(* Faulty variant: the process is not stopped.                              *)
AwaitWithoutStop ==
  /\ pc = "await"
  /\ startupLine # "read"
  /\ Throw("startup", "failed")
  /\ UNCHANGED <<command, tempDir, port, manager, startupLine, tests>>

(* Faulty variant: the latch is awaited without a timeout.                  *)
AwaitForever == FALSE /\ UNCHANGED vars

AwaitTimesOut ==
  /\ pc = "await"
  /\ startupLine # "read"
  /\ Throw("startup", "failed")
  /\ StopManager
  /\ UNCHANGED <<command, tempDir, port, startupLine, tests>>

AwaitInterrupted ==
  /\ pc = "await"
  /\ Throw("interrupted", "failed")
  /\ UNCHANGED <<command, tempDir, port, manager, startupLine, tests>>

Connect ==
  /\ pc = "connect"
  /\ Go("ready") \/ Throw("connection", "failed")
  /\ UNCHANGED <<command, tempDir, port, manager, startupLine, tests>>

----------------------------------------------------------------------------
(* The manager: it logs that it starts before it listens, and ends when the *)
(* port is taken. Its stderr is read by a thread of its own.                *)
ManagerLogs ==
  /\ manager = "launched"
  /\ manager' = "logged"
  /\ startupLine' = "written"
  /\ UNCHANGED <<command, pc, tempDir, port, tests, thrown>>

ReadStartupLine ==
  /\ startupLine = "written"
  /\ startupLine' = "read"
  /\ UNCHANGED <<command, pc, tempDir, port, manager, tests, thrown>>

ManagerListens ==
  /\ manager = "logged" /\ port = "free"
  /\ manager' = "listening" /\ port' = "manager"
  /\ UNCHANGED <<command, pc, tempDir, startupLine, tests, thrown>>

ManagerExits ==
  /\ \/ manager = "launched"
     \/ manager = "logged" /\ port = "other"
     \/ manager = "stopping"
  /\ manager' = "exited"
  /\ port' = IF port = "manager" THEN "free" ELSE port
  /\ UNCHANGED <<command, pc, tempDir, startupLine, tests, thrown>>

OtherProcess ==
  /\ \/ port = "free" /\ port' = "other"
     \/ port = "other" /\ port' = "free"
  /\ UNCHANGED <<command, pc, tempDir, manager, startupLine, tests, thrown>>

----------------------------------------------------------------------------
(* A test. A request that reaches no manager fails and changes nothing;     *)
(* one that reaches another manager changes the same database.              *)
Register(callback) ==
  /\ Len(queue) < MaxCallbacks
  /\ queue' = Append(queue, callback)

AddToCleanupQueue(o) ==
  /\ pc = "ready"
  /\ Register([statement |-> TRUE, of |-> o])
  /\ UNCHANGED <<command, pc, tempDir, port, manager, startupLine, next, closing,
                 present, thrown, aborted>>

Registered == {queue[i].of : i \in DOMAIN queue}

CreateObject(o) ==
  /\ pc = "ready"
  /\ \/ o \in Registered /\ port \in {"manager", "other"}
     \/ o = ExtensionSchema
  /\ present' = present \cup {o}
  /\ UNCHANGED <<command, pc, tempDir, port, manager, startupLine, queue, next, closing,
                 thrown, aborted>>

(* A download that fails leaves no file. The name is new in the directory.  *)
FetchExtension(f) ==
  /\ pc = "ready"
  /\ f \notin present \cup Registered
  /\ Register([statement |-> FALSE, of |-> f])
  /\ present' = present \cup {f}
  /\ UNCHANGED <<command, pc, tempDir, port, manager, startupLine, next, closing,
                 thrown, aborted>>

----------------------------------------------------------------------------
(* cleanup after each test and as the first part of close.                  *)
BeginCleanup ==
  /\ pc = "ready"
  /\ closing' \in BOOLEAN
  /\ next' = 1
  /\ Throw("nothing", "cleanup")
  /\ UNCHANGED <<command, tempDir, port, manager, startupLine, queue, present, aborted>>

Callback == queue[next]
ThrowFromCleanup(why) == Throw(why, IF closing THEN "leaked" ELSE "ready")

RunCallback ==
  /\ pc = "cleanup"
  /\ next <= Len(queue)
  /\ Callback.statement \/ Callback.of \in present
  /\ present' = present \ {Callback.of}
  /\ next' = next + 1
  /\ UNCHANGED <<command, pc, tempDir, port, manager, startupLine, queue, closing,
                 thrown, aborted>>

(* Faulty variant: the exception of a callback is only logged.              *)
CallbackExceptionIgnored ==
  /\ pc = "cleanup"
  /\ next <= Len(queue)
  /\ Callback.statement \/ Callback.of \notin present
  /\ next' = next + 1
  /\ UNCHANGED <<command, pc, tempDir, port, manager, startupLine, queue, closing,
                 present, thrown, aborted>>

(* The other callbacks are not run, and the queue stays as it is.           *)
CallbackThrows ==
  /\ pc = "cleanup"
  /\ next <= Len(queue)
  /\ Callback.statement \/ Callback.of \notin present
  /\ ThrowFromCleanup(IF Callback.statement THEN "statement" ELSE "file")
  /\ aborted' = TRUE
  /\ UNCHANGED <<command, tempDir, port, manager, startupLine, queue, next, closing, present>>

(* Faulty variant: the callbacks are kept for the next cleanup.             *)
KeepCallbacks ==
  /\ pc = "cleanup"
  /\ next > Len(queue)
  /\ Go("dropSchema")
  /\ aborted' = FALSE
  /\ UNCHANGED <<command, tempDir, port, manager, startupLine, queue, next, closing, present>>

ClearCallbacks ==
  /\ pc = "cleanup"
  /\ next > Len(queue)
  /\ queue' = <<>> /\ next' = 1
  /\ Go("dropSchema")
  /\ aborted' = FALSE
  /\ UNCHANGED <<command, tempDir, port, manager, startupLine, closing, present>>

DropExtensionSchema ==
  /\ pc = "dropSchema"
  /\ \/ /\ present' = present \ {ExtensionSchema}
        /\ Go(IF closing THEN "stop" ELSE "ready")
     \/ ThrowFromCleanup("statement") /\ UNCHANGED present
  /\ UNCHANGED <<command, tempDir, port, manager, startupLine, queue, next, closing, aborted>>

(* The rest of close.                                                       *)
StopProcess ==
  /\ pc = "stop"
  /\ StopManager
  /\ Go("deleteTempDir")
  /\ UNCHANGED <<command, tempDir, port, startupLine, tests>>

DeleteTempDir ==
  /\ pc = "deleteTempDir"
  /\ tempDir' = FALSE
  /\ Go("closed")
  /\ UNCHANGED <<command, port, manager, startupLine, tests>>

----------------------------------------------------------------------------
ToolStep == \E st \in Streams : WriteLine(st) \/ ExitTool
Reading == \E st \in Streams : ReaderStep(st)
OfCommand(step) == step /\ UNCHANGED <<pc, tempDir, port, manager, startupLine, tests, thrown>>

CreateStep ==
  \/ Create \/ SkipCommand \/ RunCommand \/ AwaitCommand \/ CommandReturns \/ FindOpenPort
  \/ SpawnManager \/ AwaitStartup \/ AwaitTimesOut \/ Connect
ManagerStep == ManagerLogs \/ ReadStartupLine \/ ManagerListens \/ ManagerExits
Test ==
  \/ \E o \in Objects : AddToCleanupQueue(o)
  \/ \E o \in Objects \cup {ExtensionSchema} : CreateObject(o)
  \/ \E f \in Files : FetchExtension(f)
CleanupStep ==
  \/ RunCallback \/ CallbackThrows \/ ClearCallbacks \/ DropExtensionSchema
  \/ StopProcess \/ DeleteTempDir

Next ==
  \/ CreateStep \/ AwaitInterrupted \/ ManagerStep \/ Test \/ BeginCleanup \/ CleanupStep \/ OtherProcess
  \/ OfCommand(ToolStep) \/ OfCommand(Reading)

(* The thread of the test class keeps running, and a manager that was asked *)
(* to end ends. No command, no manager and no reader is assumed to go on:   *)
(* the timeouts are the framework's own.                                    *)
Spec ==
  /\ Init /\ [][Next]_vars
  /\ WF_vars(CreateStep) /\ WF_vars(CleanupStep)
  /\ WF_vars(manager = "stopping" /\ ManagerExits)

----------------------------------------------------------------------------
(* The variables have their types; a thread never takes more lines than     *)
(* its stream has, and the cleanup never runs past the end of its queue.    *)
TypeOK ==
  /\ CommandTypeOK
  /\ pc \in {"idle", "ready", "cleanup", "dropSchema", "stop", "deleteTempDir"}
        \cup Creating \cup Ended
  /\ startupLine \in {"unwritten", "written", "read"}
  /\ tempDir \in BOOLEAN /\ closing \in BOOLEAN /\ aborted \in BOOLEAN
  /\ port \in {"unknown", "free", "manager", "other"}
  /\ port = "manager" => manager \in {"listening", "stopping"}
  /\ manager \in Running \cup {"none", "stopping", "exited"}
  /\ queue \in Seq([statement : BOOLEAN, of : Objects \cup Files])
  /\ next \in 1..Len(queue) + 1
  /\ present \subseteq Objects \cup Files \cup {ExtensionSchema}
  /\ thrown \in {"nothing", "precondition", "command", "startup", "interrupted", "connection",
                 "statement", "file"}

(* A cleanup that returns leaves nothing of the test: no object, no         *)
(* definition of a previous version in the registry of the manager, no      *)
(* extension schema (ExtensionManagerSetup.cleanup, "in order to have a     *)
(* clean state").                                                           *)
CleanupCleans ==
  [][(pc = "dropSchema" /\ pc' # pc /\ thrown' = "nothing") => present' = {} /\ queue' = <<>>]_vars

(* A cleanup fails at a file only because an earlier one was aborted by a   *)
(* statement after it had deleted the file: without a failure of the        *)
(* database every cleanup succeeds.                                         *)
FileMissesOnlyAfterAbort == [][(thrown' = "file" /\ thrown # "file") => aborted]_vars

(* When a class is through with its setup, the manager's process has been   *)
(* stopped, and the directory is deleted after a regular close. The process *)
(* runs on only where create was interrupted or found no connection, or     *)
(* where the cleanup that begins close threw.                               *)
NothingRunsOn ==
  /\ pc = "closed" => ~tempDir /\ manager \in {"stopping", "exited"}
  /\ pc = "failed" /\ manager \in Running => thrown \in {"interrupted", "connection"}
  /\ pc = "leaked" => thrown \in {"statement", "file"}

(* The output of a command that is returned is whole when the command has   *)
(* written to one stream only (-help of the manager, go env) and that could *)
(* be read.                                                                 *)
OutputIsWhole ==
  \A st \in Streams :
    (tool = "succeeded" /\ CommandEnded /\ pc \in Commands /\ reader[st] # "failed"
     /\ \A other \in Streams \ {st} : written[other] = 0)
    => Output = Whole(st)

(* create ends, whatever the commands and the manager do: every wait has a  *)
(* timeout.                                                                 *)
CreateEnds == (pc \in Creating) ~> (pc \in {"ready", "failed"})
=============================================================================
