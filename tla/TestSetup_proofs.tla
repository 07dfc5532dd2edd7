-------------------------- MODULE TestSetup_proofs --------------------------
(***************************************************************************)
(* Proofs about the setup of a test class, for any objects and files, any  *)
(* number of callbacks, and any number of lines that a command writes.     *)
(***************************************************************************)
EXTENDS TestSetup, SequenceTheorems, TLAPS

USE DEF vars, command, tests, Streams

----------------------------------------------------------------------------
(* The lines a thread has passed on, or lost.                               *)
Done(st) == IF reader[st] = "appending" THEN taken[st] - 1 ELSE taken[st]

(* The threads together never have more text than lines.                    *)
Bounded ==
  /\ Len(buffer) <= Done("stdout") + Done("stderr")
  /\ \A st \in Streams : reader[st] = "appending" => taken[st] > 0

(* A stream has ended only when the process had, and was read to its end.   *)
AllRead ==
  \A st \in Streams : reader[st] = "ended" => tool # "running" /\ taken[st] = written[st]

(* A thread alone has appended each of its lines behind the last.           *)
Alone ==
  \A st \in Streams : (\A other \in Streams \ {st} : written[other] = 0) =>
    /\ reader[st] # "died"
    /\ buffer = [n \in 1..Done(st) |-> <<st, n>>]
    /\ length = Done(st)
    /\ reader[st] = "appending" => place[st] = length

(* The caller goes on when stdout, and then stderr, has been closed; it     *)
(* awaits nothing without a command.                                        *)
Waited ==
  /\ tool = "none" => awaited = "nothing"
  /\ pc \in {"idle", "port"} => tool = "none"
  /\ pc \in Commands /\ tool # "none" =>
       /\ awaited \in {"stderr", "nothing"} => Closed("stdout")
       /\ awaited = "nothing" => Closed("stderr")

CommandInv == CommandTypeOK /\ Bounded /\ AllRead /\ Alone

(* The manager's process begins with spawn and is stopped before closed.    *)
Managed ==
  /\ pc \in {"idle", "port", "spawn"} \cup Commands => manager = "none"
  /\ pc \in {"await", "connect", "ready", "cleanup", "dropSchema", "stop"} => manager # "none"
  /\ pc \in {"deleteTempDir", "closed"} => manager \in {"stopping", "exited"}

(* What the tests have created is registered, and in a cleanup is still to   *)
(* be removed.                                                              *)
Covered ==
  /\ \A o \in present \ {ExtensionSchema} :
       \E i \in DOMAIN queue : queue[i].of = o /\ (pc = "cleanup" => i >= next)
  /\ pc = "cleanup" => thrown = "nothing"
  /\ pc = "dropSchema" => queue = <<>> /\ thrown = "nothing"

(* Each file is registered once; without an abort those registered exist.   *)
Registering ==
  /\ \A i \in DOMAIN queue :
       queue[i].of \in IF queue[i].statement THEN Objects ELSE Files
  /\ \A i, j \in DOMAIN queue :
       ~queue[i].statement /\ ~queue[j].statement /\ queue[i].of = queue[j].of => i = j
  /\ \A i \in DOMAIN queue :
       ~aborted /\ ~queue[i].statement /\ (pc = "cleanup" => i >= next) =>
         queue[i].of \in present

StateTypeOK ==
  /\ pc \in {"idle", "ready", "cleanup", "dropSchema", "stop", "deleteTempDir"}
        \cup Creating \cup Ended
  /\ startupLine \in {"unwritten", "written", "read"}
  /\ tempDir \in BOOLEAN
  /\ port \in {"unknown", "free", "manager", "other"}
  /\ port = "manager" => manager \in {"listening", "stopping"}
  /\ manager \in Running \cup {"none", "stopping", "exited"}
  /\ thrown \in {"nothing", "precondition", "command", "startup", "interrupted", "connection",
                 "statement", "file"}
TestsTypeOK ==
  /\ closing \in BOOLEAN /\ aborted \in BOOLEAN
  /\ queue \in Seq([statement : BOOLEAN, of : Objects \cup Files])
  /\ next \in 1..Len(queue) + 1
  /\ present \subseteq Objects \cup Files \cup {ExtensionSchema}

(* What is known of the setup itself, and of its tests.                     *)
StateInv == StateTypeOK /\ Managed /\ NothingRunsOn
TestsInv == TestsTypeOK /\ Covered /\ Registering
SetupInv == StateInv /\ TestsInv
IInv == CommandInv /\ Waited /\ SetupInv

----------------------------------------------------------------------------
(* The command.                                                             *)
LEMMA NoCommandIsGood == NoCommand => CommandInv
<1> SUFFICES ASSUME NoCommand PROVE CommandInv
  OBVIOUS
<1> USE MaxLinesAssumption DEF NoCommand, Zero
<1>1. CommandTypeOK
  BY DEF CommandTypeOK
<1>2. Bounded /\ AllRead
  BY DEF Bounded, AllRead, Done
<1>3. Alone
  BY DEF Alone, Done
<1> QED
  BY <1>1, <1>2, <1>3 DEF CommandInv

LEMMA DropIsGood == DropCommand => CommandInv'
<1> SUFFICES ASSUME DropCommand PROVE CommandInv'
  OBVIOUS
<1> USE MaxLinesAssumption DEF DropCommand, Zero
<1>1. CommandTypeOK'
  BY DEF CommandTypeOK
<1>2. Bounded' /\ AllRead'
  BY DEF Bounded, AllRead, Done
<1>3. Alone'
  BY DEF Alone, Done
<1> QED
  BY <1>1, <1>2, <1>3 DEF CommandInv

LEMMA StartIsGood == StartCommand => CommandInv'
<1> SUFFICES ASSUME StartCommand PROVE CommandInv'
  OBVIOUS
<1> USE MaxLinesAssumption DEF StartCommand, Zero
<1>1. CommandTypeOK'
  BY DEF CommandTypeOK
<1>2. Bounded' /\ AllRead'
  BY DEF Bounded, AllRead, Done
<1>3. Alone'
  BY DEF Alone, Done
<1> QED
  BY <1>1, <1>2, <1>3 DEF CommandInv

(* The caller only waits.                                                   *)
LEMMA WaitingIsGood ==
  ASSUME CommandInv, UNCHANGED <<tool, written, taken, reader, place, buffer, length>>,
         awaited' \in {"exit", "nothing"} \cup Streams
  PROVE  CommandInv'
  BY DEF CommandInv, CommandTypeOK, Bounded, AllRead, Alone, Done

LEMMA SameIsGood == CommandInv /\ UNCHANGED command => CommandInv'
  BY DEF CommandInv, CommandTypeOK, Bounded, AllRead, Alone, Done

LEMMA ToolIsGood == CommandInv /\ ToolStep => CommandInv'
<1> SUFFICES ASSUME CommandInv, ToolStep PROVE CommandInv'
  OBVIOUS
<1> USE MaxLinesAssumption
<1>1. ASSUME NEW st \in Streams, WriteLine(st) PROVE CommandInv'
  <2> USE <1>1 DEF WriteLine
  <2>1. written' \in [Streams -> 0..MaxLines] /\ \A s \in Streams : written'[s] >= written[s]
    BY DEF CommandInv, CommandTypeOK
  <2>2. CommandTypeOK'
    BY <2>1 DEF CommandInv, CommandTypeOK
  <2>3. Bounded' /\ AllRead'
    BY DEF CommandInv, Bounded, AllRead, Done
  <2>4. \A s \in Streams : written'[s] = 0 => written[s] = 0
    BY <2>1 DEF CommandInv, CommandTypeOK
  <2>5. Alone'
    BY <2>4 DEF CommandInv, Alone, Done
  <2> QED
    BY <2>2, <2>3, <2>5 DEF CommandInv
<1>2. CASE ExitTool
  BY <1>2 DEF ExitTool, CommandInv, CommandTypeOK, Bounded, AllRead, Alone, Done
<1> QED
  BY <1>1, <1>2 DEF ToolStep

LEMMA Numbers ==
  ASSUME CommandInv, NEW st \in Streams
  PROVE  /\ written[st] \in Nat /\ taken[st] \in Nat /\ Done(st) \in Nat
         /\ taken[st] <= written[st] /\ written[st] <= MaxLines
         /\ Done(st) <= taken[st] /\ Done(st) <= MaxLines
         /\ reader[st] = "appending" => Done(st) + 1 = taken[st]
<1>1. /\ written[st] \in 0..MaxLines /\ taken[st] \in 0..MaxLines /\ taken[st] <= written[st]
      /\ reader[st] = "appending" => taken[st] > 0
  BY DEF CommandInv, CommandTypeOK, Bounded
<1> QED
  BY <1>1, MaxLinesAssumption DEF Done

LEMMA ReadLineIsGood ==
  ASSUME CommandInv, NEW st \in Streams, ReadLine(st)
  PROVE  CommandInv'
<1> USE MaxLinesAssumption DEF ReadLine
<1>1. /\ taken[st] \in Nat /\ taken[st] < written[st] /\ length \in 0..Len(buffer)
      /\ taken' = [taken EXCEPT ![st] = @ + 1]
  BY Numbers DEF CommandInv, CommandTypeOK
<1>2. CommandTypeOK'
  <2>1. taken' \in [Streams -> 0..MaxLines]
    <3>1. taken[st] + 1 \in 0..MaxLines
      BY Numbers, <1>1
    <3> QED
      BY <3>1 DEF CommandInv, CommandTypeOK
  <2>2. ASSUME NEW s \in Streams PROVE taken'[s] <= written'[s]
    <3>1. taken[s] \in Nat /\ written[s] \in Nat /\ taken[s] <= written[s]
      BY Numbers
    <3>2. taken'[s] = IF s = st THEN taken[s] + 1 ELSE taken[s]
      BY DEF CommandInv, CommandTypeOK
    <3> QED
      BY <1>1, <3>1, <3>2
  <2>3. reader' \in [Streams -> {"reading", "appending", "ended", "failed", "died"}]
    BY DEF CommandInv, CommandTypeOK
  <2>4. place' \in [Streams -> 0..Len(buffer)]
    BY <1>1 DEF CommandInv, CommandTypeOK
  <2> QED
    BY <2>1, <2>2, <2>3, <2>4 DEF CommandInv, CommandTypeOK
<1>3. ASSUME NEW s \in Streams
      PROVE  /\ Done(s)' = Done(s) /\ taken'[s] >= taken[s]
             /\ reader'[s] = "appending" => taken'[s] > 0
  <2>1. taken'[s] = (IF s = st THEN taken[s] + 1 ELSE taken[s])
    BY DEF CommandInv, CommandTypeOK
  <2>2. reader'[s] = IF s = st THEN "appending" ELSE reader[s]
    BY DEF CommandInv, CommandTypeOK
  <2>3. reader[s] = "appending" => taken[s] > 0
    BY DEF CommandInv, Bounded
  <2> QED
    BY Numbers, <2>1, <2>2, <2>3 DEF Done
<1>4. Bounded'
  BY Numbers, <1>1, <1>3 DEF CommandInv, CommandTypeOK, Bounded
<1>5. AllRead'
  BY DEF CommandInv, CommandTypeOK, AllRead
<1>6. Alone'
  BY Numbers, <1>3 DEF CommandInv, CommandTypeOK, Alone
<1> QED
  BY <1>2, <1>4, <1>5, <1>6 DEF CommandInv

LEMMA AppendLineIsGood ==
  ASSUME CommandInv, NEW st \in Streams, AppendLine(st)
  PROVE  CommandInv'
<1> USE MaxLinesAssumption DEF AppendLine
<1> DEFINE line == <<st, taken[st]>>
<1>1. /\ taken[st] \in 1..MaxLines /\ line \in Streams \X (1..MaxLines)
      /\ reader' = [reader EXCEPT ![st] = "reading"] /\ reader[st] = "appending"
      /\ length' = place[st] + 1 /\ place[st] \in 0..Len(buffer)
      /\ buffer \in Seq(Streams \X (1..MaxLines)) /\ Len(buffer) \in Nat
  <2>1. taken[st] \in 1..MaxLines
    <3>1. taken[st] > 0
      BY DEF CommandInv, Bounded
    <3> QED
      BY <3>1, Numbers
  <2>2. line \in Streams \X (1..MaxLines)
    BY <2>1
  <2>3. place[st] \in 0..Len(buffer) /\ buffer \in Seq(Streams \X (1..MaxLines))
    BY DEF CommandInv, CommandTypeOK
  <2> QED
    BY <2>1, <2>2, <2>3
<1>2. ASSUME NEW s \in Streams
      PROVE  /\ Done(s)' = IF s = st THEN Done(s) + 1 ELSE Done(s)
             /\ reader'[s] = IF s = st THEN "reading" ELSE reader[s]
             /\ taken'[s] = taken[s] /\ Done(s) \in Nat /\ Done(s)' \in Nat
             /\ Done(s)' <= MaxLines
  <2>1. reader'[s] = IF s = st THEN "reading" ELSE reader[s]
    BY DEF CommandInv, CommandTypeOK
  <2>2. Done(s) \in Nat /\ taken[s] \in Nat /\ Done(s) <= MaxLines
        /\ taken[s] <= written[s] /\ written[s] <= MaxLines /\ written[s] \in Nat
        /\ (reader[s] = "appending" => Done(s) + 1 = taken[s])
    BY Numbers, Zenon
  <2> QED
    BY <1>1, <2>1, <2>2 DEF Done
<1>3. /\ buffer' \in Seq(Streams \X (1..MaxLines))
      /\ Len(buffer') = IF place[st] < Len(buffer) THEN Len(buffer) ELSE Len(buffer) + 1
      /\ Len(buffer') \in Nat /\ length' \in 0..Len(buffer')
  <2>1. CASE place[st] < Len(buffer)
    BY <1>1, <2>1
  <2>2. CASE ~(place[st] < Len(buffer))
    BY <1>1, <2>2
  <2> QED BY <2>1, <2>2
<1>4. Bounded'
  <2>1. Len(buffer') <= Len(buffer) + 1
    BY <1>1, <1>3
  <2>2. Done("stdout")' + Done("stderr")' = Done("stdout") + Done("stderr") + 1
    BY <1>2
  <2>3. \A s \in Streams : reader'[s] = "appending" => taken'[s] > 0
    BY <1>2 DEF CommandInv, Bounded
  <2>4. Len(buffer) <= Done("stdout") + Done("stderr")
    BY DEF CommandInv, Bounded
  <2> QED
    <3>1. Len(buffer') <= Done("stdout")' + Done("stderr")'
      <4>1. /\ Done("stdout") \in Nat /\ Done("stderr") \in Nat
            /\ Done("stdout")' \in Nat /\ Done("stderr")' \in Nat
        BY <1>2
      <4>2. Len(buffer) \in Nat /\ Len(buffer') \in Nat
        BY <1>1, <1>3
      <4> QED
        BY <2>1, <2>2, <2>4, <4>1, <4>2
    <3> QED
      BY <2>3, <3>1 DEF Bounded
<1>5. Len(buffer') <= 2 * MaxLines
  BY <1>2, <1>3, <1>4 DEF Bounded
<1>6. CommandTypeOK'
  <2>1. place' \in [Streams -> 0..Len(buffer')]
    <3>1. place' = place /\ place \in [Streams -> 0..Len(buffer)]
      BY DEF CommandInv, CommandTypeOK
    <3>2. \A n \in 0..Len(buffer) : n \in 0..Len(buffer')
      BY <1>1, <1>3
    <3> QED
      BY <3>1, <3>2
  <2>2. reader' \in [Streams -> {"reading", "appending", "ended", "failed", "died"}]
    BY DEF CommandInv, CommandTypeOK
  <2> QED
    BY <1>3, <1>5, <2>1, <2>2 DEF CommandInv, CommandTypeOK
<1>7. AllRead'
  BY <1>2 DEF CommandInv, AllRead
<1>8. Alone'
  <2> SUFFICES ASSUME NEW s \in Streams, \A other \in Streams \ {s} : written[other] = 0
               PROVE  /\ reader'[s] # "died"
                      /\ buffer' = [n \in 1..Done(s)' |-> <<s, n>>]
                      /\ length' = Done(s)'
                      /\ reader'[s] = "appending" => place'[s] = length'
    BY DEF Alone
  <2>1. s = st
    BY <1>1, Numbers
  <2>2. /\ buffer = [n \in 1..Done(s) |-> <<s, n>>] /\ length = Done(s) /\ place[s] = length
    BY <1>1, <2>1 DEF CommandInv, Alone
  <2>3. Done(s) \in Nat /\ Len(buffer) = Done(s) /\ taken[s] = Done(s) + 1
        /\ Done(s)' = Done(s) + 1
    BY <1>1, <1>2, <2>1, <2>2, Numbers
  <2>4. buffer' = Append(buffer, <<s, Done(s) + 1>>)
    BY <2>1, <2>2, <2>3
  <2>5. buffer' = [n \in 1..Done(s) + 1 |-> <<s, n>>]
    <3> DEFINE d == Done(s)
    <3>1. d \in Nat /\ Len(buffer) = d /\ buffer = [n \in 1..d |-> <<s, n>>]
          /\ buffer \in Seq(Streams \X (1..MaxLines)) /\ buffer' = Append(buffer, <<s, d + 1>>)
      BY <1>1, <2>2, <2>3, <2>4
    <3> HIDE DEF d
    <3>2. /\ buffer' \in Seq(Streams \X (1..MaxLines)) /\ Len(buffer') = d + 1
          /\ \A n \in 1..d : buffer'[n] = buffer[n]
          /\ buffer'[d + 1] = <<s, d + 1>>
      BY <1>3, <3>1
    <3>3. ASSUME NEW n \in 1..d + 1 PROVE buffer'[n] = <<s, n>>
      <4>1. CASE n = d + 1
        BY <3>2, <4>1
      <4>2. CASE n # d + 1
        BY <3>1, <3>2, <4>2
      <4> QED BY <4>1, <4>2
    <3>4. buffer' = [n \in 1..d + 1 |-> buffer'[n]]
      <4>1. buffer' \in [1..d + 1 -> Streams \X (1..MaxLines)]
        BY <3>2, LenProperties, Zenon
      <4> QED BY <4>1
    <3>5. buffer' = [n \in 1..d + 1 |-> <<s, n>>]
      BY <3>3, <3>4
    <3> QED
      BY <3>5 DEF d
  <2>6. length' = Done(s)'
    BY <1>1, <2>1, <2>2, <2>3
  <2>7. reader'[s] = "reading"
    BY <1>2, <2>1
  <2> QED
    BY <2>3, <2>5, <2>6, <2>7
<1> QED
  BY <1>4, <1>6, <1>7, <1>8 DEF CommandInv

LEMMA AppendFailsIsGood ==
  ASSUME CommandInv, NEW st \in Streams, AppendFails(st)
  PROVE  CommandInv'
<1> USE MaxLinesAssumption DEF AppendFails
<1>1. ASSUME NEW s \in Streams
      PROVE  /\ reader[s] = "appending" /\ reader'[s] = IF s = st THEN "died" ELSE "appending"
             /\ taken'[s] = taken[s] /\ taken[s] > 0 /\ written'[s] # 0
             /\ Done(s) \in Nat /\ Done(s)' \in Nat /\ Done(s)' >= Done(s)
  <2>1. reader'[s] = IF s = st THEN "died" ELSE "appending"
    BY DEF CommandInv, CommandTypeOK
  <2>2. taken[s] > 0 /\ taken[s] \in Nat /\ written[s] # 0 /\ Done(s) \in Nat
        /\ Done(s) + 1 = taken[s]
    BY Numbers DEF CommandInv, Bounded
  <2> QED
    BY <2>1, <2>2 DEF Done
<1>2. CommandTypeOK'
  BY DEF CommandInv, CommandTypeOK
<1>3. Len(buffer') <= Done("stdout")' + Done("stderr")'
  <2>1. Len(buffer) <= Done("stdout") + Done("stderr") /\ Len(buffer) \in Nat
    BY DEF CommandInv, CommandTypeOK, Bounded
  <2>2. Done("stdout")' >= Done("stdout") /\ Done("stderr")' >= Done("stderr")
    BY <1>1
  <2> QED
    BY <1>1, <2>1, <2>2
<1>4. Bounded' /\ AllRead' /\ Alone'
  BY <1>1, <1>3 DEF Bounded, AllRead, Alone
<1> QED
  BY <1>2, <1>4 DEF CommandInv

(* A thread that ends lets go of nothing.                                   *)
LEMMA EndsIsGood ==
  ASSUME CommandInv, NEW st \in Streams, ReadFinished(st) \/ ReadFailed(st)
  PROVE  CommandInv'
<1> USE MaxLinesAssumption DEF ReadFinished, ReadFailed
<1>1. /\ UNCHANGED <<tool, written, taken, place, buffer, length, awaited>>
      /\ reader[st] = "reading" /\ reader'[st] \in {"ended", "failed"}
      /\ reader'[st] = "ended" => tool # "running" /\ taken[st] = written[st]
      /\ \A s \in Streams \ {st} : reader'[s] = reader[s]
      /\ reader' \in [Streams -> {"reading", "appending", "ended", "failed", "died"}]
  BY DEF CommandInv, CommandTypeOK
<1>2. \A s \in Streams : Done(s)' = Done(s)
  BY <1>1 DEF Done
<1>3. CommandTypeOK'
  BY <1>1 DEF CommandInv, CommandTypeOK
<1>4. Bounded' /\ AllRead'
  BY <1>1, <1>2 DEF CommandInv, Bounded, AllRead
<1>5. Alone'
  BY <1>1, <1>2 DEF CommandInv, Alone
<1> QED
  BY <1>3, <1>4, <1>5 DEF CommandInv

LEMMA ReadingIsGood == CommandInv /\ Reading => CommandInv'
  BY ReadLineIsGood, AppendLineIsGood, AppendFailsIsGood, EndsIsGood DEF Reading, ReaderStep

----------------------------------------------------------------------------
(* What the caller knows of the streams.                                    *)
LEMMA ToolKeepsWaited ==
  ASSUME CommandInv, Waited, ToolStep \/ Reading, UNCHANGED pc
  PROVE  Waited'
<1>1. tool # "running" => tool' = tool
  BY DEF ToolStep, Reading, ReaderStep, WriteLine, ExitTool, ReadLine, AppendLine, AppendFails,
         ReadFinished, ReadFailed
<1>2. tool = "running" => tool' # "none"
  BY DEF ToolStep, Reading, ReaderStep, WriteLine, ExitTool, ReadLine, AppendLine, AppendFails,
         ReadFinished, ReadFailed
<1>3. ASSUME NEW st \in Streams, Closed(st) PROVE Closed(st)'
  <2>1. CASE ToolStep
    BY <1>3, <2>1 DEF ToolStep, WriteLine, ExitTool, Closed
  <2>2. ASSUME NEW s \in Streams, ReaderStep(s) PROVE Closed(st)'
    <3>1. reader \in [Streams -> {"reading", "appending", "ended", "failed", "died"}]
      BY DEF CommandInv, CommandTypeOK
    <3>2. reader[st] \in {"ended", "failed"}
      BY <1>3 DEF Closed
    <3>3. reader[s] \in {"reading", "appending"} /\ \E r : reader' = [reader EXCEPT ![s] = r]
      BY <2>2 DEF ReaderStep, ReadLine, AppendLine, AppendFails, ReadFinished, ReadFailed
    <3> QED
      BY <3>1, <3>2, <3>3 DEF Closed
  <2> QED
    BY <2>1, <2>2 DEF Reading
<1>4. awaited' = awaited
  BY DEF ToolStep, Reading, ReaderStep, WriteLine, ExitTool, ReadLine, AppendLine, AppendFails,
         ReadFinished, ReadFailed
<1> QED
  BY <1>1, <1>2, <1>3, <1>4 DEF Waited, Commands

LEMMA SetupKeepsWaited ==
  ASSUME Waited, UNCHANGED command,
         pc' = pc \/ tool = "none" \/ pc' \notin {"idle", "port"} \cup Commands
  PROVE  Waited'
  BY DEF Waited, Closed, Commands

LEMMA AwaitKeepsWaited ==
  ASSUME Waited, pc \in Commands, UNCHANGED pc, WaitUntilTerminated \/ WaitUntilStreamClosed
  PROVE  Waited'
  BY DEF Waited, Closed, Commands, WaitUntilTerminated, WaitUntilStreamClosed

----------------------------------------------------------------------------
(* Steps that leave the tests alone.                                        *)
LEMMA TestsAreKept ==
  ASSUME TestsInv, UNCHANGED tests, pc # "cleanup", pc' \notin {"cleanup", "dropSchema"}
  PROVE  TestsInv'
<1>1. TestsTypeOK'
  BY DEF TestsInv, TestsTypeOK
<1>2. Covered'
  BY DEF TestsInv, Covered
<1>3. Registering'
  BY DEF TestsInv, Registering
<1> QED
  BY <1>1, <1>2, <1>3 DEF TestsInv

LEMMA TestsAreSame ==
  ASSUME TestsInv, UNCHANGED <<tests, pc, thrown>>
  PROVE  TestsInv'
  BY DEF TestsInv, TestsTypeOK, Covered, Registering

LEMMA StateIsSame ==
  ASSUME StateInv, UNCHANGED <<pc, tempDir, port, manager, startupLine, thrown>>
  PROVE  StateInv'
  BY DEF StateInv, StateTypeOK, Managed, NothingRunsOn

LEMMA CreateIsGood ==
  ASSUME SetupInv, CreateStep \/ AwaitInterrupted
  PROVE  StateInv' /\ TestsInv'
<1> USE DEF Go, Throw, Commands, Creating, Ended, Running
<1>1. /\ UNCHANGED tests /\ pc # "cleanup" /\ pc' \notin {"cleanup", "dropSchema"}
  BY DEF CreateStep, Create, SkipCommand, RunCommand, AwaitCommand, CommandReturns, FindOpenPort,
         SpawnManager, AwaitStartup, AwaitTimesOut, Connect, AwaitInterrupted, AfterCommand
<1>2. TestsInv'
  BY <1>1, TestsAreKept DEF SetupInv
<1> SUFFICES StateInv'
  BY <1>2
<1> USE DEF SetupInv, StateInv, StateTypeOK, Managed, NothingRunsOn
<1>3. CASE Create
  BY <1>3 DEF Create
<1>4. CASE SkipCommand
  BY <1>4 DEF SkipCommand, AfterCommand
<1>5. CASE RunCommand
  BY <1>5 DEF RunCommand
<1>6. CASE AwaitCommand
  BY <1>6 DEF AwaitCommand
<1>7. CASE CommandReturns
  BY <1>7 DEF CommandReturns, AfterCommand
<1>8. CASE FindOpenPort
  BY <1>8 DEF FindOpenPort
<1>9. CASE SpawnManager
  BY <1>9 DEF SpawnManager
<1>10. CASE AwaitStartup
  BY <1>10 DEF AwaitStartup
<1>11. CASE AwaitTimesOut
  BY <1>11 DEF AwaitTimesOut, StopManager
<1>12. CASE AwaitInterrupted
  BY <1>12 DEF AwaitInterrupted
<1>13. CASE Connect
  BY <1>13 DEF Connect
<1> QED
  BY <1>3, <1>4, <1>5, <1>6, <1>7, <1>8, <1>9, <1>10, <1>11, <1>12, <1>13 DEF CreateStep

(* The manager and the other processes touch neither the calls nor the       *)
(* tests.                                                                   *)
LEMMA OutsideIsGood ==
  ASSUME SetupInv, ManagerStep \/ OtherProcess
  PROVE  SetupInv'
<1>1. UNCHANGED <<tests, pc, thrown>>
  BY DEF ManagerStep, ManagerLogs, ReadStartupLine, ManagerListens, ManagerExits, OtherProcess
<1>2. TestsInv'
  BY <1>1, TestsAreSame DEF SetupInv
<1> SUFFICES StateInv'
  BY <1>2 DEF SetupInv
<1> USE DEF SetupInv, StateInv, StateTypeOK, Managed, NothingRunsOn, Commands, Running
<1>3. CASE ManagerLogs
  BY <1>3 DEF ManagerLogs
<1>4. CASE ReadStartupLine
  BY <1>4 DEF ReadStartupLine
<1>5. CASE ManagerListens
  BY <1>5 DEF ManagerListens
<1>6. CASE ManagerExits
  BY <1>6 DEF ManagerExits
<1>7. CASE OtherProcess
  BY <1>7 DEF OtherProcess
<1> QED
  BY <1>3, <1>4, <1>5, <1>6, <1>7 DEF ManagerStep

----------------------------------------------------------------------------
(* A test adds to what exists only what is registered.                      *)
LEMMA RegisteringIsGood ==
  ASSUME TestsInv, pc = "ready", pc' = "ready", UNCHANGED <<next, closing, aborted>>,
         NEW callback \in [statement : BOOLEAN, of : Objects \cup Files],
         queue' = Append(queue, callback),
         callback.of \in IF callback.statement THEN Objects ELSE Files,
         IF callback.statement THEN present' = present
         ELSE callback.of \notin Registered /\ present' = present \cup {callback.of}
  PROVE  TestsInv'
<1> DEFINE n == Len(queue)
<1>1. /\ queue \in Seq([statement : BOOLEAN, of : Objects \cup Files])
      /\ n \in Nat /\ DOMAIN queue = 1..n
      /\ next \in 1..n + 1
  BY DEF TestsInv, TestsTypeOK
<1>2. /\ queue' \in Seq([statement : BOOLEAN, of : Objects \cup Files])
      /\ Len(queue') = n + 1 /\ DOMAIN queue' = 1..n + 1
      /\ queue'[n + 1] = callback
      /\ \A i \in 1..n : queue'[i] = queue[i]
  BY <1>1
<1> HIDE DEF n
<1>3. TestsTypeOK'
  BY <1>1, <1>2 DEF TestsInv, TestsTypeOK
<1>4. Covered'
  <2>1. ASSUME NEW o \in present' \ {ExtensionSchema} PROVE \E i \in 1..n + 1 : queue'[i].of = o
    <3>1. CASE o \in present
      <4>1. PICK i \in 1..n : queue[i].of = o
        BY <1>1, <2>1, <3>1 DEF TestsInv, Covered
      <4> QED
        BY <1>1, <1>2, <4>1
    <3>2. CASE o = callback.of
      BY <1>1, <1>2, <3>2
    <3> QED
      BY <2>1, <3>1, <3>2
  <2> QED
    BY <1>2, <2>1 DEF Covered
<1>5. \A i \in 1..n : queue[i].of \in Registered
  BY <1>1 DEF Registered
<1>6. Registering'
  <2>1. \A i \in 1..n + 1 : queue'[i].of \in IF queue'[i].statement THEN Objects ELSE Files
    <3>1. \A i \in 1..n : queue[i].of \in IF queue[i].statement THEN Objects ELSE Files
      BY <1>1 DEF TestsInv, Registering
    <3> QED
      BY <1>1, <1>2, <3>1
  <2>2. ASSUME NEW i \in 1..n + 1, NEW j \in 1..n + 1,
               ~queue'[i].statement, ~queue'[j].statement, queue'[i].of = queue'[j].of
        PROVE  i = j
    <3>1. CASE i \in 1..n /\ j \in 1..n
      BY <1>1, <1>2, <2>2, <3>1 DEF TestsInv, Registering
    <3>2. CASE i = n + 1 /\ j \in 1..n
      BY <1>2, <1>5, <2>2, <3>2
    <3>3. CASE i \in 1..n /\ j = n + 1
      BY <1>2, <1>5, <2>2, <3>3
    <3> QED
      BY <1>1, <3>1, <3>2, <3>3
  <2>3. ASSUME NEW i \in 1..n + 1, ~aborted, ~queue'[i].statement
        PROVE  queue'[i].of \in present'
    <3>1. CASE i \in 1..n
      BY <1>1, <1>2, <2>3, <3>1 DEF TestsInv, Registering
    <3>2. CASE i = n + 1
      BY <1>2, <2>3, <3>2
    <3> QED
      BY <1>1, <3>1, <3>2
  <2> QED
    BY <1>2, <2>1, <2>2, <2>3 DEF Registering
<1> QED
  BY <1>3, <1>4, <1>6 DEF TestsInv

LEMMA TestIsGood ==
  ASSUME SetupInv, Test
  PROVE  SetupInv'
<1> USE TestSetupAssumption
<1>1. UNCHANGED <<pc, tempDir, port, manager, startupLine, thrown>> /\ pc = "ready"
  BY DEF Test, AddToCleanupQueue, CreateObject, FetchExtension
<1>2. StateInv'
  BY <1>1, StateIsSame DEF SetupInv
<1>3. ASSUME NEW o \in Objects, AddToCleanupQueue(o) PROVE TestsInv'
  BY <1>1, <1>3, RegisteringIsGood DEF SetupInv, AddToCleanupQueue, Register
<1>4. ASSUME NEW f \in Files, FetchExtension(f) PROVE TestsInv'
  BY <1>1, <1>4, RegisteringIsGood DEF SetupInv, FetchExtension, Register
<1>5. ASSUME NEW o \in Objects \cup {ExtensionSchema}, CreateObject(o) PROVE TestsInv'
  <2>1. /\ UNCHANGED <<queue, next, closing, aborted>> /\ present' = present \cup {o}
        /\ o \in Registered \cup {ExtensionSchema}
    BY <1>5 DEF CreateObject
  <2>2. TestsTypeOK'
    BY <2>1 DEF SetupInv, TestsInv, TestsTypeOK
  <2>3. Covered'
    BY <1>1, <2>1 DEF SetupInv, TestsInv, Covered, Registered
  <2>4. Registering'
    BY <1>1, <2>1 DEF SetupInv, TestsInv, Registering
  <2> QED
    BY <2>2, <2>3, <2>4 DEF TestsInv
<1> QED
  BY <1>2, <1>3, <1>4, <1>5 DEF Test, SetupInv

----------------------------------------------------------------------------
(* The cleanup.                                                             *)
LEMMA QueueTypes ==
  ASSUME TestsInv
  PROVE  /\ queue \in Seq([statement : BOOLEAN, of : Objects \cup Files])
         /\ Len(queue) \in Nat /\ DOMAIN queue = 1..Len(queue)
         /\ next \in 1..Len(queue) + 1 /\ next \in Nat
  BY DEF TestsInv, TestsTypeOK

LEMMA EmptyQueue ==
  /\ <<>> \in Seq([statement : BOOLEAN, of : Objects \cup Files])
  /\ 1 \in 1..Len(<<>>) + 1 /\ DOMAIN <<>> = {}
  OBVIOUS

LEMMA CleanupKeepsState ==
  ASSUME SetupInv, BeginCleanup \/ CleanupStep
  PROVE  StateInv'
<1> USE DEF SetupInv, StateInv, StateTypeOK, Managed, NothingRunsOn, Go, Throw, ThrowFromCleanup,
            Commands, Creating, Ended, Running
<1>1. CASE BeginCleanup
  BY <1>1 DEF BeginCleanup
<1>2. CASE RunCallback
  BY <1>2 DEF RunCallback
<1>3. CASE CallbackThrows
  BY <1>3 DEF CallbackThrows
<1>4. CASE ClearCallbacks
  BY <1>4 DEF ClearCallbacks
<1>5. CASE DropExtensionSchema
  BY <1>5 DEF DropExtensionSchema, TestsInv, Covered
<1>6. CASE StopProcess
  BY <1>6 DEF StopProcess, StopManager
<1>7. CASE DeleteTempDir
  BY <1>7 DEF DeleteTempDir
<1> QED
  BY <1>1, <1>2, <1>3, <1>4, <1>5, <1>6, <1>7 DEF CleanupStep

LEMMA RunCallbackKeepsTests ==
  ASSUME TestsInv, RunCallback
  PROVE  TestsInv'
<1> USE TestSetupAssumption
<1>1. /\ pc = "cleanup" /\ next \in 1..Len(queue) /\ next' = next + 1
      /\ present' = present \ {queue[next].of}
      /\ UNCHANGED <<pc, queue, closing, thrown, aborted>>
  BY QueueTypes DEF RunCallback, Callback
<1>2. TestsTypeOK'
  BY <1>1, QueueTypes DEF TestsInv, TestsTypeOK
<1>3. Covered'
  <2>1. ASSUME NEW o \in present' \ {ExtensionSchema}
        PROVE  \E i \in DOMAIN queue : queue[i].of = o /\ i >= next + 1
    <3>1. PICK i \in DOMAIN queue : queue[i].of = o /\ i >= next
      BY <1>1, <2>1 DEF TestsInv, Covered
    <3>2. i # next
      BY <1>1, <2>1, <3>1
    <3> QED
      BY <1>1, <3>1, <3>2, QueueTypes
  <2> QED
    BY <1>1, <2>1 DEF TestsInv, Covered
<1>4. ASSUME NEW i \in DOMAIN queue, ~aborted, ~queue[i].statement, i >= next + 1
      PROVE  queue[i].of \in present'
  <2>1. i >= next /\ i # next /\ next \in DOMAIN queue
    BY <1>1, <1>4, QueueTypes
  <2>2. queue[i].of \in present /\ queue[i].of \in Files
    BY <1>1, <1>4, <2>1 DEF TestsInv, Registering
  <2>3. queue[next].statement => queue[next].of \in Objects
    BY <2>1 DEF TestsInv, Registering
  <2>4. ~queue[next].statement => queue[next].of # queue[i].of
    BY <1>4, <2>1 DEF TestsInv, Registering
  <2> QED
    BY <1>1, <2>2, <2>3, <2>4
<1>5. Registering'
  BY <1>1, <1>4 DEF TestsInv, Registering
<1> QED
  BY <1>2, <1>3, <1>5 DEF TestsInv

LEMMA NothingLeft ==
  ASSUME TestsInv, pc = "cleanup", next > Len(queue)
  PROVE  present \subseteq {ExtensionSchema}
<1>1. \A i \in DOMAIN queue : ~(i >= next)
  BY QueueTypes
<1> QED
  BY <1>1 DEF TestsInv, Covered

LEMMA CleanupIsGood ==
  ASSUME SetupInv, BeginCleanup \/ CleanupStep
  PROVE  SetupInv'
<1>1. StateInv'
  BY CleanupKeepsState
<1> SUFFICES TestsInv'
  BY <1>1 DEF SetupInv
<1> USE DEF SetupInv, Go, Throw, ThrowFromCleanup
<1>2. CASE BeginCleanup
  <2>1. /\ pc = "ready" /\ pc' = "cleanup" /\ closing' \in BOOLEAN /\ next' = 1
        /\ thrown' = "nothing" /\ UNCHANGED <<queue, present, aborted>>
    BY <1>2 DEF BeginCleanup
  <2>2. \A i \in DOMAIN queue : i >= 1
    BY QueueTypes
  <2>3. TestsTypeOK'
    BY <2>1, QueueTypes DEF TestsInv, TestsTypeOK
  <2>4. Covered' /\ Registering'
    BY <2>1, <2>2 DEF TestsInv, Covered, Registering
  <2> QED
    BY <2>3, <2>4 DEF TestsInv
<1>3. CASE RunCallback
  BY <1>3, RunCallbackKeepsTests
<1>4. CASE CallbackThrows
  <2>1. /\ pc' \in {"leaked", "ready"} /\ aborted' = TRUE
        /\ UNCHANGED <<queue, next, closing, present>>
    BY <1>4 DEF CallbackThrows
  <2> QED
    BY <2>1 DEF TestsInv, TestsTypeOK, Covered, Registering
<1>5. CASE ClearCallbacks
  <2>1. /\ pc' = "dropSchema" /\ queue' = <<>> /\ next' = 1 /\ aborted' = FALSE
        /\ UNCHANGED <<closing, present, thrown>> /\ thrown = "nothing"
    BY <1>5 DEF ClearCallbacks, TestsInv, Covered
  <2>2. present \subseteq {ExtensionSchema}
    BY <1>5, NothingLeft DEF ClearCallbacks
  <2>3. TestsTypeOK'
    BY <2>1, EmptyQueue, Zenon DEF TestsInv, TestsTypeOK
  <2>4. Covered' /\ Registering'
    BY <2>1, <2>2, EmptyQueue DEF Covered, Registering
  <2> QED
    BY <2>3, <2>4 DEF TestsInv
<1>6. CASE DropExtensionSchema
  <2>1. /\ pc = "dropSchema" /\ pc' \in {"stop", "ready", "leaked"} /\ present' \subseteq present
        /\ UNCHANGED <<queue, next, closing, aborted>>
    BY <1>6 DEF DropExtensionSchema
  <2>2. queue = <<>>
    BY <2>1 DEF TestsInv, Covered
  <2>3. DOMAIN queue = {} /\ present \subseteq {ExtensionSchema}
    BY <2>2 DEF TestsInv, Covered
  <2>4. TestsTypeOK'
    BY <2>1 DEF TestsInv, TestsTypeOK
  <2>5. Covered' /\ Registering'
    BY <2>1, <2>3 DEF Covered, Registering
  <2> QED
    BY <2>4, <2>5 DEF TestsInv
<1>7. CASE StopProcess \/ DeleteTempDir
  BY <1>7, TestsAreKept DEF StopProcess, DeleteTempDir
<1> QED
  BY <1>2, <1>3, <1>4, <1>5, <1>6, <1>7 DEF CleanupStep

----------------------------------------------------------------------------
(* The whole setup.                                                         *)
LEMMA InitIsGood == Init => IInv
<1> SUFFICES ASSUME Init PROVE IInv
  OBVIOUS
<1>1. CommandInv /\ Waited
  BY NoCommandIsGood DEF Init, Waited, NoCommand, Commands
<1>2. StateInv
  BY DEF Init, StateInv, StateTypeOK, Managed, NothingRunsOn, Running
<1>3. TestsTypeOK /\ DOMAIN queue = {} /\ present = {} /\ pc = "idle"
  BY EmptyQueue, Zenon DEF Init, TestsTypeOK
<1>4. Covered /\ Registering
  BY <1>3 DEF Covered, Registering
<1> QED
  BY <1>1, <1>2, <1>3, <1>4 DEF IInv, SetupInv, TestsInv

LEMMA CreateKeepsCommand ==
  ASSUME IInv, CreateStep \/ AwaitInterrupted
  PROVE  CommandInv' /\ Waited'
<1> USE DEF Go, Throw, Commands
<1>1. CASE RunCommand \/ CommandReturns
  <2>1. CASE StartCommand /\ pc' \in Commands
    BY <2>1, StartIsGood DEF StartCommand, Waited
  <2>2. CASE DropCommand
    BY <2>2, DropIsGood DEF DropCommand, Waited
  <2>3. CASE UNCHANGED command /\ tool = "none"
    BY <2>3, SameIsGood, SetupKeepsWaited DEF IInv
  <2> QED
    BY <1>1, <2>1, <2>2, <2>3 DEF RunCommand, CommandReturns
<1>2. CASE AwaitCommand
  <2>1. /\ UNCHANGED <<tool, written, taken, reader, place, buffer, length>>
        /\ awaited' \in {"exit", "nothing"} \cup Streams
    BY <1>2 DEF AwaitCommand, WaitUntilTerminated, WaitUntilStreamClosed, CommandThrows
  <2>2. CommandInv'
    BY <2>1, WaitingIsGood DEF IInv
  <2>3. Waited'
    <3>1. CASE pc' = "failed"
      BY <1>2, <2>1, <3>1 DEF AwaitCommand, WaitUntilTerminated, WaitUntilStreamClosed, CommandThrows,
         IInv, Waited
    <3>2. CASE pc' # "failed"
      BY <1>2, <3>2, AwaitKeepsWaited DEF AwaitCommand, IInv
    <3> QED BY <3>1, <3>2
  <2> QED
    BY <2>2, <2>3
<1>3. CASE \/ Create \/ SkipCommand \/ FindOpenPort \/ SpawnManager \/ AwaitStartup
           \/ AwaitTimesOut \/ Connect \/ AwaitInterrupted
  <2>1. UNCHANGED command
    BY <1>3 DEF Create, SkipCommand, FindOpenPort, SpawnManager, AwaitStartup, AwaitTimesOut,
                Connect, AwaitInterrupted
  <2>2. tool = "none" \/ pc' \notin {"idle", "port"} \cup Commands
    BY <1>3 DEF Create, SkipCommand, FindOpenPort, SpawnManager, AwaitStartup, AwaitTimesOut,
                Connect, AwaitInterrupted, IInv, Waited
  <2> QED
    BY <2>1, <2>2, SameIsGood, SetupKeepsWaited DEF IInv
<1> QED
  BY <1>1, <1>2, <1>3 DEF CreateStep

LEMMA StepIsGood == IInv /\ [Next]_vars => IInv'
<1> SUFFICES ASSUME IInv, [Next]_vars PROVE IInv'
  OBVIOUS
<1>1. CASE CreateStep \/ AwaitInterrupted
  BY <1>1, CreateKeepsCommand, CreateIsGood DEF IInv, SetupInv
<1>2. CASE ManagerStep \/ OtherProcess
  <2>1. UNCHANGED command /\ UNCHANGED pc
    BY <1>2 DEF ManagerStep, ManagerLogs, ReadStartupLine, ManagerListens, ManagerExits,
                OtherProcess
  <2> QED
    BY <1>2, <2>1, OutsideIsGood, SameIsGood, SetupKeepsWaited DEF IInv
<1>3. CASE Test \/ BeginCleanup \/ CleanupStep
  <2>1. UNCHANGED command /\ pc' \notin {"idle", "port"} \cup Commands
    BY <1>3 DEF Test, AddToCleanupQueue, CreateObject, FetchExtension, BeginCleanup, CleanupStep,
                RunCallback, CallbackThrows, ClearCallbacks, DropExtensionSchema, StopProcess,
                DeleteTempDir, Go, Throw, ThrowFromCleanup, Commands
  <2> QED
    BY <1>3, <2>1, TestIsGood, CleanupIsGood, SameIsGood, SetupKeepsWaited DEF IInv
<1>4. CASE OfCommand(ToolStep) \/ OfCommand(Reading)
  <2>1. /\ ToolStep \/ Reading
        /\ UNCHANGED <<pc, tempDir, port, manager, startupLine, tests, thrown>>
    BY <1>4 DEF OfCommand
  <2> QED
    BY <2>1, ToolIsGood, ReadingIsGood, ToolKeepsWaited, StateIsSame, TestsAreSame
    DEF IInv, SetupInv
<1>5. CASE UNCHANGED vars
  BY <1>5, SameIsGood, SetupKeepsWaited, StateIsSame, TestsAreSame DEF IInv, SetupInv
<1> QED
  BY <1>1, <1>2, <1>3, <1>4, <1>5 DEF Next

LEMMA InvHolds == Spec => []IInv
  BY InitIsGood, StepIsGood, PTL DEF Spec

----------------------------------------------------------------------------
(* Every variable keeps its type: a thread of AsyncStreamReader takes no    *)
(* line that was not written, and cleanup stays within its queue.           *)
THEOREM SetupTypes == Spec => []TypeOK
<1>1. IInv => TypeOK
  BY DEF IInv, CommandInv, SetupInv, StateInv, TestsInv, StateTypeOK, TestsTypeOK, TypeOK
<1> QED
  BY <1>1, InvHolds, PTL

(* When a class is through with its setup, the manager's process has been   *)
(* stopped, except where create was interrupted or found no connection, and *)
(* where the cleanup of close threw (ExtensionManagerSetup.close).          *)
THEOREM NothingIsLeftRunning == Spec => []NothingRunsOn
<1>1. IInv => NothingRunsOn
  BY DEF IInv, SetupInv, StateInv
<1> QED
  BY <1>1, InvHolds, PTL

(* SimpleProcess.start returns all lines of a command that wrote to one     *)
(* stream, however many they are and however the threads interleave.        *)
THEOREM OutputsAreWhole == Spec => []OutputIsWhole
<1>1. IInv => OutputIsWhole
  <2> SUFFICES ASSUME IInv, NEW st \in Streams, tool = "succeeded", CommandEnded, pc \in Commands,
                      reader[st] # "failed", \A other \in Streams \ {st} : written[other] = 0
               PROVE  Output = Whole(st)
    BY DEF OutputIsWhole
  <2>1. Closed(st)
    BY DEF IInv, Waited, CommandEnded
  <2>2. taken[st] = written[st] /\ reader[st] = "ended"
    BY <2>1 DEF IInv, CommandInv, AllRead, Closed
  <2>3. buffer = [n \in 1..written[st] |-> <<st, n>>] /\ length = written[st]
    BY <2>2 DEF IInv, CommandInv, Alone, Done
  <2>4. written[st] \in Nat
    BY Numbers DEF IInv
  <2>5. SubSeq(buffer, 1, length) = [n \in 1..written[st] |-> <<st, n>>]
    BY <2>3, <2>4
  <2> QED
    BY <2>5 DEF Output, Whole
<1> QED
  BY <1>1, InvHolds, PTL

(* A cleanup that returns has removed all that the tests have left, and     *)
(* begins anew (ExtensionManagerSetup.cleanup).                             *)
THEOREM CleanupsClean == Spec => CleanupCleans
<1>1. ASSUME IInv, [Next]_vars, pc = "dropSchema", pc' # pc, thrown' = "nothing"
      PROVE  present' = {} /\ queue' = <<>>
  <2>1. DropExtensionSchema
    BY <1>1 DEF Next, CreateStep, Create, SkipCommand, RunCommand, AwaitCommand, CommandReturns,
                FindOpenPort, SpawnManager, AwaitStartup, AwaitTimesOut, Connect, AwaitInterrupted,
                ManagerStep, ManagerLogs, ReadStartupLine, ManagerListens, ManagerExits,
                OtherProcess, Test, AddToCleanupQueue, CreateObject, FetchExtension, BeginCleanup,
                CleanupStep, RunCallback, CallbackThrows, ClearCallbacks, StopProcess,
                DeleteTempDir, OfCommand, Commands
  <2>2. queue = <<>> /\ present \subseteq {ExtensionSchema}
    <3>1. queue = <<>>
      BY <1>1 DEF IInv, SetupInv, TestsInv, Covered
    <3> QED
      BY <1>1, <3>1, EmptyQueue DEF IInv, SetupInv, TestsInv, Covered
  <2> QED
    BY <1>1, <2>1, <2>2 DEF DropExtensionSchema, ThrowFromCleanup, Throw, Go
<1> QED
  BY <1>1, InvHolds, PTL DEF Spec, CleanupCleans

(* A cleanup throws at a file only after one that a statement has aborted:  *)
(* the same file is never registered twice, and no other callback deletes   *)
(* it (PreviousVersionManager.fetchExtension).                              *)
THEOREM FilesMissOnlyAfterAborts == Spec => FileMissesOnlyAfterAbort
<1>1. ASSUME IInv, [Next]_vars, thrown' = "file", thrown # "file"
      PROVE  aborted
  <2>1. CallbackThrows /\ ~Callback.statement
    BY <1>1 DEF Next, CreateStep, Create, SkipCommand, RunCommand, AwaitCommand, CommandReturns,
                FindOpenPort, SpawnManager, AwaitStartup, AwaitTimesOut, Connect, AwaitInterrupted,
                ManagerStep, ManagerLogs, ReadStartupLine, ManagerListens, ManagerExits,
                OtherProcess, Test, AddToCleanupQueue, CreateObject, FetchExtension, BeginCleanup,
                CleanupStep, RunCallback, CallbackThrows, ClearCallbacks, DropExtensionSchema,
                StopProcess, DeleteTempDir, OfCommand, ThrowFromCleanup, Throw, Go
  <2>2. next \in DOMAIN queue /\ next >= next /\ Callback.of \notin present
    BY <1>1, <2>1, QueueTypes DEF CallbackThrows, Callback, IInv, SetupInv
  <2>3. aborted \in BOOLEAN
    BY <1>1 DEF IInv, SetupInv, TestsInv, TestsTypeOK
  <2> QED
    BY <1>1, <2>1, <2>2, <2>3 DEF Callback, IInv, SetupInv, TestsInv, Registering
<1> QED
  BY <1>1, InvHolds, PTL DEF Spec, FileMissesOnlyAfterAbort

----------------------------------------------------------------------------
(* What is left of the command that create runs: to start it, to await its  *)
(* end and those of stdout and stderr, and to return.                       *)
CommandLeft ==
  CASE tool = "none" -> 5
    [] tool # "none" /\ awaited = "exit" -> 4
    [] tool # "none" /\ awaited = "stdout" -> 3
    [] tool # "none" /\ awaited = "stderr" -> 2
    [] OTHER -> 1

(* What is left of create, of a cleanup and of close.                       *)
StepsLeft ==
  CASE pc = "build" -> CommandLeft + 19
    [] pc = "install" -> CommandLeft + 14
    [] pc = "gopath" -> CommandLeft + 9
    [] pc = "port" -> 9
    [] pc = "help" -> CommandLeft + 3
    [] pc = "spawn" -> 3
    [] pc = "await" -> 2
    [] pc = "connect" -> 1
    [] pc = "cleanup" -> Len(queue) + 5 - next
    [] pc = "dropSchema" -> 3
    [] pc = "stop" -> 2
    [] pc = "deleteTempDir" -> 1
    [] OTHER -> 0

InCleanup == pc \in {"cleanup", "dropSchema", "stop", "deleteTempDir"}

(* create needs at most 24 steps of its own, each of which answers, fails   *)
(* or times out, and a cleanup at most one for each callback and four more. *)
(* No process, reader or other setup gives them more to do: in particular   *)
(* nothing is registered while the callbacks are run.                       *)
SetupAdvances ==
  /\ pc \in Creating =>
       /\ StepsLeft \in 1..24
       /\ CreateStep \/ AwaitInterrupted => StepsLeft' < StepsLeft
       /\ ~(CreateStep \/ AwaitInterrupted) => StepsLeft' = StepsLeft
  /\ InCleanup =>
       /\ StepsLeft \in 1..Len(queue) + 4
       /\ CleanupStep => StepsLeft' < StepsLeft
       /\ ~CleanupStep => StepsLeft' = StepsLeft

LEMMA CommandSteps == CommandLeft \in 1..5
BY DEF CommandLeft

LEMMA CreateIsNear == pc \in Creating => StepsLeft \in 1..24
<1> SUFFICES ASSUME pc \in Creating PROVE StepsLeft \in 1..24
  OBVIOUS
<1>1. CASE pc \in Commands
  <2>1. StepsLeft \in {CommandLeft + 19, CommandLeft + 14, CommandLeft + 9, CommandLeft + 3}
    BY <1>1 DEF StepsLeft, Commands
  <2> QED
    BY <2>1, CommandSteps
<1>2. CASE pc \in {"port", "spawn", "await", "connect"}
  <2>1. StepsLeft \in {9, 3, 2, 1}
    BY <1>2 DEF StepsLeft
  <2> QED
    BY <2>1
<1> QED
  BY <1>1, <1>2 DEF Creating

(* The steps of create for a command, which its wait may end with an error. *)
LEMMA CommandsShorten ==
  ASSUME IInv, pc \in Commands, SkipCommand \/ RunCommand \/ AwaitCommand \/ CommandReturns
  PROVE  StepsLeft' < StepsLeft
<1> USE DEF Go, Throw
<1>1. CommandLeft \in 1..5 /\ StepsLeft >= CommandLeft + 3 /\ StepsLeft \in Nat
  BY CommandSteps DEF StepsLeft, Commands
<1>2. CASE pc' = "failed"
  BY <1>1, <1>2 DEF StepsLeft
<1>3. CASE pc' = pc
  <2>1. CommandLeft' < CommandLeft
    <3>1. ~SkipCommand /\ ~CommandReturns
      BY <1>3 DEF SkipCommand, CommandReturns, Commands, AfterCommand
    <3>2. CASE RunCommand
      BY <1>3, <3>2 DEF RunCommand, StartCommand, CommandLeft, Commands
    <3>3. CASE AwaitCommand
      <4>1. tool' = tool /\ (WaitUntilTerminated \/ WaitUntilStreamClosed)
        BY <1>3, <3>3 DEF AwaitCommand, WaitUntilTerminated, WaitUntilStreamClosed, Commands
      <4>2. tool # "none"
        BY <4>1 DEF WaitUntilTerminated, WaitUntilStreamClosed, IInv, Waited
      <4> QED
        BY <4>1, <4>2 DEF WaitUntilTerminated, WaitUntilStreamClosed, CommandLeft
    <3> QED
      BY <3>1, <3>2, <3>3
  <2>2. CommandLeft' \in 1..5
    BY DEF CommandLeft
  <2> QED
    BY <1>1, <1>3, <2>1, <2>2 DEF StepsLeft, Commands
<1>4. CASE pc' # pc /\ pc' # "failed"
  <2>1. pc' = AfterCommand[pc]
    BY <1>4 DEF SkipCommand, RunCommand, AwaitCommand, CommandReturns
  <2>2. CommandLeft' \in 1..5
    BY DEF CommandLeft
  <2>3. pc' = CASE pc = "build" -> "install" [] pc = "install" -> "gopath"
               [] pc = "gopath" -> "port" [] OTHER -> "spawn"
    BY <2>1 DEF Commands, AfterCommand
  <2> QED
    BY <1>1, <2>2, <2>3 DEF StepsLeft, Commands
<1> QED
  BY <1>2, <1>3, <1>4

LEMMA CreatesShorten ==
  ASSUME IInv, pc \in Creating, CreateStep \/ AwaitInterrupted
  PROVE  StepsLeft' < StepsLeft
<1> USE DEF Go, Throw
<1>1. CASE SkipCommand \/ RunCommand \/ AwaitCommand \/ CommandReturns
  <2>1. pc \in Commands
    BY <1>1 DEF SkipCommand, RunCommand, AwaitCommand, CommandReturns, Commands
  <2> QED
    BY <1>1, <2>1, CommandsShorten
<1>2. CASE FindOpenPort
  <2>1. tool' = "none" \/ pc' = "failed"
    BY <1>2 DEF FindOpenPort, IInv, Waited
  <2>2. CommandLeft' \in 1..5
    BY DEF CommandLeft
  <2> QED
    BY <1>2, <2>2 DEF FindOpenPort, StepsLeft
<1>3. CASE SpawnManager \/ AwaitStartup \/ AwaitTimesOut \/ Connect \/ AwaitInterrupted
  BY <1>3 DEF SpawnManager, AwaitStartup, AwaitTimesOut, Connect, AwaitInterrupted, StepsLeft
<1>4. ~Create
  BY DEF Create, Creating, Commands
<1> QED
  BY <1>1, <1>2, <1>3, <1>4 DEF CreateStep

LEMMA QueueLeft ==
  ASSUME IInv
  PROVE  Len(queue) \in Nat /\ next \in 1..Len(queue) + 1 /\ next \in Nat
<1>1. queue \in Seq([statement : BOOLEAN, of : Objects \cup Files]) /\ next \in 1..Len(queue) + 1
  BY DEF IInv, SetupInv, TestsInv, TestsTypeOK
<1> QED
  BY <1>1

LEMMA CleanupIsNear == IInv /\ InCleanup => StepsLeft \in 1..Len(queue) + 4
<1> SUFFICES ASSUME IInv, InCleanup PROVE StepsLeft \in 1..Len(queue) + 4
  OBVIOUS
<1>1. CASE pc = "cleanup"
  <2>1. StepsLeft = Len(queue) + 5 - next
    BY <1>1 DEF StepsLeft
  <2> QED
    BY <2>1, QueueLeft
<1>2. CASE pc # "cleanup"
  <2>1. StepsLeft \in 1..3
    BY <1>2 DEF StepsLeft, InCleanup
  <2> QED
    BY <2>1, QueueLeft
<1> QED
  BY <1>1, <1>2

LEMMA CleanupsShorten ==
  ASSUME IInv, InCleanup, CleanupStep
  PROVE  StepsLeft' < StepsLeft
<1> USE DEF Go, Throw, ThrowFromCleanup
<1>1. CASE RunCallback
  <2>1. /\ pc = "cleanup" /\ pc' = "cleanup" /\ queue' = queue /\ next' = next + 1
    BY <1>1 DEF RunCallback
  <2> QED
    BY <2>1, QueueLeft DEF StepsLeft
<1>2. CASE CallbackThrows
  <2>1. pc = "cleanup" /\ StepsLeft' = 0
    BY <1>2 DEF CallbackThrows, StepsLeft
  <2>2. StepsLeft = Len(queue) + 5 - next
    BY <2>1 DEF StepsLeft
  <2> QED
    BY <2>1, <2>2, QueueLeft
<1>3. CASE ClearCallbacks
  <2>1. pc = "cleanup" /\ StepsLeft' = 3
    BY <1>3 DEF ClearCallbacks, StepsLeft
  <2>2. StepsLeft = Len(queue) + 5 - next
    BY <2>1 DEF StepsLeft
  <2> QED
    BY <2>1, <2>2, QueueLeft
<1>4. CASE DropExtensionSchema \/ StopProcess \/ DeleteTempDir
  BY <1>4 DEF DropExtensionSchema, StopProcess, DeleteTempDir, StepsLeft
<1> QED
  BY <1>1, <1>2, <1>3, <1>4 DEF CleanupStep

(* What other processes and threads do leaves the setup where it is.        *)
LEMMA OthersLeaveSteps ==
  ASSUME Next, pc \in Creating \/ InCleanup,
         pc \in Creating => ~(CreateStep \/ AwaitInterrupted), InCleanup => ~CleanupStep
  PROVE  StepsLeft' = StepsLeft
<1>1. ~Test /\ ~BeginCleanup
  BY DEF Test, AddToCleanupQueue, CreateObject, FetchExtension, BeginCleanup, InCleanup, Creating,
     Commands
<1>2. pc \in Creating => ~CleanupStep
  BY DEF CleanupStep, RunCallback, CallbackThrows, ClearCallbacks, DropExtensionSchema,
     StopProcess, DeleteTempDir, Creating, Commands
<1>3. InCleanup => ~CreateStep /\ ~AwaitInterrupted
  BY DEF CreateStep, Create, SkipCommand, RunCommand, AwaitCommand, CommandReturns, FindOpenPort,
     SpawnManager, AwaitStartup, AwaitTimesOut, Connect, AwaitInterrupted, InCleanup, Commands
<1>4. ManagerStep \/ OtherProcess \/ OfCommand(ToolStep) \/ OfCommand(Reading)
  BY <1>1, <1>2, <1>3 DEF Next
<1>5. UNCHANGED <<pc, queue, next, awaited>> /\ (tool = "none" <=> tool' = "none")
  BY <1>4 DEF ManagerStep, ManagerLogs, ReadStartupLine, ManagerListens, ManagerExits,
     OtherProcess, OfCommand, ToolStep, WriteLine, ExitTool, Reading, ReaderStep, ReadLine,
     AppendLine, AppendFails, ReadFinished, ReadFailed
<1> QED
  BY <1>5 DEF StepsLeft, CommandLeft

(* create and cleanup come to their ends, however the commands, their       *)
(* streams and the manager's process behave, after a number of steps that   *)
(* does not depend on them (SimpleProcess.start, ExtensionManagerProcess,   *)
(* ExtensionManagerSetup.cleanup).                                          *)
THEOREM SetupsComeToAnEnd == Spec => [][SetupAdvances]_vars
<1>1. IInv /\ Next => SetupAdvances
  <2> SUFFICES ASSUME IInv, Next PROVE SetupAdvances
    OBVIOUS
  <2>1. pc \in Creating => ~InCleanup
    BY DEF Creating, Commands, InCleanup
  <2>2. ASSUME pc \in Creating
        PROVE  /\ StepsLeft \in 1..24
               /\ CreateStep \/ AwaitInterrupted => StepsLeft' < StepsLeft
               /\ ~(CreateStep \/ AwaitInterrupted) => StepsLeft' = StepsLeft
    BY <2>1, <2>2, CreateIsNear, CreatesShorten, OthersLeaveSteps
  <2>3. ASSUME InCleanup
        PROVE  /\ StepsLeft \in 1..Len(queue) + 4
               /\ CleanupStep => StepsLeft' < StepsLeft
               /\ ~CleanupStep => StepsLeft' = StepsLeft
    BY <2>1, <2>3, CleanupIsNear, CleanupsShorten, OthersLeaveSteps
  <2> QED
    BY <2>2, <2>3 DEF SetupAdvances
<1> QED
  BY <1>1, InvHolds, PTL DEF Spec
=============================================================================
