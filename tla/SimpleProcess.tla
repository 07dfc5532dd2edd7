---------------------------- MODULE SimpleProcess ----------------------------
(***************************************************************************)
(* A command the Java test framework runs to its end and whose output it    *)
(* collects (SimpleProcess.start with a timeout). The process writes lines  *)
(* to stdout and stderr; a thread per stream (AsyncStreamReader) appends    *)
(* them to one StringBuilder, and the caller waits for the end of the       *)
(* process and of both streams, each with a timeout. The two threads are    *)
(* not synchronised, so an append is two steps: it reads the length of the  *)
(* text, and then writes behind it and sets the length.                     *)
(***************************************************************************)
EXTENDS Naturals, Sequences, FiniteSets

CONSTANT MaxLines   \* bound: lines a command writes to a stream

ASSUME MaxLinesAssumption == MaxLines \in Nat

VARIABLES
  tool,      \* the process: "none", "running", "succeeded" or "failed"
  written,   \* lines written to each stream
  taken,     \* lines each thread has taken from its stream
  reader,    \* what each thread does
  place,     \* where a thread that appends has found the end of the text
  buffer,    \* the array of the StringBuilder: stream and number of each line
  length,    \* the length of its text
  awaited    \* what the caller waits for

command == <<tool, written, taken, reader, place, buffer, length, awaited>>

Streams == {"stdout", "stderr"}
Zero == [st \in Streams |-> 0]

NoCommand ==
  /\ tool = "none"
  /\ written = Zero /\ taken = Zero /\ place = Zero
  /\ reader = [st \in Streams |-> "ended"]
  /\ buffer = <<>> /\ length = 0
  /\ awaited = "nothing"

(* The SimpleProcess object is dropped, with the output.                    *)
DropCommand ==
  /\ tool' = "none"
  /\ written' = Zero /\ taken' = Zero /\ place' = Zero
  /\ reader' = [st \in Streams |-> "ended"]
  /\ buffer' = <<>> /\ length' = 0
  /\ awaited' = "nothing"

StartCommand ==
  /\ tool' = "running"
  /\ written' = Zero /\ taken' = Zero /\ place' = Zero
  /\ reader' = [st \in Streams |-> "reading"]
  /\ buffer' = <<>> /\ length' = 0
  /\ awaited' = "exit"

----------------------------------------------------------------------------
(* The process.                                                             *)
WriteLine(st) ==
  /\ tool = "running"
  /\ written[st] < MaxLines
  /\ written' = [written EXCEPT ![st] = @ + 1]
  /\ UNCHANGED <<tool, taken, reader, place, buffer, length, awaited>>

ExitTool ==
  /\ tool = "running"
  /\ tool' \in {"succeeded", "failed"}
  /\ UNCHANGED <<written, taken, reader, place, buffer, length, awaited>>

----------------------------------------------------------------------------
(* A reader thread. "ended" and "failed": the consumer that counts the end  *)
(* of the stream has been told, in either case. "died": an exception of a   *)
(* consumer ended the thread, and it has not been told.                     *)

(* Faulty variant: readLine is not compared with null.                      *)
ReadPastEnd(st) ==
  /\ reader[st] = "reading"
  /\ taken' = [taken EXCEPT ![st] = @ + 1]
  /\ taken[st] <= MaxLines
  /\ reader' = [reader EXCEPT ![st] = "appending"]
  /\ place' = [place EXCEPT ![st] = length]
  /\ UNCHANGED <<tool, written, buffer, length, awaited>>

ReadLine(st) ==
  /\ reader[st] = "reading"
  /\ taken[st] < written[st]
  /\ taken' = [taken EXCEPT ![st] = @ + 1]
  /\ reader' = [reader EXCEPT ![st] = "appending"]
  /\ place' = [place EXCEPT ![st] = length]
  /\ UNCHANGED <<tool, written, buffer, length, awaited>>

(* What the other thread has appended in between is overwritten or cut off; *)
(* what was cut off stays in the array, and can come back.                  *)
AppendLine(st) ==
  /\ reader[st] = "appending"
  /\ buffer' = IF place[st] < Len(buffer)
                 THEN [buffer EXCEPT ![place[st] + 1] = <<st, taken[st]>>]
                 ELSE Append(buffer, <<st, taken[st]>>)
  /\ length' = place[st] + 1
  /\ reader' = [reader EXCEPT ![st] = "reading"]
  /\ UNCHANGED <<tool, written, taken, place, awaited>>

(* The text moves under a thread that appends.                              *)
AppendFails(st) ==
  /\ \A other \in Streams : reader[other] = "appending"
  /\ reader' = [reader EXCEPT ![st] = "died"]
  /\ UNCHANGED <<tool, written, taken, place, buffer, length, awaited>>

ReadFinished(st) ==
  /\ reader[st] = "reading"
  /\ tool # "running"
  /\ taken[st] = written[st]
  /\ reader' = [reader EXCEPT ![st] = "ended"]
  /\ UNCHANGED <<tool, written, taken, place, buffer, length, awaited>>

ReadFailed(st) ==
  /\ reader[st] = "reading"
  /\ reader' = [reader EXCEPT ![st] = "failed"]
  /\ UNCHANGED <<tool, written, taken, place, buffer, length, awaited>>

ReaderStep(st) ==
  ReadLine(st) \/ AppendLine(st) \/ AppendFails(st) \/ ReadFinished(st) \/ ReadFailed(st)

Closed(st) == reader[st] \in {"ended", "failed"}

----------------------------------------------------------------------------
(* The caller. stdout is awaited before stderr.                             *)
WaitUntilTerminated ==
  /\ awaited = "exit"
  /\ tool = "succeeded"
  /\ awaited' = "stdout"
  /\ UNCHANGED <<tool, written, taken, reader, place, buffer, length>>

(* Faulty variant: the end of the process is taken for the end of its       *)
(* output.                                                                  *)
StreamNotAwaited ==
  /\ awaited \in Streams
  /\ awaited' = IF awaited = "stdout" THEN "stderr" ELSE "nothing"
  /\ UNCHANGED <<tool, written, taken, reader, place, buffer, length>>

WaitUntilStreamClosed ==
  /\ awaited \in Streams
  /\ Closed(awaited)
  /\ awaited' = IF awaited = "stdout" THEN "stderr" ELSE "nothing"
  /\ UNCHANGED <<tool, written, taken, reader, place, buffer, length>>

(* The process did not end in time, or ended with another exit code than    *)
(* 0, or a stream did not end in time. A process that runs is left alone.   *)
CommandThrows ==
  /\ \/ awaited = "exit" /\ tool # "succeeded"
     \/ awaited \in Streams /\ ~Closed(awaited)
  /\ awaited' = "nothing"
  /\ UNCHANGED <<tool, written, taken, reader, place, buffer, length>>

CommandEnded == awaited = "nothing" /\ tool # "none"

Output == SubSeq(buffer, 1, length)
Whole(st) == [n \in 1..written[st] |-> <<st, n>>]

CommandTypeOK ==
  /\ tool \in {"none", "running", "succeeded", "failed"}
  /\ written \in [Streams -> 0..MaxLines]
  /\ taken \in [Streams -> 0..MaxLines] /\ \A st \in Streams : taken[st] <= written[st]
  /\ reader \in [Streams -> {"reading", "appending", "ended", "failed", "died"}]
  /\ place \in [Streams -> 0..Len(buffer)]
  /\ buffer \in Seq(Streams \X (1..MaxLines))
  /\ length \in 0..Len(buffer) /\ Len(buffer) <= 2 * MaxLines
  /\ awaited \in {"exit", "nothing"} \cup Streams
=============================================================================
