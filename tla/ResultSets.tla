----------------------------- MODULE ResultSets -----------------------------
(***************************************************************************)
(* How the manager reads result sets of the database: the five readers     *)
(* built on sql.Rows, while the context can end or the connection can fail *)
(* between two rows.  sql.Rows.Next returns FALSE at the end of the result *)
(* and after a failure alike; only sql.Rows.Err tells them apart.          *)
(***************************************************************************)
EXTENDS Naturals

CONSTANTS
  Readers,   \* the readers that are called
  MaxRows    \* bound: rows of a result

AllReaders ==
  {"query",      \* ExasolSqlClient.Query, the SQL client of extensions
   "path",       \* BucketFsAPI.FindAbsolutePath
   "files",      \* BucketFsAPI.ListFiles
   "metadata",   \* ExaMetadataReader.ReadMetadataTables
   "script"}     \* ExaMetadataReader.GetScriptByName

ASSUME ResultSetsAssumption ==
  /\ Readers \subseteq AllReaders
  /\ MaxRows \in Nat \ {0}

VARIABLES
  pc,         \* where the reader is
  reader,     \* which reader runs
  pending,    \* statements it has still to execute
  size,       \* rows of the current result
  read,       \* rows it has scanned
  cursor,     \* the sql.Rows: open, or failed
  link,       \* the transaction's connection
  outcome,    \* what the reader returned
  dropped     \* history: rows of a result it returned are missing

readerVars == <<pc, reader, pending, size, read, cursor, link, outcome, dropped>>
result == <<size, read, cursor>>

(* The readers that want one row, and the tables ReadMetadataTables reads.  *)
SingleRow == {"path", "script"}
Statements(k) == IF k = "metadata" THEN 2 ELSE 1

ReaderInit ==
  /\ pc = "idle"
  /\ reader \in Readers
  /\ pending = 0
  /\ size = 0
  /\ read = 0
  /\ cursor = "open"
  /\ link = "up"
  /\ outcome = "none"
  /\ dropped = FALSE

----------------------------------------------------------------------------
Finish(o) == pc' = "idle" /\ outcome' = o

Call(k) ==
  /\ pc = "idle"
  /\ pc' = "execute"
  /\ reader' = k
  /\ pending' = Statements(k)
  /\ link' = "up"
  /\ outcome' = "none"
  /\ dropped' = FALSE
  /\ UNCHANGED result

Execute(n) ==
  /\ pc = "execute"
  /\ link = "up"
  /\ reader \in SingleRow => n <= 1
  /\ size' = n
  /\ read' = 0
  /\ cursor' = "open"
  /\ pc' = "next"
  /\ UNCHANGED <<reader, pending, link, outcome, dropped>>

ExecuteFails ==
  /\ pc = "execute"
  /\ Finish("error")
  /\ UNCHANGED <<reader, pending, result, link, dropped>>

(* The context ends, which closes the rows and ends the transaction, or the *)
(* driver fails to fetch the next rows, with or without its connection.     *)
Break ==
  /\ pc \in {"next", "check"}
  /\ cursor = "open"
  /\ cursor' = "failed"
  /\ link' \in {"up", "down"}
  /\ UNCHANGED <<pc, reader, pending, size, read, outcome, dropped>>

----------------------------------------------------------------------------
(* Faulty variant: Scan is called whatever Rows.Next returns.               *)
ScanAnyway ==
  /\ pc = "next"
  /\ cursor = "open"
  /\ read' = read + 1
  /\ IF reader \in SingleRow THEN Finish("ok") ELSE UNCHANGED <<pc, outcome>>
  /\ UNCHANGED <<reader, pending, size, cursor, link, dropped>>

(* Rows.Next returns TRUE and Scan reads the row.                           *)
NextRow ==
  /\ pc = "next"
  /\ cursor = "open"
  /\ read < size
  /\ read' = read + 1
  /\ IF reader \in SingleRow THEN Finish("ok") ELSE UNCHANGED <<pc, outcome>>
  /\ UNCHANGED <<reader, pending, size, cursor, link, dropped>>

ScanFails ==
  /\ pc = "next"
  /\ cursor = "open"
  /\ read < size
  /\ Finish("error")
  /\ UNCHANGED <<reader, pending, result, link, dropped>>

(* Rows.Next returns FALSE.                                                 *)
NextEnds ==
  /\ pc = "next"
  /\ cursor = "failed" \/ read = size
  /\ pc' = "check"
  /\ UNCHANGED <<reader, pending, result, link, outcome, dropped>>

(* Query asks for the error after closing the rows, FindAbsolutePath when   *)
(* there is no row.  The others ask inside the loop, where there is none,   *)
(* or not at all.                                                           *)
AsksForError == {"query", "path"}

ReportError ==
  /\ pc = "check"
  /\ reader \in AsksForError
  /\ cursor = "failed"
  /\ Finish("error")
  /\ UNCHANGED <<reader, pending, result, link, dropped>>

(* Faulty variant: the end of the loop is taken for the end of the result.  *)
AcceptAnyway ==
  /\ pc = "check"
  /\ dropped' = (dropped \/ read < size)
  /\ pending' = pending - 1
  /\ IF pending > 1 THEN pc' = "execute" /\ UNCHANGED outcome
                    ELSE Finish(IF reader \in SingleRow THEN "absent" ELSE "ok")
  /\ UNCHANGED <<reader, result, link>>

(* The result is accepted: the next table is read, or the reader returns.   *)
Accept ==
  /\ pc = "check"
  /\ reader \in AsksForError => cursor = "open"
  /\ dropped' = (dropped \/ read < size)
  /\ pending' = pending - 1
  /\ IF pending > 1 THEN pc' = "execute" /\ UNCHANGED outcome
                    ELSE Finish(IF reader \in SingleRow THEN "absent" ELSE "ok")
  /\ UNCHANGED <<reader, result, link>>

ReaderNext ==
  \/ \E k \in Readers : Call(k)
  \/ \E n \in 0..MaxRows : Execute(n)
  \/ ExecuteFails \/ Break \/ NextRow \/ ScanFails \/ NextEnds
  \/ ReportError \/ Accept

ReaderSpec == ReaderInit /\ [][ReaderNext]_readerVars

----------------------------------------------------------------------------
ReaderTypeOK ==
  /\ pc \in {"idle", "execute", "next", "check"}
  /\ reader \in Readers
  /\ pending \in 0..2
  /\ size \in Nat
  /\ read \in 0..size
  /\ cursor \in {"open", "failed"}
  /\ link \in {"up", "down"}
  /\ outcome \in {"none", "ok", "absent", "error"}
  /\ dropped \in BOOLEAN

(* A reader that asks for the error returns all rows or an error, whenever  *)
(* the context ends or the connection fails: what has been read until then  *)
(* is never taken for the result.                                           *)
ReturnsAllRows == outcome = "ok" /\ reader \in AsksForError => ~dropped

(* A reader says that there is no row only when there is none ("Returns     *)
(* (nil, nil) when no script exists with the given name", ExaMetadata.go).  *)
AbsentMeansAbsent == outcome = "absent" => size = 0
=============================================================================
