---------------------------- MODULE BucketFsFiles ----------------------------
(***************************************************************************)
(* The files in BucketFS as the manager sees them: the UDF that walks over *)
(* the directory tree (list_files_udf.py) inside the statement of          *)
(* BucketFSAPI.ListFiles or FindAbsolutePath, whose rows are then read as  *)
(* ResultSets describes.  Files and directories come and go during the     *)
(* walk; nothing locks them.                                               *)
(***************************************************************************)
EXTENDS ResultSets, Sequences, FiniteSets

CONSTANTS
  Directories,  \* directories of the tree, with Root, the base path
  Files,        \* files of the tree
  Root,
  Parent,       \* the directory a file or a directory is in
  Name,         \* the name of a file, which other directories can have too
  Kind,         \* "plain"; "container": with a subdirectory exaudf; "locked"
  Sizes,        \* sizes of files
  Gone,
  Trees,        \* the sizes files can have when the walk begins
  Wanted,       \* the name FindAbsolutePath looks for
  MaxChanges    \* bound: changes of the environment during a request

ASSUME BucketFsAssumption ==
  /\ Root \in Directories
  /\ Directories \cap Files = {}
  /\ Parent \in [(Directories \ {Root}) \cup Files -> Directories]
  /\ Kind \in [Directories -> {"plain", "container", "locked"}]
  /\ DOMAIN Name = Files
  /\ Sizes \subseteq Nat /\ Gone \notin Sizes
  /\ Trees \subseteq [Files -> Sizes \cup {Gone}]
  /\ MaxChanges \in Nat

(* From everywhere the parents lead to the root.                            *)
ASSUME RootedAssumption ==
  \A S \in SUBSET (Directories \cup Files) :
    S # {} /\ (\A p \in S \ {Root} : Parent[p] \in S) => Root \in S

VARIABLES
  tree,     \* the size of a file, or Gone
  dirs,     \* the directories that exist
  stack,    \* the generators of the walk, the innermost first
  rows,     \* what the UDF has emitted
  stable,   \* history: the files that have not changed since the walk began
  seen,     \* history: the files there have been since then
  removed,  \* history: a directory has been removed since then
  fault,    \* history: the database, the connection or the registry failed
  changes   \* bound: how often the environment has still to act

treeVars == <<tree, dirs, stable, seen, removed>>
walkVars == <<stack, rows>>

WalksTree == {"files", "path"}
Entry == [path : Files, size : Sizes]
Entries == {e \in Entry : tree[e.path] = e.size}
Frame == [dir : Directories, open : BOOLEAN, todo : SUBSET (Directories \cup Files)]
NewFrame(d) == [dir |-> d, open |-> FALSE, todo |-> {}]
Present(p) == IF p \in Files THEN tree[p] # Gone ELSE p \in dirs
Children(d) ==
  {p \in DOMAIN Parent : Parent[p] = d /\ Present(p)}

(* The directories the walk is meant to enter.                              *)
Visible[d \in Directories] ==
  \/ d = Root /\ Kind[d] # "locked"
  \/ d # Root /\ Kind[d] = "plain" /\ Visible[Parent[d]]

(* Since the parents lead to the root, this equation defines it.            *)
ASSUME VisibleAssumption ==
  \A d \in Directories :
    Visible[d] <=> \/ d = Root /\ Kind[d] # "locked"
                   \/ d # Root /\ Kind[d] = "plain" /\ Visible[Parent[d]]

TreeInit ==
  /\ tree \in Trees
  /\ dirs = Directories
  /\ stack = <<>>
  /\ rows = {}
  /\ stable = Entries
  /\ seen = Entries
  /\ removed = FALSE
  /\ fault = FALSE
  /\ changes = MaxChanges

----------------------------------------------------------------------------
Walking == pc = "execute" /\ reader \in WalksTree

(* Files and directories come and go.  What happens before and after the    *)
(* walk is not seen by it.                                                  *)
ChangeFile(f) ==
  /\ Walking /\ changes > 0
  /\ Parent[f] \in dirs
  /\ \E s \in (Sizes \cup {Gone}) \ {tree[f]} :
       /\ tree' = [tree EXCEPT ![f] = s]
       /\ seen' = seen \cup ({[path |-> f, size |-> s]} \cap Entry)
  /\ stable' = {e \in stable : e.path # f}
  /\ changes' = changes - 1
  /\ UNCHANGED <<dirs, removed, walkVars, fault, readerVars>>

ChangeDirectory(d) ==
  /\ Walking /\ changes > 0
  /\ d # Root
  /\ \/ d \in dirs /\ Children(d) = {} /\ dirs' = dirs \ {d} /\ removed' = TRUE
     \/ /\ d \notin dirs /\ Parent[d] \in dirs
        /\ dirs' = dirs \cup {d}
        /\ UNCHANGED removed
  /\ changes' = changes - 1
  /\ UNCHANGED <<tree, stable, seen, walkVars, fault, readerVars>>

----------------------------------------------------------------------------
Top == Head(stack)
Replace(frame) == stack' = <<frame>> \o Tail(stack)
Skip(p) == [Top EXCEPT !.todo = @ \ {p}]

(* The statement is executed: run begins to walk at the base path.          *)
Query ==
  /\ outcome = "none"
  /\ Call(reader)
  /\ stack' = IF reader \in WalksTree THEN <<NewFrame(Root)>> ELSE <<>>
  /\ UNCHANGED <<rows, treeVars, fault, changes>>

(* list_dir: iterdir reads the names of all entries at once.  A directory   *)
(* without permission ends its generator without an error.                  *)
ReadDirectory ==
  /\ Walking /\ stack # <<>> /\ ~Top.open
  /\ Top.dir \in dirs
  /\ \/ Kind[Top.dir] = "locked" /\ stack' = Tail(stack)
     \/ /\ Kind[Top.dir] # "locked"
        /\ Replace([Top EXCEPT !.open = TRUE, !.todo = Children(Top.dir)])
  /\ UNCHANGED <<rows, treeVars, fault, changes, readerVars>>

(* FileNotFoundError is caught around lstat and not around iterdir: a       *)
(* directory that has vanished since lstat fails the statement.             *)
ReadDirectoryFails ==
  /\ Walking /\ stack # <<>> /\ ~Top.open
  /\ Top.dir \notin dirs
  /\ ExecuteFails
  /\ stack' = <<>>
  /\ UNCHANGED <<rows, treeVars, fault, changes>>

(* run emits a file with the size lstat has found.                          *)
EmitFile(f) ==
  /\ Walking /\ stack # <<>> /\ f \in Top.todo /\ Present(f)
  /\ rows' = rows \cup {[path |-> f, size |-> tree[f]]}
  /\ Replace(Skip(f))
  /\ UNCHANGED <<treeVars, fault, changes, readerVars>>

(* accept_file: the file systems of containers are not entered.             *)
EnterDirectory(d) ==
  /\ Walking /\ stack # <<>> /\ d \in Top.todo /\ Present(d)
  /\ stack' = (IF Kind[d] = "container" THEN <<>> ELSE <<NewFrame(d)>>)
                \o <<Skip(d)>> \o Tail(stack)
  /\ UNCHANGED <<rows, treeVars, fault, changes, readerVars>>

(* Faulty variants: the exception is caught around the loop, or not at all. *)
LeaveAtVanished(p) ==
  /\ Walking /\ stack # <<>> /\ p \in Top.todo /\ ~Present(p)
  /\ stack' = Tail(stack)
  /\ UNCHANGED <<rows, treeVars, fault, changes, readerVars>>

FailAtVanished(p) ==
  /\ Walking /\ stack # <<>> /\ p \in Top.todo /\ ~Present(p)
  /\ ExecuteFails
  /\ stack' = <<>>
  /\ UNCHANGED <<rows, treeVars, fault, changes>>

(* An entry that has vanished since iterdir is left out.                    *)
SkipVanished(p) ==
  /\ Walking /\ stack # <<>> /\ p \in Top.todo /\ ~Present(p)
  /\ Replace(Skip(p))
  /\ UNCHANGED <<rows, treeVars, fault, changes, readerVars>>

(* Faulty variant: a directory is read again until it stays empty.          *)
ReadAgain ==
  /\ Walking /\ stack # <<>> /\ Top.open /\ Top.todo = {}
  /\ IF Children(Top.dir) = {} THEN stack' = Tail(stack)
                               ELSE Replace([Top EXCEPT !.open = FALSE])
  /\ UNCHANGED <<rows, treeVars, fault, changes, readerVars>>

LeaveDirectory ==
  /\ Walking /\ stack # <<>> /\ Top.open /\ Top.todo = {}
  /\ stack' = Tail(stack)
  /\ UNCHANGED <<rows, treeVars, fault, changes, readerVars>>

(* FindAbsolutePath asks for one row with the name it wants.                *)
Found ==
  IF reader = "files" THEN rows
  ELSE {e \in rows : Name[e.path] = Wanted}

Walked ==
  /\ Walking /\ stack = <<>>
  /\ Execute(IF reader = "path" /\ Found # {} THEN 1 ELSE Cardinality(Found))
  /\ UNCHANGED <<walkVars, treeVars, fault, changes>>

ExecuteQuery(n) ==
  /\ reader \notin WalksTree
  /\ Execute(n)
  /\ UNCHANGED <<walkVars, treeVars, fault, changes>>

(* The steps of the reader, and what fails it from outside.                 *)
ReadRows ==
  /\ Break \/ NextRow \/ NextEnds \/ ReportError \/ Accept
  /\ UNCHANGED <<walkVars, treeVars, fault, changes>>

ReaderFails ==
  /\ ExecuteFails \/ ScanFails
  /\ stack' = <<>>
  /\ fault' = TRUE
  /\ UNCHANGED <<rows, treeVars, changes>>

Walk ==
  \/ Query \/ ReadDirectory \/ ReadDirectoryFails
  \/ \E f \in Files : EmitFile(f)
  \/ \E d \in Directories : EnterDirectory(d)
  \/ \E p \in Directories \cup Files : SkipVanished(p)
  \/ LeaveDirectory \/ Walked
  \/ \E n \in 0..MaxRows : ExecuteQuery(n)
  \/ ReadRows \/ ReaderFails

ChangeTree ==
  \/ \E f \in Files : ChangeFile(f)
  \/ \E d \in Directories : ChangeDirectory(d)

TreeTypeOK ==
  /\ ReaderTypeOK
  /\ tree \in [Files -> Sizes \cup {Gone}]
  /\ dirs \subseteq Directories
  /\ stack \in Seq(Frame)
  /\ rows \cup stable \cup seen \subseteq Entry
  /\ {removed, fault} \subseteq BOOLEAN
  /\ changes \in 0..MaxChanges
=============================================================================
