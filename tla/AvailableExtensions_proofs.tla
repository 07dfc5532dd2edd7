--------------------- MODULE AvailableExtensions_proofs ---------------------
(***************************************************************************)
(* Proofs about AvailableExtensions for any tree, any registry, any        *)
(* requirements, and any number of changes and of rows.                    *)
(***************************************************************************)
EXTENDS AvailableExtensions, SequenceTheorems, FiniteSetTheorems, TLAPS

USE DEF vars, walkAndTree, listVars, registryVars, walkVars, treeVars, readerVars, result

----------------------------------------------------------------------------
(* A reader returns with an error only when something has failed, and rows  *)
(* are missing only when it does not ask for the error.                     *)
Reading ==
  /\ pc # "idle" => pending >= 1 /\ outcome = "none"
  /\ pc = "check" /\ cursor = "open" => read = size
  /\ reader \in AsksForError => ~dropped
  /\ outcome = "error" => fault \/ removed \/ cursor = "failed"

(* A generator of the walk is in a directory the walk is meant to enter, or *)
(* about to read one that it can find locked, and has names of that         *)
(* directory; the directory was there when the generator was created.       *)
GoodFrames ==
  {f \in Frame :
     /\ f.todo # {} => f.open
     /\ f.open => Visible[f.dir] /\ \A p \in f.todo : p \in DOMAIN Parent /\ Parent[p] = f.dir
     /\ f.dir # Root => Kind[f.dir] # "container" /\ Visible[Parent[f.dir]]
     /\ f.dir \in dirs \/ removed}

Walks ==
  /\ stack \in Seq(GoodFrames)
  /\ Root \in dirs
  /\ Entries \subseteq seen
  /\ rows \subseteq VisibleIn(seen)
  /\ IsFiniteSet(rows)

(* An extension is found once under a name, and loaded once.                *)
Loading ==
  /\ stage # "done" => reply = "none" /\ listed = {}
  /\ stage \in {"files", "find"} => got = {}
  /\ \A g, h \in got : g.extension = h.extension => g = h
  /\ \A g \in got : g.extension \notin todo
  /\ \A e \in todo :
       /\ e[2] = "nested" => e[1] \in Nested
       /\ e[2] = "top" => e[1] \notin steady \/ definition[e[1]].state # "absent"

IInv ==
  /\ TypeOK /\ Reading /\ Walks /\ Loading
  /\ ListedIsUsable /\ FailsForAReason

----------------------------------------------------------------------------
LEMMA Initially == Init => IInv
<1> SUFFICES ASSUME Init PROVE IInv
  OBVIOUS
<1>1. ReaderTypeOK
  <2>1. size = 0 /\ read = 0 /\ pending = 0 /\ pc = "idle" /\ reader \in Readers
    BY DEF Init, ReaderInit
  <2>2. cursor = "open" /\ link = "up" /\ outcome = "none" /\ dropped = FALSE
    BY DEF Init, ReaderInit
  <2>3. size \in Nat /\ read \in 0..size /\ pending \in 0..2
    BY <2>1
  <2> QED
    BY <2>1, <2>2, <2>3 DEF ReaderTypeOK
<1>2. stack \in Seq(Frame)
  BY EmptySeq DEF Init, TreeInit
<1>3. Entries \subseteq Entry
  BY DEF Entries
<1>4. TreeTypeOK
  <2>1. removed = FALSE /\ fault = FALSE /\ changes \in 0..MaxChanges
    BY BucketFsAssumption DEF Init, TreeInit
  <2>2. tree \in [Files -> Sizes \cup {Gone}] /\ dirs \subseteq Directories
    BY BucketFsAssumption DEF Init, TreeInit
  <2>3. rows \cup stable \cup seen \subseteq Entry
    BY <1>3 DEF Init, TreeInit
  <2> QED
    BY <1>1, <1>2, <2>1, <2>2, <2>3 DEF TreeTypeOK
<1>5. TypeOK
  BY <1>4, AvailableExtensionsAssumption DEF Init, TypeOK
<1>6. Reading
  BY DEF Init, ReaderInit, Reading
<1>7. Walks
  BY EmptySeq, FS_EmptySet, BucketFsAssumption DEF Init, TreeInit, Walks
<1>8. Loading /\ ListedIsUsable /\ FailsForAReason
  BY DEF Init, TreeInit, Loading, ListedIsUsable, FailsForAReason
<1> QED
  BY <1>5, <1>6, <1>7, <1>8 DEF IInv

----------------------------------------------------------------------------
(* What a reader's own steps do to its state.                               *)
LEMMA ReaderTypes ==
  ASSUME ReaderTypeOK, Reading, ReadRows
  PROVE  ReaderTypeOK' /\ Reading'
<1> USE DEF ReaderTypeOK, Reading
<1>1. CASE Break
  BY <1>1 DEF Break, ReadRows
<1>2. CASE NextRow
  BY <1>2 DEF NextRow, ReadRows, Finish
<1>3. CASE NextEnds
  BY <1>3 DEF NextEnds, ReadRows
<1>4. CASE ReportError
  BY <1>4 DEF ReportError, ReadRows, Finish
<1>5. CASE Accept
  BY <1>5 DEF Accept, ReadRows, Finish
<1> QED
  BY <1>1, <1>2, <1>3, <1>4, <1>5 DEF ReadRows

LEMMA ReaderFailsTypes ==
  ASSUME ReaderTypeOK, Reading, ReaderFails
  PROVE  ReaderTypeOK' /\ Reading'
BY DEF ReaderTypeOK, Reading, ReaderFails, ExecuteFails, ScanFails, Finish

(* The statement begins: the first generator is at the base path.           *)
LEMMA QueryTypes ==
  ASSUME ReaderTypeOK, Reading, Query
  PROVE  ReaderTypeOK' /\ Reading'
<1>1. /\ pc' = "execute" /\ reader' = reader /\ pending' = Statements(reader)
      /\ link' = "up" /\ outcome' = "none" /\ dropped' = FALSE
      /\ UNCHANGED <<size, read, cursor>>
  BY DEF Query, Call
<1>2. pending' \in 1..2
  BY <1>1 DEF Statements
<1>3. pending' \in 0..2 /\ pending' >= 1
  BY <1>2
<1>4. ReaderTypeOK'
  BY <1>1, <1>3, Zenon DEF ReaderTypeOK
<1> QED
  BY <1>1, <1>3, <1>4 DEF Reading

LEMMA ExecuteTypes ==
  ASSUME ReaderTypeOK, Reading, NEW n \in Nat, Execute(n), fault' = fault, removed' = removed
  PROVE  ReaderTypeOK' /\ Reading'
BY DEF ReaderTypeOK, Reading, Execute

LEMMA DirectoryFailsTypes ==
  ASSUME ReaderTypeOK, Reading, removed, ReadDirectoryFails
  PROVE  ReaderTypeOK' /\ Reading'
BY DEF ReaderTypeOK, Reading, ReadDirectoryFails, ExecuteFails, Finish

----------------------------------------------------------------------------
(* What the walk keeps on its stack.                                        *)
LEMMA GoodFrameTypes == GoodFrames \subseteq Frame
BY DEF GoodFrames

LEMMA TopIsGood ==
  ASSUME Walks, stack # <<>>
  PROVE  Top \in GoodFrames /\ Tail(stack) \in Seq(GoodFrames)
BY HeadTailProperties DEF Walks, Top

LEMMA Pushed ==
  ASSUME NEW f \in GoodFrames, NEW s \in Seq(GoodFrames)
  PROVE  <<f>> \o s \in Seq(GoodFrames)
<1>1. <<f>> \in Seq(GoodFrames)
  OBVIOUS
<1> QED
  BY <1>1, ConcatProperties

LEMMA SkippedIsGood ==
  ASSUME Top \in GoodFrames, NEW p
  PROVE  Skip(p) \in GoodFrames
BY DEF GoodFrames, Skip, Frame

LEMMA ReadIsGood ==
  ASSUME Top \in GoodFrames, ~Top.open, Top.dir \in dirs, Kind[Top.dir] # "locked",
         dirs \subseteq Directories
  PROVE  [Top EXCEPT !.open = TRUE, !.todo = Children(Top.dir)] \in GoodFrames
<1> DEFINE new == [Top EXCEPT !.open = TRUE, !.todo = Children(Top.dir)]
<1>1. Top.dir \in Directories
  BY DEF GoodFrames, Frame
<1>2. Visible[Top.dir]
  <2>1. CASE Top.dir = Root
    BY <1>1, <2>1, VisibleAssumption
  <2>2. CASE Top.dir # Root
    <3>1. Kind[Top.dir] = "plain"
      BY <1>1, <2>2, BucketFsAssumption DEF GoodFrames
    <3>2. Visible[Parent[Top.dir]]
      BY <2>2 DEF GoodFrames
    <3> QED
      BY <1>1, <2>2, <3>1, <3>2, VisibleAssumption
  <2> QED
    BY <2>1, <2>2
<1>3. Children(Top.dir) \subseteq Directories \cup Files
  BY BucketFsAssumption DEF Children
<1>4. \A p \in Children(Top.dir) : p \in DOMAIN Parent /\ Parent[p] = Top.dir
  BY DEF Children
<1>5. new \in Frame
  BY <1>1, <1>3 DEF GoodFrames, Frame
<1>6. new.open = TRUE /\ new.todo = Children(Top.dir) /\ new.dir = Top.dir
  BY DEF GoodFrames, Frame
<1> QED
  BY <1>2, <1>4, <1>5, <1>6 DEF GoodFrames

LEMMA EnteredIsGood ==
  ASSUME Top \in GoodFrames, NEW d \in Directories, d \in Top.todo, Present(d),
         Kind[d] # "container"
  PROVE  NewFrame(d) \in GoodFrames
<1>1. d \in dirs
  BY BucketFsAssumption DEF Present
<1>2. d # Root /\ Parent[d] = Top.dir /\ Visible[Top.dir]
  BY BucketFsAssumption DEF GoodFrames
<1> QED
  BY <1>1, <1>2 DEF GoodFrames, NewFrame, Frame

LEMMA RootIsGood ==
  ASSUME Walks
  PROVE  NewFrame(Root) \in GoodFrames
BY BucketFsAssumption DEF Walks, GoodFrames, NewFrame, Frame

(* A row of the walk is a file that is there, where the walk may look.      *)
LEMMA RowIsSeen ==
  ASSUME TypeOK, Walks, Top \in GoodFrames, NEW f \in Files, f \in Top.todo, Present(f)
  PROVE  [path |-> f, size |-> tree[f]] \in VisibleIn(seen)
<1> DEFINE row == [path |-> f, size |-> tree[f]]
<1>1. tree[f] \in Sizes
  BY DEF TypeOK, TreeTypeOK, Present
<1>2. row \in Entries
  BY <1>1 DEF Entries, Entry
<1>3. Visible[Parent[f]]
  BY DEF GoodFrames
<1> QED
  BY <1>2, <1>3 DEF Walks, VisibleIn

(* What every step of the listing preserves.                                *)
LEMMA WalkStep ==
  ASSUME TypeOK, Reading, Walks, Walk
  PROVE  /\ ReaderTypeOK' /\ Reading'
         /\ stack' \in Seq(GoodFrames)
         /\ rows' \subseteq VisibleIn(seen) /\ IsFiniteSet(rows')
         /\ fault' \in BOOLEAN
         /\ UNCHANGED <<treeVars, changes>>
<1> USE DEF Walking
<1>0. /\ ReaderTypeOK /\ fault \in BOOLEAN /\ dirs \subseteq Directories
      /\ stack \in Seq(GoodFrames) /\ rows \subseteq VisibleIn(seen) /\ IsFiniteSet(rows)
      /\ <<>> \in Seq(GoodFrames)
  BY EmptySeq DEF TypeOK, TreeTypeOK, Walks
<1>a. ASSUME UNCHANGED <<readerVars, fault, removed>>
      PROVE  ReaderTypeOK' /\ Reading' /\ fault' \in BOOLEAN
  BY <1>0, <1>a DEF ReaderTypeOK, Reading
<1>1. CASE Query
  <2>1. stack' \in Seq(GoodFrames)
    <3>1. <<NewFrame(Root)>> \in Seq(GoodFrames)
      BY RootIsGood
    <3> QED
      BY <1>0, <1>1, <3>1 DEF Query
  <2> QED
    BY <1>0, <1>1, <2>1, QueryTypes DEF Query
<1>2. CASE ReadDirectory
  <2>1. Top \in GoodFrames /\ Tail(stack) \in Seq(GoodFrames)
    BY <1>2, TopIsGood DEF ReadDirectory
  <2>2. stack' \in Seq(GoodFrames)
    BY <1>0, <1>2, <2>1, ReadIsGood, Pushed DEF ReadDirectory, Replace
  <2> QED
    BY <1>0, <1>a, <1>2, <2>2 DEF ReadDirectory
<1>3. CASE ReadDirectoryFails
  <2>1. Top \in GoodFrames
    BY <1>3, TopIsGood DEF ReadDirectoryFails
  <2>2. removed
    BY <1>3, <2>1 DEF ReadDirectoryFails, GoodFrames
  <2> QED
    BY <1>0, <1>3, <2>2, DirectoryFailsTypes DEF ReadDirectoryFails
<1>4. ASSUME NEW f \in Files, EmitFile(f)
      PROVE  /\ stack' \in Seq(GoodFrames) /\ rows' \subseteq VisibleIn(seen)
             /\ IsFiniteSet(rows') /\ UNCHANGED <<treeVars, fault, changes, readerVars>>
  <2>1. Top \in GoodFrames /\ Tail(stack) \in Seq(GoodFrames)
    BY <1>4, TopIsGood DEF EmitFile
  <2>2. stack' \in Seq(GoodFrames)
    BY <1>4, <2>1, SkippedIsGood, Pushed DEF EmitFile, Replace
  <2>3. rows' \subseteq VisibleIn(seen) /\ IsFiniteSet(rows')
    BY <1>0, <1>4, <2>1, RowIsSeen, FS_AddElement DEF EmitFile
  <2> QED
    BY <1>4, <2>2, <2>3 DEF EmitFile
<1>5. ASSUME NEW d \in Directories, EnterDirectory(d)
      PROVE  stack' \in Seq(GoodFrames) /\ UNCHANGED <<rows, treeVars, fault, changes, readerVars>>
  <2>1. Top \in GoodFrames /\ Tail(stack) \in Seq(GoodFrames)
    BY <1>5, TopIsGood DEF EnterDirectory
  <2>2. <<Skip(d)>> \o Tail(stack) \in Seq(GoodFrames) /\ <<Skip(d)>> \in Seq(GoodFrames)
    BY <2>1, SkippedIsGood, Pushed
  <2>3. (IF Kind[d] = "container" THEN <<>> ELSE <<NewFrame(d)>>) \in Seq(GoodFrames)
    <3>1. CASE Kind[d] = "container"
      BY <1>0, <3>1
    <3>2. CASE Kind[d] # "container"
      <4>1. NewFrame(d) \in GoodFrames
        BY <1>5, <2>1, <3>2, EnteredIsGood DEF EnterDirectory
      <4> QED
        BY <3>2, <4>1
    <3> QED
      BY <3>1, <3>2
  <2>4. (IF Kind[d] = "container" THEN <<>> ELSE <<NewFrame(d)>>) \o <<Skip(d)>>
          \in Seq(GoodFrames)
    BY <2>2, <2>3, ConcatProperties
  <2>5. stack' \in Seq(GoodFrames)
    BY <1>5, <2>1, <2>4, ConcatProperties DEF EnterDirectory
  <2> QED
    BY <1>5, <2>5 DEF EnterDirectory
<1>6. ASSUME NEW p, SkipVanished(p)
      PROVE  stack' \in Seq(GoodFrames) /\ UNCHANGED <<rows, treeVars, fault, changes, readerVars>>
  BY <1>6, TopIsGood, SkippedIsGood, Pushed DEF SkipVanished, Replace
<1>7. CASE LeaveDirectory
  BY <1>0, <1>a, <1>7, TopIsGood DEF LeaveDirectory
<1>8. CASE Walked
  <2> DEFINE n == IF reader = "path" /\ Found # {} THEN 1 ELSE Cardinality(Found)
  <2>1. Found \subseteq rows
    BY DEF Found
  <2>2. n \in Nat
    BY <1>0, <2>1, FS_Subset, FS_CardinalityType
  <2>3. Execute(n) /\ UNCHANGED <<walkVars, treeVars, fault, changes>>
    BY <1>8 DEF Walked
  <2>4. ReaderTypeOK' /\ Reading'
    BY <1>0, <2>2, <2>3, ExecuteTypes
  <2> QED
    BY <1>0, <2>3, <2>4
<1>9. ASSUME NEW n \in 0..MaxRows, ExecuteQuery(n)
      PROVE  ReaderTypeOK' /\ Reading' /\ UNCHANGED <<walkVars, treeVars, fault, changes>>
  BY <1>0, <1>9, ExecuteTypes, ResultSetsAssumption DEF ExecuteQuery
<1>10. CASE ReadRows
  <2>1. UNCHANGED <<walkVars, treeVars, fault, changes>>
    BY <1>10 DEF ReadRows
  <2> QED
    BY <1>0, <1>10, <2>1, ReaderTypes
<1>11. CASE ReaderFails
  <2>1. stack' = <<>> /\ fault' = TRUE /\ UNCHANGED <<rows, treeVars, changes>>
    BY <1>11 DEF ReaderFails
  <2> QED
    BY <1>0, <1>11, <2>1, ReaderFailsTypes
<1> QED
  BY <1>0, <1>a, <1>1, <1>2, <1>3, <1>4, <1>5, <1>6, <1>7, <1>8, <1>9, <1>10, <1>11 DEF Walk

----------------------------------------------------------------------------
(* A definition or a tree that changes leaves what was found and seen.      *)
LEMMA SeenGrows ==
  ASSUME ListedIsUsable, seen \subseteq seen', UNCHANGED <<got, listed>>
  PROVE  ListedIsUsable'
BY DEF ListedIsUsable, Met, VisibleIn

LEMMA ListFilesStep == IInv /\ ListFiles => IInv'
<1> SUFFICES ASSUME IInv, ListFiles PROVE IInv'
  OBVIOUS
<1>1. /\ ReaderTypeOK' /\ Reading'
      /\ stack' \in Seq(GoodFrames)
      /\ rows' \subseteq VisibleIn(seen) /\ IsFiniteSet(rows')
      /\ fault' \in BOOLEAN
      /\ UNCHANGED <<treeVars, changes>>
  BY WalkStep DEF IInv, ListFiles
<1>2. GoodFrames' = GoodFrames /\ Entries' = Entries /\ VisibleIn(seen)' = VisibleIn(seen)
  BY <1>1 DEF GoodFrames, Entries, VisibleIn
<1>3. stack' \in Seq(Frame)
  BY <1>1, GoodFrameTypes, SeqMonotonic
<1>4. rows' \subseteq Entry
  BY <1>1 DEF VisibleIn, IInv, TypeOK, TreeTypeOK
<1>5. TreeTypeOK'
  BY <1>1, <1>3, <1>4 DEF IInv, TypeOK, TreeTypeOK
<1>6. UNCHANGED <<listVars, registryVars>> /\ stage = "files"
  BY DEF ListFiles
<1>7. TypeOK'
  BY <1>5, <1>6 DEF IInv, TypeOK
<1>8. Walks'
  BY <1>1, <1>2 DEF IInv, Walks
<1>9. Loading'
  BY <1>6 DEF IInv, Loading
<1>10. ListedIsUsable'
  BY <1>1, <1>6, SeenGrows DEF IInv
<1>11. FailsForAReason'
  BY <1>6 DEF IInv, Loading, FailsForAReason
<1> QED
  BY <1>1, <1>7, <1>8, <1>9, <1>10, <1>11 DEF IInv

(* A step of the controller leaves the walk, but for a fault.               *)
LEMMA ControllerStep ==
  ASSUME IInv, UNCHANGED <<readerVars, walkVars, treeVars, changes>>,
         fault' = fault \/ fault' = TRUE
  PROVE  TreeTypeOK' /\ Reading' /\ Walks'
<1>1. GoodFrames' = GoodFrames /\ Entries' = Entries /\ VisibleIn(seen)' = VisibleIn(seen)
  BY DEF GoodFrames, Entries, VisibleIn
<1>2. Walks'
  BY <1>1 DEF IInv, Walks
<1>3. Reading'
  BY DEF IInv, Reading
<1>4. ReaderTypeOK' /\ fault' \in BOOLEAN
  BY DEF IInv, TypeOK, TreeTypeOK, ReaderTypeOK
<1>5. TreeTypeOK'
  BY <1>4 DEF IInv, TypeOK, TreeTypeOK
<1> QED
  BY <1>2, <1>3, <1>5

LEMMA ListFilesEndsStep == IInv /\ ListFilesEnds => IInv'
<1> SUFFICES ASSUME IInv, ListFilesEnds PROVE IInv'
  OBVIOUS
<1> USE DEF ListFilesEnds, Reply
<1>1. TreeTypeOK' /\ Reading' /\ Walks'
  BY ControllerStep
<1>2. TypeOK'
  BY <1>1 DEF IInv, TypeOK
<1>3. Loading'
  BY DEF IInv, Loading
<1>4. ListedIsUsable'
  BY SeenGrows DEF IInv
<1>5. FailsForAReason'
  <2>1. reply' \in {"none", "error", "other"}
    BY DEF IInv, Loading
  <2>2. reply' = "error" => outcome = "error"
    BY DEF IInv, Loading
  <2> QED
    BY <2>1, <2>2 DEF IInv, Reading, FailsForAReason
<1> QED
  BY <1>1, <1>2, <1>3, <1>4, <1>5 DEF IInv

LEMMA FindExtensionsStep == IInv /\ FindExtensions => IInv'
<1> SUFFICES ASSUME IInv, FindExtensions PROVE IInv'
  OBVIOUS
<1> USE DEF FindExtensions
<1>1. TreeTypeOK' /\ Reading' /\ Walks'
  BY ControllerStep
<1>2. TypeOK'
  BY <1>1, AvailableExtensionsAssumption DEF IInv, TypeOK
<1>3. Loading'
  BY DEF IInv, Loading
<1>4. ListedIsUsable'
  BY SeenGrows DEF IInv
<1>5. FailsForAReason'
  BY DEF IInv, Loading, FailsForAReason
<1> QED
  BY <1>1, <1>2, <1>3, <1>4, <1>5 DEF IInv

LEMMA FindExtensionsFailsStep == IInv /\ FindExtensionsFails => IInv'
<1> SUFFICES ASSUME IInv, FindExtensionsFails PROVE IInv'
  OBVIOUS
<1> USE DEF FindExtensionsFails
<1>1. TreeTypeOK' /\ Reading' /\ Walks'
  BY ControllerStep
<1>2. TypeOK'
  BY <1>1 DEF IInv, TypeOK
<1>3. Loading'
  BY DEF IInv, Loading
<1>4. ListedIsUsable'
  BY SeenGrows DEF IInv
<1>5. FailsForAReason'
  BY DEF IInv, Loading, FailsForAReason
<1> QED
  BY <1>1, <1>2, <1>3, <1>4, <1>5 DEF IInv

LEMMA LoadExtensionStep ==
  ASSUME IInv, NEW e \in Ids \X {"top", "nested"}, LoadExtension(e)
  PROVE  IInv'
<1> USE DEF LoadExtension
<1> DEFINE new == [extension |-> e, requires |-> definition[e[1]].requires]
<1>1. TreeTypeOK' /\ Reading' /\ Walks'
  BY ControllerStep
<1>2. TypeOK'
  <2>1. definition[e[1]].requires \in Requirements
    BY DEF IInv, TypeOK, Content
  <2>2. \A g \in got' : g.extension \in Ids \X {"top", "nested"} /\ g.requires \in Requirements
    BY <2>1 DEF IInv, TypeOK
  <2> QED
    BY <1>1, <2>2 DEF IInv, TypeOK
<1>3. Loading'
  <2>1. \A g \in got : g.extension # e
    BY DEF IInv, Loading
  <2>2. got' = got \cup {new} /\ new.extension = e
    OBVIOUS
  <2>3. \A g, h \in got' : g.extension = h.extension => g = h
    BY <2>1, <2>2 DEF IInv, Loading
  <2>4. \A g \in got' : g.extension \notin todo'
    BY <2>2 DEF IInv, Loading
  <2> QED
    BY <2>3, <2>4 DEF IInv, Loading
<1>4. ListedIsUsable'
  BY DEF IInv, Loading, ListedIsUsable
<1>5. FailsForAReason'
  BY DEF IInv, Loading, FailsForAReason
<1> QED
  BY <1>1, <1>2, <1>3, <1>4, <1>5 DEF IInv

LEMMA LoadExtensionFailsStep ==
  ASSUME IInv, NEW e \in Ids \X {"top", "nested"}, LoadExtensionFails(e)
  PROVE  IInv'
<1> USE DEF LoadExtensionFails, Reply
<1>1. TreeTypeOK' /\ Reading' /\ Walks'
  BY ControllerStep
<1>2. TypeOK'
  BY <1>1 DEF IInv, TypeOK
<1>3. Loading'
  BY DEF IInv, Loading
<1>4. ListedIsUsable'
  BY SeenGrows DEF IInv
<1>5. FailsForAReason'
  <2>1. e[1] \in Ids /\ e[2] \in {"top", "nested"}
    OBVIOUS
  <2>2. CASE definition[e[1]].state = "absent"
    <3>1. e[1] \notin steady \/ e[1] \in Nested
      BY <2>1, <2>2 DEF IInv, Loading
    <3> QED
      BY <2>1, <2>2, <3>1 DEF FailsForAReason
  <2>3. CASE definition[e[1]].state # "absent"
    <3>1. definition[e[1]].state = "unusable"
      BY <2>1, <2>3 DEF IInv, TypeOK, Content
    <3> QED
      BY <2>1, <2>3, <3>1 DEF FailsForAReason
  <2> QED
    BY <2>2, <2>3
<1> QED
  BY <1>1, <1>2, <1>3, <1>4, <1>5 DEF IInv

(* The filter lets pass only what the files of the walk satisfy.            *)
LEMMA FilterExtensionsStep == IInv /\ FilterExtensions => IInv'
<1> SUFFICES ASSUME IInv, FilterExtensions PROVE IInv'
  OBVIOUS
<1> USE DEF FilterExtensions, Reply
<1>1. TreeTypeOK' /\ Reading' /\ Walks'
  BY ControllerStep
<1>2. PICK F \in SUBSET rows :
        listed' = {g.extension : g \in {h \in got : RequiredFilesAvailable(h.requires, F)}}
  OBVIOUS
<1>3. TypeOK'
  BY <1>1, <1>2 DEF IInv, TypeOK
<1>4. Loading'
  BY DEF IInv, Loading
<1>5. ListedIsUsable'
  <2> SUFFICES ASSUME NEW g \in got, g.extension \in listed'
               PROVE  Met(g.requires, VisibleIn(seen))
    BY DEF ListedIsUsable, VisibleIn, Met
  <2>1. RequiredFilesAvailable(g.requires, F)
    BY <1>2 DEF IInv, Loading
  <2>2. F \subseteq VisibleIn(seen)
    BY DEF IInv, Walks
  <2>3. ASSUME NEW r \in g.requires
        PROVE  \E f \in VisibleIn(seen) : Name[f.path] = r.name /\ r.size \in {-1, f.size}
    <3>1. r.size \in Int /\ r.size >= -1
      BY <2>3, AvailableExtensionsAssumption DEF IInv, TypeOK
    <3>2. PICK f \in F : FileMatches(r, f)
      BY <2>1, <2>3 DEF RequiredFilesAvailable
    <3>3. r.size \in {-1, f.size}
      BY <3>1, <3>2 DEF FileMatches
    <3> QED
      BY <2>2, <3>2, <3>3 DEF FileMatches
  <2> QED
    BY <2>3 DEF Met
<1>6. FailsForAReason'
  BY DEF FailsForAReason
<1> QED
  BY <1>1, <1>3, <1>4, <1>5, <1>6 DEF IInv

----------------------------------------------------------------------------
LEMMA ChangeDefinitionStep ==
  ASSUME IInv, NEW id \in Ids, ChangeDefinition(id)
  PROVE  IInv'
<1> USE DEF ChangeDefinition
<1>1. changes' \in 0..MaxChanges
  BY BucketFsAssumption DEF IInv, TypeOK, TreeTypeOK
<1>2. ReaderTypeOK' /\ Reading'
  BY DEF IInv, TypeOK, TreeTypeOK, ReaderTypeOK, Reading
<1>3. TypeOK'
  BY <1>1, <1>2 DEF IInv, TypeOK, TreeTypeOK
<1>4. Walks'
  <2>1. GoodFrames' = GoodFrames /\ Entries' = Entries /\ VisibleIn(seen)' = VisibleIn(seen)
    BY DEF GoodFrames, Entries, VisibleIn
  <2> QED
    BY <2>1 DEF IInv, Walks
<1>5. Loading'
  BY DEF IInv, TypeOK, Loading
<1>6. ListedIsUsable'
  BY SeenGrows DEF IInv
<1>7. FailsForAReason'
  BY DEF IInv, Loading, FailsForAReason
<1> QED
  BY <1>2, <1>3, <1>4, <1>5, <1>6, <1>7 DEF IInv

LEMMA ChangeFileStep ==
  ASSUME IInv, NEW f \in Files, ChangeFile(f), UNCHANGED <<listVars, registryVars>>
  PROVE  IInv'
<1> USE DEF ChangeFile
<1>1. changes' \in 0..MaxChanges
  BY BucketFsAssumption DEF IInv, TypeOK, TreeTypeOK
<1>2. PICK s \in Sizes \cup {Gone} :
        /\ tree' = [tree EXCEPT ![f] = s]
        /\ seen' = seen \cup ({[path |-> f, size |-> s]} \cap Entry)
  OBVIOUS
<1>3. ReaderTypeOK' /\ Reading'
  BY DEF IInv, TypeOK, TreeTypeOK, ReaderTypeOK, Reading
<1>4. TreeTypeOK'
  BY <1>1, <1>2, <1>3 DEF IInv, TypeOK, TreeTypeOK
<1>5. TypeOK'
  BY <1>4 DEF IInv, TypeOK
<1>6. Entries' \subseteq seen'
  <2> SUFFICES ASSUME NEW e \in Entry, tree'[e.path] = e.size
               PROVE  e \in seen'
    BY DEF Entries
  <2>1. CASE e.path = f
    <3>1. e = [path |-> f, size |-> s]
      BY <1>2, <2>1 DEF IInv, TypeOK, TreeTypeOK, Entry
    <3> QED
      BY <1>2, <3>1
  <2>2. CASE e.path # f
    BY <1>2, <2>2 DEF IInv, TypeOK, TreeTypeOK, Entry, Walks, Entries
  <2> QED
    BY <2>1, <2>2
<1>7. Walks'
  <2>1. GoodFrames' = GoodFrames /\ VisibleIn(seen) \subseteq VisibleIn(seen)'
    BY <1>2 DEF GoodFrames, VisibleIn
  <2> QED
    BY <1>6, <2>1 DEF IInv, Walks
<1>8. Loading'
  BY DEF IInv, Loading
<1>9. ListedIsUsable'
  BY <1>2, SeenGrows DEF IInv
<1>10. FailsForAReason'
  BY DEF IInv, FailsForAReason
<1> QED
  BY <1>3, <1>5, <1>7, <1>8, <1>9, <1>10 DEF IInv

LEMMA ChangeDirectoryStep ==
  ASSUME IInv, NEW d \in Directories, ChangeDirectory(d), UNCHANGED <<listVars, registryVars>>
  PROVE  IInv'
<1> USE DEF ChangeDirectory
<1>1. changes' \in 0..MaxChanges /\ dirs' \subseteq Directories /\ Root \in dirs'
  BY BucketFsAssumption DEF IInv, TypeOK, TreeTypeOK, Walks
<1>2. (removed' = removed /\ dirs \subseteq dirs') \/ removed' = TRUE
  OBVIOUS
<1>3. ReaderTypeOK' /\ Reading'
  BY <1>2 DEF IInv, TypeOK, TreeTypeOK, ReaderTypeOK, Reading
<1>4. removed' \in BOOLEAN
  BY <1>2 DEF IInv, TypeOK, TreeTypeOK
<1>5. TypeOK'
  BY <1>1, <1>3, <1>4 DEF IInv, TypeOK, TreeTypeOK
<1>6. GoodFrames \subseteq GoodFrames'
  BY <1>2 DEF GoodFrames
<1>7. stack' \in Seq(GoodFrames')
  BY <1>6, SeqMonotonic DEF IInv, Walks
<1>8. Walks'
  BY <1>1, <1>7 DEF IInv, Walks, Entries, VisibleIn
<1>9. Loading'
  BY DEF IInv, Loading
<1>10. ListedIsUsable'
  BY SeenGrows DEF IInv
<1>11. FailsForAReason'
  BY <1>2 DEF IInv, FailsForAReason
<1> QED
  BY <1>3, <1>5, <1>8, <1>9, <1>10, <1>11 DEF IInv

LEMMA Stutters == IInv /\ UNCHANGED vars => IInv'
<1> SUFFICES ASSUME IInv, UNCHANGED vars PROVE IInv'
  OBVIOUS
<1>1. TreeTypeOK' /\ Reading' /\ Walks'
  BY ControllerStep
<1>2. TypeOK' /\ Loading' /\ FailsForAReason'
  BY <1>1 DEF IInv, TypeOK, Loading, FailsForAReason
<1>3. ListedIsUsable'
  BY SeenGrows DEF IInv
<1> QED
  BY <1>1, <1>2, <1>3 DEF IInv

LEMMA Preserved == IInv /\ [Next]_vars => IInv'
<1> SUFFICES ASSUME IInv, [Next]_vars PROVE IInv'
  OBVIOUS
<1>1. CASE ListStep
  BY <1>1, ListFilesStep, ListFilesEndsStep, FindExtensionsStep, FindExtensionsFailsStep,
     LoadExtensionStep, LoadExtensionFailsStep, FilterExtensionsStep DEF ListStep
<1>2. CASE Environment
  BY <1>2, ChangeDefinitionStep, ChangeFileStep, ChangeDirectoryStep DEF Environment, ChangeTree
<1>3. CASE UNCHANGED vars
  BY <1>3, Stutters
<1> QED
  BY <1>1, <1>2, <1>3 DEF Next

LEMMA Invariance == Spec => []IInv
BY Initially, Preserved, PTL DEF Spec

----------------------------------------------------------------------------
(* The variables of a list, of the walk and of its reader have their types,  *)
(* whatever number of rows the walk emits.                                   *)
THEOREM ListTypes == Spec => []TypeOK
<1>1. IInv => TypeOK
  BY DEF IInv
<1> QED
  BY <1>1, Invariance, PTL

(* A reader that asks sql.Rows for its error (ExasolSqlClient.Query,         *)
(* FindAbsolutePath) never returns a part of its rows.                       *)
THEOREM RowsAreWhole == Spec => []ReturnsAllRows
<1>1. IInv => ReturnsAllRows
  BY DEF IInv, Reading, ReturnsAllRows
<1> QED
  BY <1>1, Invariance, PTL

(* An extension is listed only when all files it requires were in BucketFS   *)
(* while the files were listed (GetAllExtensions, list_files_udf.py).        *)
THEOREM OnlyUsableIsListed == Spec => []ListedIsUsable
<1>1. IInv => ListedIsUsable
  BY DEF IInv
<1> QED
  BY <1>1, Invariance, PTL

(* A list fails only because of the database, a removed directory, or a      *)
(* definition that changed, cannot be used or is in a subdirectory; a file   *)
(* that vanishes during the walk fails nothing.                              *)
THEOREM FailuresHaveReasons == Spec => []FailsForAReason
<1>1. IInv => FailsForAReason
  BY DEF IInv
<1> QED
  BY <1>1, Invariance, PTL

----------------------------------------------------------------------------
(* The walk over BucketFS finds every file that stays, and the list every    *)
(* extension whose files and definition stay.                               *)

(* The file and the directories it is in: the least set that has the file   *)
(* and is closed under Parent.                                              *)
Nodes == Directories \cup Files
Closed(S) == \A p \in S \ {Root} : Parent[p] \in S
Up(f) == {p \in Nodes : \A S \in SUBSET Nodes : f \in S /\ Closed(S) => p \in S}

(* To show something of all of them, show it of the node and of the parent   *)
(* of each node it holds of.                                                *)
LEMMA UpOfNodes ==
  ASSUME NEW x \in Nodes
  PROVE  /\ x \in Up(x) /\ Up(x) \subseteq Nodes /\ Closed(Up(x))
         /\ \A S \in SUBSET Nodes : x \in S /\ Closed(S) => Up(x) \subseteq S
<1>1. x \in Up(x) /\ Up(x) \subseteq Nodes
  BY DEF Up
<1>2. \A S \in SUBSET Nodes : x \in S /\ Closed(S) => Up(x) \subseteq S
  BY DEF Up
<1>3. ASSUME NEW p \in Up(x) \ {Root} PROVE Parent[p] \in Up(x)
  <2>1. Parent[p] \in Nodes
    BY <1>3, BucketFsAssumption DEF Up, Nodes
  <2>2. ASSUME NEW S \in SUBSET Nodes, x \in S, Closed(S) PROVE Parent[p] \in S
    BY <1>3, <2>2 DEF Up, Closed
  <2> QED
    BY <2>1, <2>2 DEF Up
<1>4. Closed(Up(x))
  BY <1>3 DEF Closed
<1> QED
  BY <1>1, <1>2, <1>4

LEMMA UpContains == ASSUME NEW f \in Files PROVE f \in Up(f) /\ Up(f) \subseteq Nodes
BY UpOfNodes DEF Nodes

LEMMA UpIsClosed == ASSUME NEW f \in Files PROVE Closed(Up(f))
BY UpOfNodes DEF Nodes

LEMMA UpIsLeast ==
  ASSUME NEW f \in Files, NEW S \in SUBSET Nodes, f \in S, Closed(S)
  PROVE  Up(f) \subseteq S
BY UpOfNodes DEF Nodes

LEMMA RootIsUp == ASSUME NEW f \in Files PROVE Root \in Up(f)
BY UpContains, UpIsClosed, RootedAssumption DEF Closed, Nodes

LEMMA UpFiles == ASSUME NEW f \in Files PROVE Up(f) \subseteq {f} \cup Directories
<1> DEFINE S == {f} \cup Directories
<1>1. Closed(S)
  BY BucketFsAssumption DEF Closed
<1> QED
  BY <1>1, UpIsLeast DEF Nodes

(* The step from a directory down to the file.                              *)
LEMMA UpChild ==
  ASSUME NEW f \in Files, NEW d \in Up(f), d # f
  PROVE  \E c \in Up(f) : c # Root /\ Parent[c] = d
<1> SUFFICES ASSUME \A c \in Up(f) : c # Root => Parent[c] # d PROVE FALSE
  OBVIOUS
<1> DEFINE S == Up(f) \ {d}
<1>1. S \in SUBSET Nodes /\ f \in S
  BY UpContains
<1>2. Closed(S)
  BY UpIsClosed DEF Closed
<1> QED
  BY <1>1, <1>2, UpIsLeast

LEMMA UpVisible ==
  ASSUME NEW f \in Files, Visible[Parent[f]]
  PROVE  \A d \in Up(f) : d # f => Visible[d]
<1> DEFINE S == {f} \cup {d \in Directories : Visible[d]}
<1>1. Closed(S)
  <2> SUFFICES ASSUME NEW p \in S \ {Root} PROVE Parent[p] \in S
    BY DEF Closed
  <2>1. Parent[p] \in Directories
    BY BucketFsAssumption
  <2>2. Visible[Parent[p]]
    BY BucketFsAssumption, VisibleAssumption
  <2> QED
    BY <2>1, <2>2
<1> QED
  BY <1>1, UpIsLeast DEF Nodes

----------------------------------------------------------------------------
(* What is there is in a directory that is there.                           *)
TreeClosed == \A p \in DOMAIN Parent : Present(p) => Parent[p] \in dirs

LEMMA UpPresent ==
  ASSUME TreeClosed, Root \in dirs, NEW f \in Files, Present(f)
  PROVE  \A p \in Up(f) : Present(p)
<1> DEFINE S == {p \in Nodes : Present(p)}
<1>1. Closed(S)
  BY BucketFsAssumption DEF Closed, TreeClosed, Present, Nodes
<1> QED
  BY <1>1, UpIsLeast DEF Nodes

----------------------------------------------------------------------------
(* A generator leads to a file when it has still to read the directory, or  *)
(* to yield the file or the directory, on the way to it.                    *)
Leads(frame, f) ==
  \/ frame.todo \cap Up(f) # {}
  \/ ~frame.open /\ frame.dir \in Up(f)
Some(s, f) == \E i \in 1..Len(s) : Leads(s[i], f)

LEMMA SomeInConcat ==
  ASSUME NEW f, NEW s \in Seq(Frame), NEW t \in Seq(Frame)
  PROVE  Some(s \o t, f) <=> Some(s, f) \/ Some(t, f)
<1>1. Len(s \o t) = Len(s) + Len(t) /\ Len(s) \in Nat /\ Len(t) \in Nat
  BY ConcatProperties, LenProperties
<1>2. \A i \in 1..Len(s) + Len(t) : (s \o t)[i] = IF i <= Len(s) THEN s[i] ELSE t[i - Len(s)]
  BY ConcatProperties
<1>3. ASSUME Some(s \o t, f) PROVE Some(s, f) \/ Some(t, f)
  <2>1. PICK i \in 1..Len(s) + Len(t) : Leads((s \o t)[i], f)
    BY <1>1, <1>3 DEF Some
  <2>2. CASE i <= Len(s)
    <3>1. i \in 1..Len(s) /\ Leads(s[i], f)
      BY <1>1, <1>2, <2>1, <2>2
    <3> QED
      BY <3>1 DEF Some
  <2>3. CASE i > Len(s)
    <3>1. i - Len(s) \in 1..Len(t) /\ Leads(t[i - Len(s)], f)
      BY <1>1, <1>2, <2>1, <2>3
    <3> QED
      BY <3>1 DEF Some
  <2> QED
    BY <1>1, <2>2, <2>3
<1>4. ASSUME Some(s, f) PROVE Some(s \o t, f)
  <2>1. PICK i \in 1..Len(s) : Leads(s[i], f)
    BY <1>4 DEF Some
  <2>2. i \in 1..Len(s \o t) /\ (s \o t)[i] = s[i]
    BY <1>1, <1>2
  <2> QED
    BY <2>1, <2>2 DEF Some
<1>5. ASSUME Some(t, f) PROVE Some(s \o t, f)
  <2>1. PICK i \in 1..Len(t) : Leads(t[i], f)
    BY <1>5 DEF Some
  <2>2. i + Len(s) \in 1..Len(s \o t) /\ (s \o t)[i + Len(s)] = t[i]
    BY <1>1, <1>2
  <2> QED
    BY <2>1, <2>2 DEF Some
<1> QED
  BY <1>3, <1>4, <1>5

LEMMA SomeInOne ==
  ASSUME NEW f, NEW frame
  PROVE  Some(<<frame>>, f) <=> Leads(frame, f)
<1>1. Len(<<frame>>) = 1 /\ <<frame>>[1] = frame
  OBVIOUS
<1> QED
  BY <1>1 DEF Some

LEMMA SomeInRest ==
  ASSUME NEW f, NEW s \in Seq(Frame), s # <<>>
  PROVE  Some(s, f) <=> Leads(Head(s), f) \/ Some(Tail(s), f)
<1>1. Tail(s) \in Seq(Frame) /\ <<Head(s)>> \in Seq(Frame) /\ s = <<Head(s)>> \o Tail(s)
  BY HeadTailProperties
<1>2. Some(<<Head(s)>> \o Tail(s), f) <=> Some(<<Head(s)>>, f) \/ Some(Tail(s), f)
  BY <1>1, SomeInConcat
<1>3. Some(<<Head(s)>> \o Tail(s), f) = Some(s, f)
  BY <1>1, Zenon
<1> QED
  BY <1>2, <1>3, SomeInOne

LEMMA NoneInEmpty == ASSUME NEW f PROVE ~Some(<<>>, f)
BY DEF Some

----------------------------------------------------------------------------
(* A file that stays has been emitted or will be, and its name is known.    *)
Pending(f) == pc = "execute" /\ Some(stack, f)
Complete ==
  reader \in WalksTree /\ (pc # "idle" \/ outcome \in {"ok", "absent"}) =>
    \A e \in VisibleIn(stable) : e \in rows \/ Pending(e.path)

(* The rows of the result are those of the walk.                            *)
Counted ==
  /\ reader = "files" /\ pc \in {"next", "check"} => size = Cardinality(rows)
  /\ reader = "files" /\ outcome = "ok" /\ ~dropped => read = Cardinality(rows)
  /\ reader = "path" /\ pc \in {"next", "check"} => read = 0 /\ (size = 0 => Found = {})
  /\ reader = "path" /\ outcome = "absent" => Found = {}

(* What is found is loaded.                                                 *)
Kept ==
  /\ stage # "files" => pc = "idle"
  /\ stage \in {"find", "load"} \/ reply = "ok" => reader = "files" /\ outcome = "ok"
  /\ stage = "load" /\ ~fault =>
       \A id \in steady : definition[id].state = "loads" =>
         \/ <<id, "top">> \in todo
         \/ [extension |-> <<id, "top">>, requires |-> definition[id].requires] \in got

Lasting == TreeClosed /\ stable \subseteq Entries
CInv == Lasting /\ Complete /\ Counted /\ Kept /\ StableIsFound

LEMMA CInitially == Init => CInv
<1> SUFFICES ASSUME Init PROVE CInv
  OBVIOUS
<1> USE DEF Init, ReaderInit, TreeInit
<1>1. Lasting
  BY BucketFsAssumption DEF Lasting, TreeClosed
<1>2. Complete /\ Counted /\ Kept /\ StableIsFound
  BY DEF Complete, Counted, Kept, StableIsFound
<1> QED
  BY <1>1, <1>2 DEF CInv

(* What is known of a file that stays.                                      *)
LEMMA Staying ==
  ASSUME TypeOK, Walks, Lasting, NEW e \in VisibleIn(stable)
  PROVE  /\ e.path \in Files /\ e = [path |-> e.path, size |-> tree[e.path]]
         /\ \A p \in Up(e.path) : Present(p)
         /\ \A d \in Up(e.path) : d # e.path => Visible[d]
<1>1. e \in Entries /\ Visible[Parent[e.path]]
  BY DEF VisibleIn, Lasting
<1>2. e.path \in Files /\ tree[e.path] = e.size /\ e.size \in Sizes
  BY <1>1 DEF Entries, Entry
<1>3. e = [path |-> e.path, size |-> tree[e.path]]
  BY <1>1, <1>2 DEF Entries, Entry
<1>4. Present(e.path)
  BY <1>2, BucketFsAssumption DEF Present
<1> QED
  BY <1>1, <1>2, <1>3, <1>4, UpPresent, UpVisible DEF Lasting, Walks

(* How the innermost generator leads on.                                    *)
LEMMA ReadLeads ==
  ASSUME TypeOK, Walks, Lasting, Top \in GoodFrames, ~Top.open,
         NEW e \in VisibleIn(stable), Leads(Top, e.path)
  PROVE  /\ Kind[Top.dir] # "locked"
         /\ Leads([Top EXCEPT !.open = TRUE, !.todo = Children(Top.dir)], e.path)
<1> DEFINE f == e.path
           new == [Top EXCEPT !.open = TRUE, !.todo = Children(Top.dir)]
<1>1. Top.dir \in Directories /\ Top.dir \in Up(f)
  BY DEF Leads, GoodFrames, Frame
<1>2. f \in Files /\ Top.dir # f
  BY <1>1, Staying, BucketFsAssumption
<1>3. Visible[Top.dir]
  BY <1>1, <1>2, Staying
<1>4. Kind[Top.dir] # "locked"
  BY <1>1, <1>3, VisibleAssumption
<1>5. PICK c \in Up(f) : c # Root /\ Parent[c] = Top.dir
  BY <1>1, <1>2, UpChild
<1>6. c \in DOMAIN Parent /\ Present(c)
  BY <1>2, <1>5, UpContains, Staying, BucketFsAssumption DEF Nodes
<1>7. c \in Children(Top.dir)
  BY <1>5, <1>6 DEF Children
<1>8. new.todo = Children(Top.dir)
  BY DEF GoodFrames, Frame
<1> QED
  BY <1>4, <1>5, <1>7, <1>8 DEF Leads

LEMMA SkipLeads ==
  ASSUME Top \in GoodFrames, NEW p \in Top.todo, NEW f, Leads(Top, f), p \notin Up(f)
  PROVE  Leads(Skip(p), f)
<1>1. Top.open /\ Top.todo \cap Up(f) # {}
  BY DEF Leads, GoodFrames
<1>2. Skip(p).todo = Top.todo \ {p}
  BY DEF Skip, GoodFrames, Frame
<1> QED
  BY <1>1, <1>2 DEF Leads

LEMMA EnterLeads ==
  ASSUME TypeOK, Walks, Lasting, Top \in GoodFrames, NEW d \in Directories, d \in Top.todo,
         NEW e \in VisibleIn(stable), d \in Up(e.path)
  PROVE  Kind[d] # "container" /\ Leads(NewFrame(d), e.path)
<1>1. d # e.path /\ d # Root
  BY Staying, BucketFsAssumption DEF GoodFrames
<1>2. Visible[d]
  BY <1>1, Staying
<1>3. Kind[d] = "plain"
  BY <1>1, <1>2, VisibleAssumption
<1> QED
  BY <1>3 DEF Leads, NewFrame

----------------------------------------------------------------------------
(* The innermost generator is replaced, with one in front of it or none.    *)
LEMMA ReplacedLeads ==
  ASSUME Walks, stack # <<>>, NEW frame \in GoodFrames, NEW f,
         Leads(Top, f) => Leads(frame, f), Some(stack, f)
  PROVE  Some(<<frame>> \o Tail(stack), f)
<1>1. stack \in Seq(Frame) /\ Tail(stack) \in Seq(Frame) /\ <<frame>> \in Seq(Frame)
  BY TopIsGood, GoodFrameTypes, SeqMonotonic DEF Walks
<1>2. Leads(Top, f) \/ Some(Tail(stack), f)
  BY <1>1, SomeInRest DEF Top
<1>3. Some(<<frame>> \o Tail(stack), f) <=> Some(<<frame>>, f) \/ Some(Tail(stack), f)
  BY <1>1, SomeInConcat
<1> QED
  BY <1>2, <1>3, SomeInOne

LEMMA LeftLeads ==
  ASSUME Walks, stack # <<>>, NEW f, ~Leads(Top, f), Some(stack, f)
  PROVE  Some(Tail(stack), f)
<1>1. stack \in Seq(Frame)
  BY GoodFrameTypes, SeqMonotonic DEF Walks
<1> QED
  BY <1>1, SomeInRest DEF Top

(* Every step of the walk keeps its way to each file that stays.            *)
LEMMA ReadDirectoryKeeps ==
  ASSUME TypeOK, Walks, Lasting, ReadDirectory, NEW e \in VisibleIn(stable), Some(stack, e.path)
  PROVE  Some(stack', e.path)
<1> USE DEF ReadDirectory
<1>1. Top \in GoodFrames
  BY TopIsGood
<1>2. CASE Kind[Top.dir] = "locked"
  BY <1>1, <1>2, ReadLeads, LeftLeads
<1>3. CASE Kind[Top.dir] # "locked"
  <2> DEFINE new == [Top EXCEPT !.open = TRUE, !.todo = Children(Top.dir)]
  <2>1. new \in GoodFrames
    BY <1>1, <1>3, ReadIsGood DEF TypeOK, TreeTypeOK
  <2>2. Leads(Top, e.path) => Leads(new, e.path)
    BY <1>1, ReadLeads
  <2>3. stack' = <<new>> \o Tail(stack)
    BY <1>3 DEF Replace
  <2> HIDE DEF new
  <2> QED
    BY <2>1, <2>2, <2>3, ReplacedLeads
<1> QED
  BY <1>2, <1>3

LEMMA EmitFileKeeps ==
  ASSUME TypeOK, Walks, Lasting, NEW g \in Files, EmitFile(g),
         NEW e \in VisibleIn(stable), Some(stack, e.path)
  PROVE  e \in rows' \/ Some(stack', e.path)
<1> USE DEF EmitFile
<1>1. Top \in GoodFrames /\ Skip(g) \in GoodFrames
  BY TopIsGood, SkippedIsGood
<1>2. e.path \in Files /\ e = [path |-> e.path, size |-> tree[e.path]]
  BY Staying
<1>3. CASE g = e.path
  BY <1>2, <1>3
<1>4. CASE g # e.path
  <2>1. g \notin Up(e.path)
    BY <1>2, <1>4, UpFiles, BucketFsAssumption
  <2>2. Leads(Top, e.path) => Leads(Skip(g), e.path)
    BY <1>1, <2>1, SkipLeads
  <2> QED
    BY <1>1, <2>2, ReplacedLeads DEF Replace
<1> QED
  BY <1>3, <1>4

LEMMA SkipVanishedKeeps ==
  ASSUME TypeOK, Walks, Lasting, NEW p, SkipVanished(p),
         NEW e \in VisibleIn(stable), Some(stack, e.path)
  PROVE  Some(stack', e.path)
<1> USE DEF SkipVanished
<1>1. Top \in GoodFrames /\ Skip(p) \in GoodFrames
  BY TopIsGood, SkippedIsGood
<1>2. p \notin Up(e.path)
  BY Staying
<1>3. Leads(Top, e.path) => Leads(Skip(p), e.path)
  BY <1>1, <1>2, SkipLeads
<1> QED
  BY <1>1, <1>3, ReplacedLeads DEF Replace

LEMMA LeaveDirectoryKeeps ==
  ASSUME Walks, LeaveDirectory, NEW f, Some(stack, f)
  PROVE  Some(stack', f)
<1>1. ~Leads(Top, f)
  BY DEF LeaveDirectory, Leads
<1> QED
  BY <1>1, LeftLeads DEF LeaveDirectory

LEMMA EnterDirectoryKeeps ==
  ASSUME TypeOK, Walks, Lasting, NEW d \in Directories, EnterDirectory(d),
         NEW e \in VisibleIn(stable), Some(stack, e.path)
  PROVE  Some(stack', e.path)
<1> USE DEF EnterDirectory
<1> DEFINE f == e.path
           front == IF Kind[d] = "container" THEN <<>> ELSE <<NewFrame(d)>>
           rest == <<Skip(d)>> \o Tail(stack)
<1>1. Top \in GoodFrames /\ Skip(d) \in GoodFrames /\ Tail(stack) \in Seq(GoodFrames)
  BY TopIsGood, SkippedIsGood
<1>2. front \in Seq(Frame)
  <2>1. Kind[d] # "container" => NewFrame(d) \in Frame
    BY <1>1, EnteredIsGood, GoodFrameTypes
  <2> QED
    BY <2>1, EmptySeq
<1>3. <<Skip(d)>> \in Seq(Frame) /\ Tail(stack) \in Seq(Frame) /\ rest \in Seq(Frame)
  BY <1>1, GoodFrameTypes, SeqMonotonic, Pushed
<1>4. stack' = front \o rest
  BY <1>2, <1>3, ConcatAssociative
<1>5. Some(front \o rest, f) <=> Some(front, f) \/ Some(rest, f)
  BY <1>2, <1>3, SomeInConcat
<1>6. CASE d \in Up(f)
  <2>1. Kind[d] # "container" /\ Leads(NewFrame(d), f)
    BY <1>1, <1>6, EnterLeads
  <2>2. Some(front, f)
    BY <2>1, SomeInOne
  <2> QED
    BY <1>4, <1>5, <2>2
<1>7. CASE d \notin Up(f)
  <2>1. Leads(Top, f) => Leads(Skip(d), f)
    BY <1>1, <1>7, SkipLeads
  <2>2. Some(rest, f)
    BY <1>1, <2>1, ReplacedLeads
  <2> QED
    BY <1>4, <1>5, <2>2
<1> QED
  BY <1>6, <1>7

----------------------------------------------------------------------------
LEMMA KeepsComplete ==
  ASSUME Reading, Complete, Walking, rows \subseteq rows', UNCHANGED <<readerVars, treeVars>>,
         \A e \in VisibleIn(stable) :
           Some(stack, e.path) => e \in rows' \/ Some(stack', e.path)
  PROVE  Complete' /\ Counted'
<1>1. pc = "execute" /\ reader \in WalksTree /\ outcome = "none"
  BY DEF Walking, Reading
<1>2. VisibleIn(stable)' = VisibleIn(stable)
  BY DEF VisibleIn
<1>3. \A e \in VisibleIn(stable) : e \in rows' \/ Some(stack, e.path)'
  <2> SUFFICES ASSUME NEW e \in VisibleIn(stable), e \notin rows'
               PROVE  Some(stack, e.path)'
    OBVIOUS
  <2>1. Some(stack', e.path)
    BY <1>1 DEF Complete, Pending
  <2> QED
    BY <2>1 DEF Some, Leads, Up, Closed, Nodes
<1>4. Complete'
  BY <1>1, <1>2, <1>3 DEF Complete, Pending
<1>5. Counted'
  BY <1>1 DEF Counted
<1> QED
  BY <1>4, <1>5

(* The end of the walk: all that stays has been emitted, and is counted.    *)
LEMMA WalkedKeeps ==
  ASSUME Reading, Walks, Complete, Walked
  PROVE  Complete' /\ Counted'
<1> DEFINE n == IF reader = "path" /\ Found # {} THEN 1 ELSE Cardinality(Found)
<1>1. /\ pc = "execute" /\ reader \in WalksTree /\ stack = <<>>
      /\ size' = n /\ read' = 0 /\ pc' = "next"
      /\ UNCHANGED <<reader, outcome, walkVars, treeVars, fault, changes>>
  BY DEF Walked, Walking, Execute
<1>2. \A e \in VisibleIn(stable) : e \in rows
  BY <1>1, NoneInEmpty DEF Complete, Pending
<1>3. Complete'
  BY <1>1, <1>2 DEF Complete, VisibleIn
<1>4. Found' = Found
  BY <1>1 DEF Found
<1>5. reader = "files" => size' = Cardinality(rows)
  BY <1>1 DEF Found
<1>6. reader = "path" /\ size' = 0 => Found = {}
  BY <1>1
<1>7. outcome = "none"
  BY <1>1 DEF Reading
<1> QED
  BY <1>1, <1>3, <1>4, <1>5, <1>6, <1>7 DEF Counted

(* The rows are read: a result that is accepted is the whole walk.          *)
LEMMA ReadRowsKeeps ==
  ASSUME ReaderTypeOK, Reading, Complete, Counted, ReadRows
  PROVE  Complete' /\ Counted'
<1>1. pc \in {"next", "check"} /\ outcome = "none"
  BY DEF ReadRows, Break, NextRow, NextEnds, ReportError, Accept, Reading
<1>2. UNCHANGED <<reader, size, walkVars, treeVars, fault, changes>>
  BY DEF ReadRows, Break, NextRow, NextEnds, ReportError, Accept
<1>3. Found' = Found /\ VisibleIn(stable)' = VisibleIn(stable)
  BY <1>2 DEF Found, VisibleIn
<1>4. reader \in WalksTree => \A e \in VisibleIn(stable) : e \in rows
  BY <1>1 DEF Complete, Pending
<1>5. Complete'
  BY <1>2, <1>3, <1>4 DEF Complete
<1>6. Counted'
  <2> USE DEF Counted
  <2>1. CASE Break
    BY <1>1, <1>2, <1>3, <2>1 DEF Break
  <2>2. CASE NextRow
    BY <1>1, <1>2, <1>3, <2>2 DEF NextRow, Finish, SingleRow
  <2>3. CASE NextEnds
    BY <1>1, <1>2, <1>3, <2>3 DEF NextEnds
  <2>4. CASE ReportError
    BY <1>1, <1>2, <1>3, <2>4 DEF ReportError, Finish
  <2>5. CASE Accept
    <3>1. pc = "check" /\ read' = read /\ cursor' = cursor
      BY <2>5 DEF Accept
    <3>2. pc' \in {"execute", "idle"}
      BY <2>5 DEF Accept, Finish
    <3>3. reader = "files" /\ ~dropped' => read = Cardinality(rows)
      <4>1. reader = "files" => size = Cardinality(rows)
        BY <3>1
      <4>2. ~dropped' => ~(read < size)
        BY <2>5 DEF Accept
      <4>3. read <= size /\ read \in Nat /\ size \in Nat
        BY DEF ReaderTypeOK
      <4> QED
        BY <4>1, <4>2, <4>3
    <3>4. reader = "path" => Found = {}
      <4>1. reader = "path" => cursor = "open"
        BY <2>5 DEF Accept, AsksForError
      <4>2. cursor = "open" => read = size
        BY <3>1 DEF Reading
      <4>3. reader = "path" => read = 0 /\ (size = 0 => Found = {})
        BY <3>1
      <4> QED
        BY <4>1, <4>2, <4>3
    <3> QED
      BY <1>2, <1>3, <3>1, <3>2, <3>3, <3>4
  <2> QED
    BY <2>1, <2>2, <2>3, <2>4, <2>5 DEF ReadRows
<1> QED
  BY <1>5, <1>6

LEMMA QueryKeeps ==
  ASSUME TypeOK, Query
  PROVE  Complete' /\ Counted'
<1>1. pc' = "execute" /\ reader' = reader /\ outcome' = "none"
  BY DEF Query, Call
<1>2. ASSUME reader \in WalksTree, NEW e \in VisibleIn(stable)'
      PROVE  Some(stack, e.path)'
  <2>1. e \in stable /\ stack' = <<NewFrame(Root)>>
    BY <1>2 DEF VisibleIn, Query
  <2>2. e.path \in Files
    BY <2>1 DEF TypeOK, TreeTypeOK, Entry
  <2>3. Leads(NewFrame(Root), e.path)
    BY <2>2, RootIsUp DEF Leads, NewFrame
  <2>4. Some(stack', e.path)
    BY <2>1, <2>3, SomeInOne
  <2> QED
    BY <2>4 DEF Some, Leads, Up, Closed, Nodes
<1> QED
  BY <1>1, <1>2 DEF Complete, Pending, Counted

LEMMA WalkKeeps ==
  ASSUME TypeOK, Reading, Walks, Lasting, Complete, Counted, Walk
  PROVE  Complete' /\ Counted' /\ Lasting'
<1>1. Lasting'
  <2>1. UNCHANGED treeVars
    BY WalkStep
  <2> QED
    BY <2>1 DEF Lasting, TreeClosed, Present, Entries
<1> SUFFICES Complete' /\ Counted'
  BY <1>1
<1>2. CASE Query
  BY <1>2, QueryKeeps
<1>3. CASE ReadDirectory
  BY <1>3, ReadDirectoryKeeps, KeepsComplete DEF ReadDirectory
<1>4. CASE ReadDirectoryFails
  BY <1>4 DEF ReadDirectoryFails, ExecuteFails, Finish, Complete, Counted
<1>5. CASE \E f \in Files : EmitFile(f)
  <2>1. PICK f \in Files : EmitFile(f)
    BY <1>5
  <2> QED
    BY <2>1, EmitFileKeeps, KeepsComplete DEF EmitFile
<1>6. CASE \E d \in Directories : EnterDirectory(d)
  <2>1. PICK d \in Directories : EnterDirectory(d)
    BY <1>6
  <2> QED
    BY <2>1, EnterDirectoryKeeps, KeepsComplete DEF EnterDirectory
<1>7. CASE \E p \in Directories \cup Files : SkipVanished(p)
  <2>1. PICK p \in Directories \cup Files : SkipVanished(p)
    BY <1>7
  <2> QED
    BY <2>1, SkipVanishedKeeps, KeepsComplete DEF SkipVanished
<1>8. CASE LeaveDirectory
  BY <1>8, LeaveDirectoryKeeps, KeepsComplete DEF LeaveDirectory
<1>9. CASE Walked
  BY <1>9, WalkedKeeps
<1>10. CASE \E n \in 0..MaxRows : ExecuteQuery(n)
  BY <1>10 DEF ExecuteQuery, Execute, Complete, Counted, WalksTree
<1>11. CASE ReadRows
  BY <1>11, ReadRowsKeeps DEF TypeOK, TreeTypeOK
<1>12. CASE ReaderFails
  BY <1>12 DEF ReaderFails, ExecuteFails, ScanFails, Finish, Complete, Counted
<1> QED
  BY <1>2, <1>3, <1>4, <1>5, <1>6, <1>7, <1>8, <1>9, <1>10, <1>11, <1>12 DEF Walk

----------------------------------------------------------------------------
(* What comes and goes beside a file that stays.                            *)
LEMMA ChangeFileKeeps ==
  ASSUME IInv, CInv, NEW f \in Files, ChangeFile(f), UNCHANGED <<listVars, registryVars>>
  PROVE  CInv'
<1> USE DEF ChangeFile
<1>1. pc = "execute" /\ outcome = "none" /\ stage = "files" /\ reply = "none"
  BY DEF Walking, IInv, Reading, Loading, CInv, Kept
<1>2. PICK s : tree' = [tree EXCEPT ![f] = s]
  OBVIOUS
<1>3. DOMAIN tree = Files
  BY DEF IInv, TypeOK, TreeTypeOK
<1>4. TreeClosed'
  <2> SUFFICES ASSUME NEW p \in DOMAIN Parent, Present(p)' PROVE Parent[p] \in dirs
    BY DEF TreeClosed
  <2>1. CASE p = f
    BY <2>1
  <2>2. CASE p # f
    <3>1. Present(p)
      BY <1>2, <1>3, <2>2 DEF Present
    <3> QED
      BY <3>1 DEF CInv, Lasting, TreeClosed
  <2> QED
    BY <2>1, <2>2
<1>5. stable' \subseteq Entries'
  BY <1>2, <1>3 DEF CInv, Lasting, Entries, Entry
<1>6. Complete'
  <2>1. VisibleIn(stable)' \subseteq VisibleIn(stable)
    BY DEF VisibleIn
  <2>2. \A g : Some(stack, g)' = Some(stack, g)
    BY DEF Some, Leads, Up, Closed, Nodes
  <2> QED
    BY <1>1, <2>1, <2>2 DEF CInv, Complete, Pending
<1>7. Counted' /\ Kept' /\ StableIsFound'
  BY <1>1 DEF Counted, Kept, StableIsFound
<1> QED
  BY <1>4, <1>5, <1>6, <1>7 DEF CInv, Lasting

LEMMA ChangeDirectoryKeeps ==
  ASSUME IInv, CInv, NEW d \in Directories, ChangeDirectory(d), UNCHANGED <<listVars, registryVars>>
  PROVE  CInv'
<1> USE DEF ChangeDirectory
<1>1. pc = "execute" /\ outcome = "none" /\ stage = "files" /\ reply = "none"
  BY DEF Walking, IInv, Reading, Loading, CInv, Kept
<1>2. TreeClosed'
  <2> SUFFICES ASSUME NEW p \in DOMAIN Parent, Present(p)' PROVE Parent[p] \in dirs'
    BY DEF TreeClosed
  <2>1. CASE d \in dirs /\ Children(d) = {} /\ dirs' = dirs \ {d}
    <3>1. Present(p)
      BY <2>1 DEF Present
    <3>2. Parent[p] \in dirs /\ Parent[p] # d
      BY <2>1, <3>1 DEF CInv, Lasting, TreeClosed, Children
    <3> QED
      BY <2>1, <3>2
  <2>2. CASE Parent[d] \in dirs /\ dirs' = dirs \cup {d}
    <3>1. CASE p = d
      BY <2>2, <3>1
    <3>2. CASE p # d
      <4>1. Present(p)
        BY <2>2, <3>2 DEF Present
      <4> QED
        BY <2>2, <4>1 DEF CInv, Lasting, TreeClosed
    <3> QED
      BY <3>1, <3>2
  <2> QED
    BY <2>1, <2>2
<1>3. stable' \subseteq Entries'
  BY DEF CInv, Lasting, Entries
<1>4. Complete'
  <2>1. \A g : Some(stack, g)' = Some(stack, g)
    BY DEF Some, Leads, Up, Closed, Nodes
  <2> QED
    BY <1>1, <2>1 DEF CInv, Complete, Pending, VisibleIn
<1>5. Counted' /\ Kept' /\ StableIsFound'
  BY <1>1 DEF Counted, Kept, StableIsFound
<1> QED
  BY <1>2, <1>3, <1>4, <1>5 DEF CInv, Lasting

----------------------------------------------------------------------------
(* The steps of the controller leave the walk.                              *)
LEMMA ControllerKeeps ==
  ASSUME CInv, UNCHANGED <<readerVars, walkVars, treeVars>>
  PROVE  Lasting' /\ Complete' /\ Counted'
<1>1. Lasting'
  BY DEF CInv, Lasting, TreeClosed, Present, Entries
<1>2. \A g : Some(stack, g)' = Some(stack, g)
  BY DEF Some, Leads, Up, Closed, Nodes
<1>3. Complete'
  BY <1>2 DEF CInv, Complete, Pending, VisibleIn
<1>4. Counted'
  BY DEF CInv, Counted, Found
<1> QED
  BY <1>1, <1>3, <1>4

LEMMA ListFilesKeeps ==
  ASSUME IInv, CInv, ListFiles
  PROVE  CInv'
<1> USE DEF ListFiles
<1>1. Lasting' /\ Complete' /\ Counted'
  BY WalkKeeps DEF IInv, CInv
<1>2. stage = "files" /\ reply = "none"
  BY DEF IInv, Loading
<1>3. Kept'
  BY <1>2 DEF Kept
<1>4. StableIsFound'
  <2> SUFFICES ASSUME (reader = "path" /\ outcome = "absent")', NEW e \in VisibleIn(stable)'
               PROVE  Name[e.path] # Wanted
    BY <1>2 DEF StableIsFound
  <2>1. IInv'
    BY ListFilesStep
  <2>2. pc' = "idle"
    BY <2>1 DEF IInv, Reading
  <2>3. e \in rows'
    BY <1>1, <2>2 DEF Complete, WalksTree, Pending
  <2>4. Found' = {}
    BY <1>1 DEF Counted
  <2> QED
    BY <2>3, <2>4 DEF Found
<1> QED
  BY <1>1, <1>3, <1>4 DEF CInv

(* What the filter is given is what the walk has found.                     *)
LEMMA FilterExtensionsKeeps ==
  ASSUME IInv, CInv, FilterExtensions
  PROVE  CInv'
<1> USE DEF FilterExtensions, Reply
<1>1. Lasting' /\ Complete' /\ Counted'
  BY ControllerKeeps
<1>2. reader = "files" /\ outcome = "ok" /\ pc = "idle"
  BY DEF CInv, Kept
<1>3. Kept'
  BY <1>2 DEF Kept
<1>4. PICK F \in SUBSET rows :
        /\ Cardinality(F) = read
        /\ listed' = {g.extension : g \in {h \in got : RequiredFilesAvailable(h.requires, F)}}
  OBVIOUS
<1>5. ASSUME ~dropped, ~fault, NEW id \in steady, definition[id].state = "loads",
             Met(definition[id].requires, VisibleIn(stable))
      PROVE  <<id, "top">> \in listed'
  <2> DEFINE g == [extension |-> <<id, "top">>, requires |-> definition[id].requires]
  <2>1. g \in got
    BY <1>5 DEF CInv, Kept
  <2>2. F = rows
    <3>1. Cardinality(F) = Cardinality(rows)
      BY <1>2, <1>4, <1>5 DEF CInv, Counted
    <3> QED
      BY <3>1, FS_Subset DEF IInv, Walks
  <2>3. VisibleIn(stable) \subseteq F
    BY <1>2, <2>2 DEF CInv, Complete, WalksTree, Pending
  <2>4. ASSUME NEW r \in g.requires PROVE \E e \in F : FileMatches(r, e)
    <3>1. PICK e \in VisibleIn(stable) : Name[e.path] = r.name /\ r.size \in {-1, e.size}
      BY <1>5, <2>4 DEF Met
    <3>2. r.size < 0 \/ r.size = e.size
      BY <3>1
    <3> QED
      BY <2>3, <3>1, <3>2 DEF FileMatches
  <2>5. RequiredFilesAvailable(g.requires, F)
    BY <2>4 DEF RequiredFilesAvailable
  <2>6. g.extension \in listed'
    BY <1>4, <2>1, <2>5
  <2> QED
    BY <2>6
<1>6. StableIsFound'
  BY <1>2, <1>5 DEF StableIsFound, Met, VisibleIn
<1> QED
  BY <1>1, <1>3, <1>6 DEF CInv

LEMMA OtherStepsKeep ==
  ASSUME IInv, CInv,
         \/ ListFilesEnds \/ FindExtensions \/ FindExtensionsFails
         \/ \E e \in Ids \X {"top", "nested"} : LoadExtension(e) \/ LoadExtensionFails(e)
         \/ \E id \in Ids : ChangeDefinition(id)
         \/ UNCHANGED vars
  PROVE  CInv'
<1>1. UNCHANGED <<readerVars, walkVars, treeVars>>
  BY DEF ListFilesEnds, FindExtensions, FindExtensionsFails, LoadExtension, LoadExtensionFails,
         ChangeDefinition
<1>2. Lasting' /\ Complete' /\ Counted'
  BY <1>1, ControllerKeeps
<1>3. Kept'
  <2> USE DEF Kept, CInv
  <2>1. CASE ListFilesEnds
    BY <2>1 DEF ListFilesEnds, Reply, IInv, Reading, Loading
  <2>2. CASE FindExtensions
    BY <2>2 DEF FindExtensions, IInv, TypeOK, Content, Loading
  <2>3. CASE FindExtensionsFails
    BY <2>3 DEF FindExtensionsFails, IInv, Loading
  <2>4. ASSUME NEW e \in Ids \X {"top", "nested"}, LoadExtension(e)
        PROVE  Kept'
    BY <2>4 DEF LoadExtension, IInv, Loading
  <2>5. ASSUME NEW e \in Ids \X {"top", "nested"}, LoadExtensionFails(e)
        PROVE  Kept'
    BY <2>5 DEF LoadExtensionFails, Reply
  <2>6. ASSUME NEW id \in Ids, ChangeDefinition(id)
        PROVE  Kept'
    BY <2>6 DEF ChangeDefinition, IInv, TypeOK
  <2>7. CASE UNCHANGED vars
    BY <2>7
  <2> QED
    BY <2>1, <2>2, <2>3, <2>4, <2>5, <2>6, <2>7
<1>4. VisibleIn(stable)' = VisibleIn(stable)
  BY <1>1 DEF VisibleIn
<1>5. reply' # "ok" \/ UNCHANGED <<reply, listed, definition, steady, fault>>
  BY DEF ListFilesEnds, FindExtensions, FindExtensionsFails, LoadExtension, LoadExtensionFails,
         ChangeDefinition, Reply, IInv, Loading
<1>6. StableIsFound'
  BY <1>1, <1>4, <1>5 DEF CInv, StableIsFound, Met
<1> QED
  BY <1>2, <1>3, <1>6 DEF CInv

LEMMA CPreserved == IInv /\ CInv /\ [Next]_vars => CInv'
<1> SUFFICES ASSUME IInv, CInv, [Next]_vars PROVE CInv'
  OBVIOUS
<1>1. CASE ListStep
  BY <1>1, ListFilesKeeps, FilterExtensionsKeeps, OtherStepsKeep DEF ListStep
<1>2. CASE Environment
  BY <1>2, ChangeFileKeeps, ChangeDirectoryKeeps, OtherStepsKeep DEF Environment, ChangeTree
<1> QED
  BY <1>1, <1>2, OtherStepsKeep DEF Next

----------------------------------------------------------------------------
(* Whatever comes and goes beside them, an extension that stays in the       *)
(* registry, and whose required files stay in BucketFS, is in the list, and  *)
(* FindAbsolutePath says of no file that stays that there is none.           *)
THEOREM NothingStableIsMissed == Spec => []StableIsFound
<1>1. CInv => StableIsFound
  BY DEF CInv
<1> QED
  BY <1>1, CInitially, CPreserved, Invariance, PTL DEF Spec

----------------------------------------------------------------------------
(* What a request finds when nothing comes or goes while it runs.           *)
FoundAtOnce ==
  {e \in Ids \X {"top", "nested"} :
     IF e[2] = "nested" THEN e[1] \in Nested ELSE definition[e[1]].state # "absent"}
Installable(id) ==
  definition[id].state = "loads" /\ Met(definition[id].requires, VisibleIn(Entries))

(* Such a request lists exactly what is found and can be installed, and it   *)
(* succeeds only when every definition loads; it fails only when one does    *)
(* not, or when a reader was told that its rows could not be read.           *)
ListIsExact ==
  changes = MaxChanges /\ ~fault /\ ~dropped =>
    /\ reply = "ok" => listed = {e \in FoundAtOnce : Installable(e[1])}
    /\ reply = "ok" => \A e \in FoundAtOnce : definition[e[1]].state = "loads"
    /\ reply \in {"notFound", "error"} =>
         cursor = "failed" \/ \E e \in FoundAtOnce : definition[e[1]].state # "loads"

(* Until something changes everything is as it was when the request came,   *)
(* and what has been found is still to be loaded, or was loaded as it is.   *)
AsItBegan ==
  changes = MaxChanges =>
    /\ stable = Entries /\ seen = Entries /\ steady = Ids /\ ~removed
    /\ \A g \in got : definition[g.extension[1]] = [state |-> "loads", requires |-> g.requires]
    /\ todo \subseteq FoundAtOnce
    /\ stage = "load" /\ ~fault => FoundAtOnce = todo \cup {g.extension : g \in got}

EInv == AsItBegan /\ ListIsExact

LEMMA EInitially == Init => EInv
BY DEF Init, TreeInit, EInv, AsItBegan, ListIsExact

(* A size that is not negative is a size of a file.                         *)
LEMMA MetIsAvailable ==
  ASSUME NEW R \in Requirements, NEW F \in SUBSET Entry
  PROVE  RequiredFilesAvailable(R, F) <=> Met(R, F)
<1>1. \A r \in R, e \in F : r.size < 0 \/ r.size = e.size <=> r.size \in {-1, e.size}
  BY AvailableExtensionsAssumption, BucketFsAssumption DEF Entry
<1>2. \A r \in R, e \in F : FileMatches(r, e) <=> Name[e.path] = r.name /\ r.size \in {-1, e.size}
  BY <1>1 DEF FileMatches
<1> QED
  BY <1>2 DEF RequiredFilesAvailable, Met

(* The filter is given the files that are there, all of them.               *)
LEMMA FilterIsExact ==
  ASSUME IInv, CInv, EInv, FilterExtensions
  PROVE  ListIsExact'
<1> USE DEF FilterExtensions, Reply
<1> SUFFICES ASSUME changes = MaxChanges, ~fault, ~dropped
             PROVE  /\ listed' = {e \in FoundAtOnce : Installable(e[1])}
                    /\ \A e \in FoundAtOnce : definition[e[1]].state = "loads"
  BY DEF ListIsExact, FoundAtOnce, Installable, Met, VisibleIn, Entries
<1>1. /\ stable = Entries /\ seen = Entries
      /\ \A g \in got : definition[g.extension[1]] = [state |-> "loads", requires |-> g.requires]
      /\ FoundAtOnce = {g.extension : g \in got}
  BY DEF EInv, AsItBegan
<1>2. PICK F \in SUBSET rows :
        /\ Cardinality(F) = read
        /\ listed' = {g.extension : g \in {h \in got : RequiredFilesAvailable(h.requires, F)}}
  OBVIOUS
<1>3. reader = "files" /\ outcome = "ok" /\ pc = "idle"
  BY DEF CInv, Kept
<1>4. F = rows
  <2>1. Cardinality(F) = Cardinality(rows)
    BY <1>2, <1>3 DEF CInv, Counted
  <2> QED
    BY <2>1, FS_Subset DEF IInv, Walks
<1>5. F = VisibleIn(Entries)
  <2>1. VisibleIn(stable) \subseteq rows
    BY <1>3 DEF CInv, Complete, WalksTree, Pending
  <2> QED
    BY <1>1, <1>4, <2>1 DEF IInv, Walks
<1>6. F \in SUBSET Entry
  BY <1>5 DEF VisibleIn, Entries
<1>7. ASSUME NEW g \in got
      PROVE  /\ RequiredFilesAvailable(g.requires, F) <=> Installable(g.extension[1])
             /\ definition[g.extension[1]].state = "loads"
  <2>1. g.requires \in Requirements
    BY DEF IInv, TypeOK
  <2>2. RequiredFilesAvailable(g.requires, F) <=> Met(g.requires, VisibleIn(Entries))
    BY <1>5, <1>6, <2>1, MetIsAvailable
  <2>3. definition[g.extension[1]] = [state |-> "loads", requires |-> g.requires]
    BY <1>1
  <2>4. definition[g.extension[1]].state = "loads" /\ definition[g.extension[1]].requires = g.requires
    BY <2>3
  <2> QED
    BY <2>2, <2>4 DEF Installable
<1>8. listed' = {e \in FoundAtOnce : Installable(e[1])}
  BY <1>1, <1>2, <1>7
<1> QED
  BY <1>1, <1>7, <1>8

LEMMA EPreserved == IInv /\ CInv /\ EInv /\ [Next]_vars => EInv'
<1> SUFFICES ASSUME IInv, CInv, EInv, [Next]_vars PROVE EInv'
  OBVIOUS
<1>1. changes \in Nat /\ MaxChanges \in Nat /\ changes <= MaxChanges
  BY BucketFsAssumption DEF IInv, TypeOK, TreeTypeOK
<1>2. CASE Environment
  <2>1. changes' = changes - 1
    BY <1>2 DEF Environment, ChangeTree, ChangeFile, ChangeDirectory, ChangeDefinition
  <2>2. changes' # MaxChanges
    BY <1>1, <2>1
  <2> QED
    BY <2>2 DEF EInv, AsItBegan, ListIsExact
<1>3. CASE ListFiles
  <2>1. UNCHANGED <<treeVars, changes, listVars, registryVars>>
    BY <1>3, WalkStep DEF ListFiles, IInv
  <2>2. Entries' = Entries /\ FoundAtOnce' = FoundAtOnce
    BY <2>1 DEF Entries, FoundAtOnce
  <2>3. stage = "files" /\ reply = "none"
    BY <1>3 DEF ListFiles, IInv, Loading
  <2> QED
    BY <2>1, <2>2, <2>3 DEF EInv, AsItBegan, ListIsExact
<1>4. ASSUME UNCHANGED <<treeVars, definition>>
      PROVE  Entries' = Entries /\ FoundAtOnce' = FoundAtOnce
  BY <1>4 DEF Entries, FoundAtOnce
<1>5. CASE ListFilesEnds
  <2>1. AsItBegan'
    BY <1>4, <1>5 DEF ListFilesEnds, Reply, EInv, AsItBegan
  <2>2. reply' \in {"none", "error", "other"}
    BY <1>5 DEF ListFilesEnds, Reply, IInv, Loading
  <2>3. reply' = "error" => fault \/ removed \/ cursor = "failed"
    BY <1>5 DEF ListFilesEnds, Reply, IInv, Loading, Reading
  <2>4. ListIsExact'
    BY <1>5, <2>1, <2>2, <2>3 DEF ListFilesEnds, ListIsExact, AsItBegan
  <2> QED
    BY <2>1, <2>4 DEF EInv
<1>6. CASE FindExtensions
  <2>1. got = {} /\ reply = "none"
    BY <1>6 DEF FindExtensions, IInv, Loading
  <2>2. todo' = FoundAtOnce
    BY <1>6, AvailableExtensionsAssumption DEF FindExtensions, FoundAtOnce
  <2> QED
    BY <1>4, <1>6, <2>1, <2>2 DEF FindExtensions, EInv, AsItBegan, ListIsExact
<1>7. CASE FindExtensionsFails
  BY <1>4, <1>7 DEF FindExtensionsFails, EInv, AsItBegan, ListIsExact
<1>8. ASSUME NEW e \in Ids \X {"top", "nested"}, LoadExtension(e)
      PROVE  EInv'
  <2> DEFINE new == [extension |-> e, requires |-> definition[e[1]].requires]
  <2>1. got' = got \cup {new} /\ todo' = todo \ {e} /\ e \in todo
    BY <1>8 DEF LoadExtension
  <2>2. definition[e[1]] = [state |-> "loads", requires |-> definition[e[1]].requires]
    BY <1>8 DEF LoadExtension, IInv, TypeOK, Content
  <2>3. todo' \cup {g.extension : g \in got'} = todo \cup {g.extension : g \in got}
    <3>1. {g.extension : g \in got'} = {g.extension : g \in got} \cup {new.extension}
      BY <2>1
    <3>2. new.extension = e
      OBVIOUS
    <3> QED
      BY <2>1, <3>1, <3>2, Zenon
  <2>4. UNCHANGED <<walkAndTree, changes, registryVars, stage, reply, listed>>
    BY <1>8 DEF LoadExtension
  <2>5. AsItBegan'
    BY <1>4, <2>1, <2>2, <2>3, <2>4 DEF EInv, AsItBegan
  <2>6. reply = "none"
    BY <1>8 DEF LoadExtension, IInv, Loading
  <2> QED
    BY <2>4, <2>5, <2>6 DEF EInv, ListIsExact
<1>9. ASSUME NEW e \in Ids \X {"top", "nested"}, LoadExtensionFails(e)
      PROVE  EInv'
  <2>1. UNCHANGED <<walkAndTree, changes, registryVars, todo, got, listed>> /\ stage' = "done"
    BY <1>9 DEF LoadExtensionFails, Reply
  <2>2. AsItBegan'
    BY <1>4, <2>1 DEF EInv, AsItBegan
  <2>3. e \in todo /\ definition[e[1]].state # "loads" /\ reply' # "ok"
    BY <1>9 DEF LoadExtensionFails, Reply
  <2>4. ListIsExact'
    BY <1>4, <2>1, <2>3 DEF EInv, AsItBegan, ListIsExact
  <2> QED
    BY <2>2, <2>4 DEF EInv
<1>10. CASE FilterExtensions
  <2>1. AsItBegan'
    BY <1>4, <1>10 DEF FilterExtensions, Reply, EInv, AsItBegan
  <2> QED
    BY <1>10, <2>1, FilterIsExact DEF EInv
<1>11. CASE UNCHANGED vars
  BY <1>4, <1>11 DEF EInv, AsItBegan, ListIsExact, Installable, VisibleIn
<1> QED
  BY <1>2, <1>3, <1>5, <1>6, <1>7, <1>8, <1>9, <1>10, <1>11 DEF Next, ListStep

(* A list during which nothing comes or goes, and nothing fails, has exactly *)
(* the extensions that are found and whose required files are there; unlike  *)
(* OnlyUsableIsListed and NothingStableIsMissed together this also says when *)
(* there is no list: when some definition does not load.                     *)
THEOREM UndisturbedListsAreExact == Spec => []ListIsExact
<1>1. EInv => ListIsExact
  BY DEF EInv
<1> QED
  BY <1>1, CInitially, CPreserved, EInitially, EPreserved, Invariance, PTL DEF Spec

----------------------------------------------------------------------------
(* The readers by themselves, each called again and again, with any results. *)

(* What a reader returns says what it has read: one row; or a whole result,  *)
(* unless rows were dropped; or that there is no row, which is so unless     *)
(* the cursor failed and the reader did not ask.  No reader that asks for    *)
(* the error drops rows.                                                    *)
AnswersAreRead ==
  /\ outcome = "ok" => IF reader \in SingleRow THEN read = 1 ELSE dropped \/ read = size
  /\ outcome = "absent" =>
       /\ reader \in SingleRow /\ read = 0
       /\ size = 0 \/ (cursor = "failed" /\ reader \notin AsksForError)
  /\ dropped => reader \notin AsksForError

RInv ==
  /\ ReaderTypeOK /\ AnswersAreRead
  /\ pc = "check" /\ cursor = "open" => read = size
  /\ pc # "idle" => outcome = "none" /\ pending >= 1
  /\ pc \in {"next", "check"} /\ reader \in SingleRow => read = 0
  /\ reader \in SingleRow => pending <= 1

LEMMA ReadersInitially == ReaderInit => RInv
<1> SUFFICES ASSUME ReaderInit PROVE RInv
  OBVIOUS
<1>1. pc = "idle" /\ outcome = "none" /\ dropped = FALSE /\ pending = 0
  BY DEF ReaderInit
<1>2. size = 0 /\ read = 0
  BY DEF ReaderInit
<1>3. size \in Nat /\ read \in 0..size /\ pending \in 0..2
  BY <1>1, <1>2
<1>4. ReaderTypeOK
  BY <1>1, <1>3 DEF ReaderInit, ReaderTypeOK
<1> QED
  BY <1>1, <1>4 DEF RInv, AnswersAreRead

LEMMA ReadersPreserve == RInv /\ [ReaderNext]_readerVars => RInv'
<1> SUFFICES ASSUME RInv, [ReaderNext]_readerVars PROVE RInv'
  OBVIOUS
<1> USE DEF RInv, ReaderTypeOK, AnswersAreRead
<1>1. ASSUME NEW k \in Readers, Call(k) PROVE RInv'
  <2>1. pending' \in 1..2 /\ (k \in SingleRow => pending' = 1)
    BY <1>1 DEF Call, Statements, SingleRow
  <2>2. pc' = "execute" /\ reader' = k /\ link' = "up" /\ outcome' = "none" /\ dropped' = FALSE
    BY <1>1 DEF Call
  <2>3. size' = size /\ read' = read /\ cursor' = cursor
    BY <1>1 DEF Call
  <2>4. pending' \in 0..2 /\ pending' >= 1 /\ (k \in SingleRow => pending' <= 1)
    BY <2>1
  <2>5. ReaderTypeOK'
    BY <2>2, <2>3, <2>4, Zenon
  <2>6. AnswersAreRead'
    BY <2>2, Zenon
  <2> QED
    BY <2>2, <2>4, <2>5, <2>6
<1>2. ASSUME NEW n \in 0..MaxRows, Execute(n) PROVE RInv'
  BY <1>2, ResultSetsAssumption DEF Execute
<1>3. CASE ExecuteFails
  BY <1>3 DEF ExecuteFails, Finish
<1>4. CASE Break
  BY <1>4 DEF Break
<1>5. CASE NextRow
  BY <1>5 DEF NextRow, Finish
<1>6. CASE ScanFails
  BY <1>6 DEF ScanFails, Finish
<1>7. CASE NextEnds
  BY <1>7 DEF NextEnds
<1>8. CASE ReportError
  BY <1>8 DEF ReportError, Finish
<1>9. CASE Accept
  <2>1. pc = "check" /\ UNCHANGED <<reader, result, link>> /\ pending' = pending - 1
    BY <1>9 DEF Accept
  <2>2. dropped' = (dropped \/ read < size) /\ (reader \in AsksForError => cursor = "open")
    BY <1>9 DEF Accept
  <2>3. IF pending > 1 THEN pc' = "execute" /\ outcome' = outcome
        ELSE pc' = "idle" /\ outcome' = IF reader \in SingleRow THEN "absent" ELSE "ok"
    BY <1>9 DEF Accept, Finish
  <2>4. dropped' => reader \notin AsksForError
    BY <2>1, <2>2
  <2>5. reader \notin SingleRow => dropped' \/ read = size
    <3>1. read < size \/ read = size
      OBVIOUS
    <3> QED
      BY <2>2, <3>1, Zenon
  <2>6. reader \in SingleRow =>
          read = 0 /\ (size = 0 \/ (cursor = "failed" /\ reader \notin AsksForError))
    BY <2>1, <2>2
  <2>7. AnswersAreRead'
    BY <2>1, <2>3, <2>4, <2>5, <2>6
  <2>8. ReaderTypeOK'
    BY <2>1, <2>2, <2>3
  <2> QED
    BY <2>1, <2>3, <2>7, <2>8
<1>10. CASE UNCHANGED readerVars
  BY <1>10
<1> QED
  BY <1>1, <1>2, <1>3, <1>4, <1>5, <1>6, <1>7, <1>8, <1>9, <1>10 DEF ReaderNext

(* A reader that returns a script, a file or a result has read it, and one   *)
(* that says there is no row has been told so, or has not asked: what the    *)
(* run about GetScriptByName finds is the only way to be told otherwise.     *)
THEOREM ReadersAnswerWhatTheyRead ==
  ReaderSpec => [](AnswersAreRead /\ ReturnsAllRows)
<1>1. RInv => AnswersAreRead /\ ReturnsAllRows
  BY DEF RInv, AnswersAreRead, ReturnsAllRows
<1> QED
  BY <1>1, ReadersInitially, ReadersPreserve, PTL DEF ReaderSpec

----------------------------------------------------------------------------
(* The walk ends in every tree, whatever comes and goes, and so does the     *)
(* request: each of its steps leaves less to do.                            *)

(* The parents of a node form a chain.                                      *)
LEMMA UpSplits ==
  ASSUME NEW x \in Nodes \ {Root}
  PROVE  Parent[x] \in Nodes /\ Up(x) \subseteq {x} \cup Up(Parent[x])
<1> DEFINE S == {x} \cup Up(Parent[x])
<1>1. Parent[x] \in Nodes
  BY BucketFsAssumption DEF Nodes
<1>2. S \in SUBSET Nodes /\ Closed(S)
  BY <1>1, UpOfNodes DEF Closed
<1> QED
  BY <1>1, <1>2, UpOfNodes

LEMMA UpIsAcyclic ==
  ASSUME NEW c \in Nodes \ {Root}
  PROVE  c \notin Up(Parent[c])
<1> SUFFICES ASSUME c \in Up(Parent[c]) PROVE FALSE
  OBVIOUS
<1> DEFINE C == {x \in Up(c) : c \in Up(x)}
<1>1. C \in SUBSET Nodes /\ c \in C
  BY UpOfNodes
<1>2. ASSUME NEW x \in C \ {Root} PROVE Parent[x] \in C
  <2>1. Parent[x] \in Up(c)
    BY <1>2, UpOfNodes DEF Closed
  <2>2. x \in Nodes \ {Root} /\ c \in Up(x)
    BY <1>1, <1>2
  <2>3. x = c \/ c \in Up(Parent[x])
    BY <2>2, UpSplits
  <2> QED
    BY <2>1, <2>3
<1>3. Root \in C
  BY <1>1, <1>2, RootedAssumption DEF Nodes
<1>4. Root \in Nodes /\ Closed({Root})
  BY BucketFsAssumption DEF Nodes, Closed
<1>5. Up(Root) \subseteq {Root}
  BY <1>4, UpOfNodes
<1> QED
  BY <1>3, <1>5

LEMMA UpIsAChain ==
  ASSUME NEW x \in Nodes, NEW q \in Up(x) \ {Root}, NEW r \in Up(x) \ {Root},
         Parent[q] = Parent[r]
  PROVE  q = r
<1> DEFINE S == {y \in Up(x) : q \in Up(y) \/ y \in Up(q)}
<1>1. S \in SUBSET Nodes /\ q \in Nodes \ {Root} /\ r \in Nodes \ {Root}
  BY UpOfNodes
<1>2. ASSUME NEW y \in S \ {Root} PROVE Parent[y] \in S
  <2>1. Parent[y] \in Up(x) /\ y \in Nodes \ {Root}
    BY <1>1, <1>2, UpOfNodes DEF Closed
  <2>2. CASE y \in Up(q)
    <3>1. Parent[y] \in Up(q)
      BY <1>1, <1>2, <2>2, UpOfNodes DEF Closed
    <3> QED
      BY <2>1, <3>1
  <2>3. CASE y \notin Up(q)
    <3>1. q \in Up(y) /\ y # q
      BY <1>1, <1>2, <2>3, UpOfNodes
    <3>2. q \in Up(Parent[y])
      BY <2>1, <3>1, UpSplits
    <3> QED
      BY <2>1, <3>2
  <2> QED
    BY <2>2, <2>3
<1>3. x \in S
  BY UpOfNodes
<1>4. r \in S
  BY <1>1, <1>2, <1>3, UpOfNodes DEF Closed
<1>5. CASE q \in Up(r)
  BY <1>1, <1>5, UpSplits, UpIsAcyclic
<1>6. CASE r \in Up(q)
  BY <1>1, <1>6, UpSplits, UpIsAcyclic
<1> QED
  BY <1>4, <1>5, <1>6

----------------------------------------------------------------------------
(* Two generators never lead to the same node.                              *)
Once(s) ==
  \A x \in Nodes : \A i, j \in 1..Len(s) : Leads(s[i], x) /\ Leads(s[j], x) => i = j

LEMMA OnceInConcat ==
  ASSUME NEW a \in Frame, NEW t \in Seq(Frame)
  PROVE  Once(<<a>> \o t) <=> Once(t) /\ \A x \in Nodes : ~(Leads(a, x) /\ Some(t, x))
<1> DEFINE s == <<a>> \o t
<1>1. Len(s) = 1 + Len(t) /\ Len(t) \in Nat
  BY ConcatProperties, LenProperties
<1>2. s[1] = a /\ \A i \in 1..Len(t) : s[i + 1] = t[i]
  BY ConcatProperties
<1> HIDE DEF s
<1>3. ASSUME Once(s) PROVE Once(t)
  <2> SUFFICES ASSUME NEW x \in Nodes, NEW i \in 1..Len(t), NEW j \in 1..Len(t),
                      Leads(t[i], x), Leads(t[j], x)
               PROVE  i = j
    BY DEF Once
  <2>1. i + 1 \in 1..Len(s) /\ j + 1 \in 1..Len(s)
    BY <1>1
  <2>2. Leads(s[i + 1], x) /\ Leads(s[j + 1], x)
    BY <1>2
  <2>3. i + 1 = j + 1
    BY <1>3, <2>1, <2>2 DEF Once
  <2> QED
    BY <2>3
<1>4. ASSUME Once(s), NEW x \in Nodes, Leads(a, x), Some(t, x) PROVE FALSE
  <2>1. PICK j \in 1..Len(t) : Leads(t[j], x)
    BY <1>4 DEF Some
  <2>2. 1 \in 1..Len(s) /\ j + 1 \in 1..Len(s) /\ 1 # j + 1
    BY <1>1
  <2>3. Leads(s[1], x) /\ Leads(s[j + 1], x)
    BY <1>2, <1>4, <2>1
  <2> QED
    BY <1>4, <2>2, <2>3 DEF Once
<1>5. ASSUME Once(t), \A x \in Nodes : ~(Leads(a, x) /\ Some(t, x)) PROVE Once(s)
  <2> SUFFICES ASSUME NEW x \in Nodes, NEW i \in 1..Len(s), NEW j \in 1..Len(s),
                      Leads(s[i], x), Leads(s[j], x)
               PROVE  i = j
    BY DEF Once
  <2>1. ASSUME NEW k \in 1..Len(s), k # 1, Leads(s[k], x)
        PROVE  k - 1 \in 1..Len(t) /\ Leads(t[k - 1], x) /\ Some(t, x)
    <3>1. k - 1 \in 1..Len(t) /\ (k - 1) + 1 = k
      BY <1>1, <2>1
    <3>2. Leads(t[k - 1], x)
      BY <1>2, <2>1, <3>1
    <3> QED
      BY <3>1, <3>2 DEF Some
  <2>2. CASE i = 1 /\ j # 1
    BY <1>2, <1>5, <2>1, <2>2
  <2>3. CASE i # 1 /\ j = 1
    BY <1>2, <1>5, <2>1, <2>3
  <2>4. CASE i # 1 /\ j # 1
    <3>1. i - 1 = j - 1
      BY <1>5, <2>1, <2>4 DEF Once
    <3> QED
      BY <3>1
  <2> QED
    BY <2>2, <2>3, <2>4
<1> QED
  BY <1>3, <1>4, <1>5 DEF s

----------------------------------------------------------------------------
(* What the walk has still to do: the nodes its generators lead to, and the  *)
(* generators.  Entering a directory adds a generator and takes no node      *)
(* away; but the directory is then still to be read.                        *)
Ahead(s) == {x \in Nodes : Some(s, x)}
Weight(s) ==
  4 * Cardinality(Ahead(s)) + Len(s) + (IF s # <<>> /\ ~Head(s).open THEN 0 ELSE 2)

LEMMA WeightType ==
  ASSUME IsFiniteSet(Nodes), NEW s \in Seq(Frame)
  PROVE  /\ IsFiniteSet(Ahead(s)) /\ Cardinality(Ahead(s)) \in Nat /\ Len(s) \in Nat
         /\ Cardinality(Ahead(s)) <= Cardinality(Nodes) /\ Cardinality(Nodes) \in Nat
         /\ Weight(s) \in Nat
<1>1. Ahead(s) \subseteq Nodes
  BY DEF Ahead
<1>2. IsFiniteSet(Ahead(s)) /\ Cardinality(Ahead(s)) <= Cardinality(Nodes)
  BY <1>1, FS_Subset
<1>3. Cardinality(Ahead(s)) \in Nat /\ Cardinality(Nodes) \in Nat /\ Len(s) \in Nat
  BY <1>2, FS_CardinalityType, LenProperties
<1> QED
  BY <1>2, <1>3 DEF Weight

LEMMA Lighter ==
  ASSUME IsFiniteSet(Nodes), NEW s \in Seq(Frame), NEW t \in Seq(Frame),
         Ahead(t) \subseteq Ahead(s), s # <<>>,
         \/ Ahead(t) # Ahead(s) /\ Len(t) <= Len(s)
         \/ Head(s).open /\ Len(t) = Len(s) + 1 /\ t # <<>> /\ ~Head(t).open
         \/ Head(s).open /\ Len(t) < Len(s)
  PROVE  Weight(t) < Weight(s)
<1> DEFINE m == Cardinality(Ahead(s))
           n == Cardinality(Ahead(t))
           i == IF s # <<>> /\ ~Head(s).open THEN 0 ELSE 2
           j == IF t # <<>> /\ ~Head(t).open THEN 0 ELSE 2
<1>1. m \in Nat /\ n \in Nat /\ Len(s) \in Nat /\ Len(t) \in Nat /\ n <= m
  BY WeightType, FS_Subset
<1>2. Ahead(t) # Ahead(s) => n < m
  BY <1>1, WeightType, FS_Subset
<1>3. Weight(s) = 4 * m + Len(s) + i /\ Weight(t) = 4 * n + Len(t) + j
  BY DEF Weight
<1>4. i \in {0, 2} /\ j \in {0, 2}
  OBVIOUS
<1>5. Head(s).open => i = 2
  OBVIOUS
<1>6. t # <<>> /\ ~Head(t).open => j = 0
  OBVIOUS
<1> HIDE DEF m, n, i, j
<1> QED
  BY <1>1, <1>2, <1>3, <1>4, <1>5, <1>6

(* The innermost generator and the others.                                  *)
LEMMA TopLeads ==
  ASSUME Walks, Once(stack), stack # <<>>
  PROVE  /\ stack \in Seq(Frame) /\ Tail(stack) \in Seq(Frame) /\ Top \in Frame
         /\ Top \in GoodFrames /\ Once(Tail(stack))
         /\ Len(Tail(stack)) = Len(stack) - 1 /\ Len(stack) \in Nat
         /\ \A x \in Nodes : ~(Leads(Top, x) /\ Some(Tail(stack), x))
         /\ \A x \in Nodes : Some(stack, x) <=> Leads(Top, x) \/ Some(Tail(stack), x)
<1>1. stack \in Seq(Frame)
  BY GoodFrameTypes, SeqMonotonic DEF Walks
<1>2. /\ Tail(stack) \in Seq(Frame) /\ Top \in Frame /\ stack = <<Top>> \o Tail(stack)
      /\ Len(Tail(stack)) = Len(stack) - 1 /\ Len(stack) \in Nat
  BY <1>1, HeadTailProperties, LenProperties DEF Top
<1>3. Once(<<Top>> \o Tail(stack)) = Once(stack)
  BY <1>2, Zenon
<1>4. Once(Tail(stack)) /\ \A x \in Nodes : ~(Leads(Top, x) /\ Some(Tail(stack), x))
  BY <1>2, <1>3, OnceInConcat
<1>5. \A x \in Nodes : Some(stack, x) <=> Leads(Top, x) \/ Some(Tail(stack), x)
  BY <1>1, SomeInRest DEF Top
<1> QED
  BY <1>1, <1>2, <1>4, <1>5, TopIsGood

(* A generator that leads nowhere new takes the place of the innermost one.  *)
LEMMA TopReplaced ==
  ASSUME IsFiniteSet(Nodes), Walks, Once(stack), stack # <<>>, NEW frame \in Frame,
         \A x \in Nodes : Leads(frame, x) => Leads(Top, x)
  PROVE  /\ Once(<<frame>> \o Tail(stack)) /\ <<frame>> \o Tail(stack) \in Seq(Frame)
         /\ Len(<<frame>> \o Tail(stack)) = Len(stack)
         /\ Ahead(<<frame>> \o Tail(stack)) \subseteq Ahead(stack)
         /\ \A p \in Nodes : Leads(Top, p) /\ ~Leads(frame, p) =>
              /\ p \in Ahead(stack) \ Ahead(<<frame>> \o Tail(stack))
              /\ Weight(<<frame>> \o Tail(stack)) < Weight(stack)
<1> DEFINE t == <<frame>> \o Tail(stack)
<1>1. /\ stack \in Seq(Frame) /\ Tail(stack) \in Seq(Frame) /\ Once(Tail(stack))
      /\ Len(Tail(stack)) = Len(stack) - 1 /\ Len(stack) \in Nat
      /\ \A x \in Nodes : ~(Leads(Top, x) /\ Some(Tail(stack), x))
      /\ \A x \in Nodes : Some(stack, x) <=> Leads(Top, x) \/ Some(Tail(stack), x)
  BY TopLeads
<1>2. <<frame>> \in Seq(Frame) /\ Len(<<frame>>) = 1
  OBVIOUS
<1>3. t \in Seq(Frame) /\ Len(t) = 1 + Len(Tail(stack))
  BY <1>1, <1>2, ConcatProperties
<1>4. Len(t) = Len(stack)
  BY <1>1, <1>3
<1>5. Once(t)
  BY <1>1, OnceInConcat
<1>6. \A x \in Nodes : Some(t, x) <=> Leads(frame, x) \/ Some(Tail(stack), x)
  BY <1>1, <1>2, SomeInConcat, SomeInOne
<1> HIDE DEF t
<1>7. Ahead(t) \subseteq Ahead(stack)
  BY <1>1, <1>6 DEF Ahead
<1>8. ASSUME NEW p \in Nodes, Leads(Top, p), ~Leads(frame, p)
      PROVE  p \in Ahead(stack) \ Ahead(t) /\ Weight(t) < Weight(stack)
  <2>1. p \in Ahead(stack) /\ p \notin Ahead(t)
    BY <1>1, <1>6, <1>8 DEF Ahead
  <2>2. Ahead(t) # Ahead(stack) /\ Len(t) <= Len(stack)
    BY <1>1, <1>4, <2>1
  <2> QED
    BY <1>1, <1>3, <1>7, <2>1, <2>2, Lighter
<1> QED
  BY <1>3, <1>4, <1>5, <1>7, <1>8 DEF t

(* What a generator has yielded it leads to no longer.                      *)
LEMMA SkippedLeads ==
  ASSUME Top \in GoodFrames, NEW p \in Top.todo
  PROVE  /\ p \in Nodes /\ Top.open /\ Leads(Top, p) /\ ~Leads(Skip(p), p)
         /\ Skip(p) \in Frame
         /\ \A x \in Nodes : Leads(Skip(p), x) => Leads(Top, x) /\ p \notin Up(x)
         /\ \A x \in Nodes : p \in Up(x) => Leads(Top, x)
<1>1. Top \in Frame /\ Top.open /\ \A q \in Top.todo : q \in DOMAIN Parent /\ Parent[q] = Top.dir
  BY DEF GoodFrames
<1>2. \A q \in Top.todo : q \in Nodes \ {Root}
  BY <1>1, BucketFsAssumption DEF Nodes
<1>3. Skip(p) \in Frame /\ Skip(p).todo = Top.todo \ {p} /\ Skip(p).open = Top.open
  BY <1>1 DEF Skip, Frame
<1>4. ASSUME NEW x \in Nodes, Leads(Skip(p), x) PROVE Leads(Top, x) /\ p \notin Up(x)
  <2>1. PICK q \in Top.todo \ {p} : q \in Up(x)
    BY <1>1, <1>3, <1>4 DEF Leads
  <2>2. p \notin Up(x)
    BY <1>1, <1>2, <2>1, UpIsAChain
  <2> QED
    BY <2>1, <2>2 DEF Leads
<1>5. p \in Up(p)
  BY <1>2, UpOfNodes
<1>6. \A x \in Nodes : p \in Up(x) => Leads(Top, x)
  BY DEF Leads
<1> QED
  BY <1>1, <1>2, <1>3, <1>4, <1>5, <1>6

LEMMA SkippedAdvances ==
  ASSUME IsFiniteSet(Nodes), Walks, Once(stack), stack # <<>>, NEW p \in Top.todo,
         stack' = <<Skip(p)>> \o Tail(stack)
  PROVE  Once(stack') /\ Weight(stack') < Weight(stack)
BY TopIsGood, SkippedLeads, TopReplaced

LEMMA LeftAdvances ==
  ASSUME IsFiniteSet(Nodes), Walks, Once(stack), stack # <<>>, stack' = Tail(stack),
         Top.open \/ (Leads(Top, Top.dir) /\ Top.dir \in Nodes)
  PROVE  Once(stack') /\ Weight(stack') < Weight(stack)
<1> DEFINE t == Tail(stack)
<1>1. /\ stack \in Seq(Frame) /\ t \in Seq(Frame) /\ Once(t)
      /\ Len(t) = Len(stack) - 1 /\ Len(stack) \in Nat
      /\ \A x \in Nodes : ~(Leads(Top, x) /\ Some(t, x))
      /\ \A x \in Nodes : Some(stack, x) <=> Leads(Top, x) \/ Some(t, x)
  BY TopLeads
<1> HIDE DEF t
<1>2. Len(t) < Len(stack) /\ Len(t) <= Len(stack)
  BY <1>1
<1>3. Ahead(t) \subseteq Ahead(stack)
  BY <1>1 DEF Ahead
<1>4. Leads(Top, Top.dir) /\ Top.dir \in Nodes => Ahead(t) # Ahead(stack)
  BY <1>1 DEF Ahead
<1>5. Weight(t) < Weight(stack)
  BY <1>1, <1>2, <1>3, <1>4, Lighter DEF Top
<1> QED
  BY <1>1, <1>5 DEF t

(* The directory that has been read is behind the walk; its entries were     *)
(* ahead of it before.                                                      *)
LEMMA ReadDirectoryAdvances ==
  ASSUME IsFiniteSet(Nodes), Walks, Once(stack), ReadDirectory
  PROVE  Once(stack') /\ Weight(stack') < Weight(stack)
<1> USE DEF ReadDirectory
<1> DEFINE new == [Top EXCEPT !.open = TRUE, !.todo = Children(Top.dir)]
<1>1. Top \in GoodFrames /\ Top \in Frame /\ ~Top.open /\ Top.dir \in Directories
  BY TopIsGood DEF GoodFrames, Frame
<1>2. Top.dir \in Nodes /\ Top.dir \in Up(Top.dir) /\ Leads(Top, Top.dir)
  BY <1>1, UpOfNodes DEF Nodes, Leads
<1>3. CASE Kind[Top.dir] = "locked"
  BY <1>2, <1>3, LeftAdvances
<1>4. CASE Kind[Top.dir] # "locked"
  <2>1. stack' = <<new>> \o Tail(stack)
    BY <1>4 DEF Replace
  <2>2. Children(Top.dir) \subseteq Nodes \ {Root}
    BY BucketFsAssumption DEF Children, Nodes
  <2>3. new \in Frame /\ new.open = TRUE /\ new.todo = Children(Top.dir)
    BY <1>1, <2>2 DEF Frame, Nodes
  <2> HIDE DEF new
  <2>4. ASSUME NEW x \in Nodes, Leads(new, x)
        PROVE  Leads(Top, x) /\ x # Top.dir
    <3>1. PICK c \in Children(Top.dir) : c \in Up(x)
      BY <2>3, <2>4 DEF Leads
    <3>2. c \in Nodes \ {Root} /\ Parent[c] = Top.dir
      BY <2>2, <3>1 DEF Children
    <3>3. Top.dir \in Up(x)
      BY <3>1, <3>2, UpOfNodes DEF Closed
    <3>4. x # Top.dir
      BY <3>1, <3>2, UpIsAcyclic
    <3> QED
      BY <1>1, <3>3, <3>4 DEF Leads
  <2> QED
    BY <1>2, <2>1, <2>3, <2>4, TopReplaced
<1> QED
  BY <1>3, <1>4

(* A directory that is entered leads on to what the name led to.            *)
LEMMA EnterDirectoryAdvances ==
  ASSUME IsFiniteSet(Nodes), Walks, Once(stack), NEW d \in Directories, EnterDirectory(d)
  PROVE  Once(stack') /\ Weight(stack') < Weight(stack)
<1> USE DEF EnterDirectory
<1> DEFINE rest == <<Skip(d)>> \o Tail(stack)
           new == NewFrame(d)
<1>1. d \in Top.todo /\ stack # <<>> /\ Top \in GoodFrames
  BY TopIsGood
<1>2. /\ Top.open /\ Leads(Top, d) /\ ~Leads(Skip(d), d) /\ Skip(d) \in Frame
      /\ \A x \in Nodes : Leads(Skip(d), x) => Leads(Top, x) /\ d \notin Up(x)
      /\ \A x \in Nodes : d \in Up(x) => Leads(Top, x)
  BY <1>1, SkippedLeads
<1>3. /\ Once(rest) /\ rest \in Seq(Frame) /\ Len(rest) = Len(stack)
      /\ Ahead(rest) \subseteq Ahead(stack)
  BY <1>1, <1>2, TopReplaced
<1>4. stack \in Seq(Frame) /\ Tail(stack) \in Seq(Frame) /\ Len(stack) \in Nat
  BY <1>1, TopLeads
<1>5. CASE Kind[d] = "container"
  <2>1. <<Skip(d)>> \in Seq(Frame) /\ <<>> \o <<Skip(d)>> = <<Skip(d)>>
    BY <1>2, ConcatEmptySeq
  <2>2. stack' = rest
    BY <1>5, <2>1
  <2> QED
    BY <1>1, <2>2, SkippedAdvances
<1>6. CASE Kind[d] # "container"
  <2>1. stack' = <<new>> \o rest
    <3>1. <<new>> \o <<Skip(d)>> \o Tail(stack) = <<new>> \o rest
      <4>1. new \in Frame
        BY DEF NewFrame, Frame
      <4>2. <<new>> \in Seq(Frame) /\ <<Skip(d)>> \in Seq(Frame)
        BY <1>2, <4>1
      <4> QED
        BY <1>4, <4>2, ConcatAssociative
    <3> QED
      BY <1>6, <3>1
  <2>2. new \in Frame /\ ~new.open /\ \A x \in Nodes : Leads(new, x) <=> d \in Up(x)
    BY DEF NewFrame, Frame, Leads
  <2>3. ASSUME NEW x \in Nodes, Leads(new, x), Some(rest, x) PROVE FALSE
    <3>1. Leads(Skip(d), x) \/ Some(Tail(stack), x)
      <4>1. <<Skip(d)>> \in Seq(Frame)
        BY <1>2
      <4>2. Some(<<Skip(d)>>, x) \/ Some(Tail(stack), x)
        BY <1>4, <2>3, <4>1, SomeInConcat
      <4> QED
        BY <4>2, SomeInOne
    <3>2. d \in Up(x) /\ Leads(Top, x)
      BY <1>2, <2>2, <2>3
    <3> QED
      BY <1>1, <1>2, <3>1, <3>2, TopLeads
  <2>4. Once(stack')
    BY <1>3, <2>1, <2>2, <2>3, OnceInConcat
  <2>5. <<new>> \in Seq(Frame) /\ Len(<<new>>) = 1
    BY <2>2
  <2>6. stack' \in Seq(Frame) /\ Len(stack') = Len(stack) + 1
    BY <1>3, <1>4, <2>1, <2>5, ConcatProperties
  <2>7. ASSUME NEW x \in Nodes
        PROVE  Some(stack', x) <=> Leads(new, x) \/ Some(rest, x)
    <3>1. Some(<<new>> \o rest, x) <=> Some(<<new>>, x) \/ Some(rest, x)
      BY <1>3, <2>5, SomeInConcat
    <3>2. Some(<<new>>, x) <=> Leads(new, x)
      BY SomeInOne
    <3> QED
      BY <2>1, <3>1, <3>2
  <2>8. Ahead(stack') \subseteq Ahead(stack)
    <3> SUFFICES ASSUME NEW x \in Nodes, Leads(new, x) \/ Some(rest, x)
                 PROVE  Some(stack, x)
      BY <2>7 DEF Ahead
    <3>1. CASE Leads(new, x)
      BY <1>1, <1>2, <2>2, <3>1, TopLeads
    <3>2. CASE Some(rest, x)
      BY <1>3, <3>2 DEF Ahead
    <3> QED
      BY <3>1, <3>2
  <2>9. stack' # <<>> /\ Head(stack') = new
    BY <1>3, <2>1, <2>2, <2>5, ConcatProperties
  <2> QED
    BY <1>1, <1>2, <1>4, <2>2, <2>4, <2>6, <2>8, <2>9, Lighter DEF Top
<1> QED
  BY <1>5, <1>6

(* A step of the walk that does not end it.                                 *)
WalkOn ==
  \/ ReadDirectory \/ LeaveDirectory
  \/ \E f \in Files : EmitFile(f)
  \/ \E d \in Directories : EnterDirectory(d)
  \/ \E p \in Directories \cup Files : SkipVanished(p)

LEMMA WalkOnAdvances ==
  ASSUME IsFiniteSet(Nodes), Walks, Once(stack), WalkOn
  PROVE  Once(stack') /\ Weight(stack') < Weight(stack)
<1>1. CASE ReadDirectory
  BY <1>1, ReadDirectoryAdvances
<1>2. CASE LeaveDirectory
  <2>1. stack # <<>> /\ Top.open /\ stack' = Tail(stack)
    BY <1>2 DEF LeaveDirectory
  <2>2. Top.open \/ (Leads(Top, Top.dir) /\ Top.dir \in Nodes)
    BY <2>1
  <2> QED
    BY <2>1, <2>2, LeftAdvances
<1>3. ASSUME NEW p, EmitFile(p) \/ SkipVanished(p)
      PROVE  Once(stack') /\ Weight(stack') < Weight(stack)
  <2>1. stack # <<>> /\ p \in Top.todo /\ stack' = <<Skip(p)>> \o Tail(stack)
    BY <1>3 DEF EmitFile, SkipVanished, Replace
  <2> QED
    BY <2>1, SkippedAdvances
<1>4. ASSUME NEW d \in Directories, EnterDirectory(d)
      PROVE  Once(stack') /\ Weight(stack') < Weight(stack)
  BY <1>4, EnterDirectoryAdvances
<1> QED
  BY <1>1, <1>2, <1>3, <1>4 DEF WalkOn

----------------------------------------------------------------------------
(* A request goes through phases, and in each through what is left of it:    *)
(* the walk, the rows, and the definitions to load.  A reader of two tables  *)
(* executes and reads twice.                                                *)
Phase ==
  CASE stage = "done" -> 0
    [] stage = "load" -> 1
    [] stage = "find" -> 2
    [] stage = "files" /\ pc = "idle" -> IF outcome = "none" THEN 10 ELSE 3
    [] stage = "files" /\ pc = "check" -> 3 * pending + 1
    [] stage = "files" /\ pc = "next" -> 3 * pending + 2
    [] stage = "files" /\ pc = "execute" -> 3 * pending + 3

Breaks == IF cursor = "open" THEN 1 ELSE 0

Left ==
  CASE stage = "load" -> Cardinality(todo)
    [] stage = "files" /\ pc = "check" -> Breaks
    [] stage = "files" /\ pc = "next" -> size - read + Breaks
    [] stage = "files" /\ pc = "execute" /\ reader \in WalksTree -> Weight(stack)
    [] OTHER -> 0

(* Every step of a request leaves less to do, and what comes and goes beside *)
(* it leaves no more.                                                       *)
ListAdvances ==
  /\ Phase \in 0..10 /\ Left \in Nat
  /\ ListStep => Phase' < Phase \/ (Phase' = Phase /\ Left' < Left)
  /\ Environment => Phase' = Phase /\ Left' = Left

AInv == Once(stack) /\ IsFiniteSet(todo)

LEMMA OnceInFew == Once(<<>>) /\ \A frame : Once(<<frame>>)
BY DEF Once

LEMMA AInitially == Init => AInv
BY OnceInFew, FS_EmptySet DEF Init, TreeInit, AInv

(* What a step of the walk does to the stack.                               *)
LEMMA WalkKeepsOnce ==
  ASSUME IsFiniteSet(Nodes), Walks, Once(stack), Walk
  PROVE  Once(stack')
<1>1. WalkOn \/ stack' = stack \/ stack' = <<>> \/ stack' = <<NewFrame(Root)>>
  BY DEF Walk, WalkOn, Query, ReadDirectoryFails, Walked, ExecuteQuery, ReadRows, ReaderFails
<1> QED
  BY <1>1, WalkOnAdvances, OnceInFew

LEMMA AStep ==
  ASSUME IsFiniteSet(Nodes), IsFiniteSet(Ids), IInv, AInv, [Next]_vars
  PROVE  Once(stack') /\ IsFiniteSet(todo')
<1>1. Walks /\ Once(stack) /\ IsFiniteSet(todo)
  BY DEF IInv, AInv
<1>2. CASE ListFiles
  BY <1>1, <1>2, WalkKeepsOnce DEF ListFiles
<1>3. CASE FindExtensions
  <2>1. IsFiniteSet(Ids \X {"top", "nested"})
    <3>1. {"top", "nested"} = {"top"} \cup {"nested"}
      OBVIOUS
    <3>2. IsFiniteSet({"top"})
      BY FS_Singleton
    <3>3. IsFiniteSet({"top"} \cup {"nested"})
      BY <3>2, FS_AddElement
    <3> QED
      BY <3>1, <3>3, FS_Product
  <2>2. todo' \subseteq Ids \X {"top", "nested"}
    BY <1>3, AvailableExtensionsAssumption DEF FindExtensions
  <2>3. IsFiniteSet(todo')
    BY <2>1, <2>2, FS_Subset
  <2> QED
    BY <1>1, <1>3, <2>3 DEF FindExtensions
<1>4. ASSUME NEW e \in Ids \X {"top", "nested"}, LoadExtension(e)
      PROVE  Once(stack') /\ IsFiniteSet(todo')
  BY <1>1, <1>4, FS_RemoveElement DEF LoadExtension
<1>5. CASE \/ ListFilesEnds \/ FindExtensionsFails \/ FilterExtensions \/ Environment
           \/ UNCHANGED vars
           \/ \E e \in Ids \X {"top", "nested"} : LoadExtensionFails(e)
  BY <1>1, <1>5 DEF ListFilesEnds, FindExtensionsFails, FilterExtensions, Environment,
       ChangeTree, ChangeFile, ChangeDirectory, ChangeDefinition, LoadExtensionFails
<1> QED
  BY <1>2, <1>3, <1>4, <1>5 DEF Next, ListStep

LEMMA APreserved ==
  ASSUME IsFiniteSet(Nodes), IsFiniteSet(Ids)
  PROVE  IInv /\ AInv /\ [Next]_vars => AInv'
<1> SUFFICES ASSUME IInv, AInv, [Next]_vars PROVE AInv'
  OBVIOUS
<1>1. Once(stack') /\ IsFiniteSet(todo')
  BY AStep
<1>2. Once(stack)'
  BY <1>1 DEF Once, Leads, Up, Closed, Nodes
<1>3. IsFiniteSet(todo)'
  BY <1>1
<1> QED
  BY <1>2, <1>3 DEF AInv

----------------------------------------------------------------------------
LEMMA PhaseTypes ==
  ASSUME IsFiniteSet(Nodes), IInv, CInv, AInv
  PROVE  Phase \in 0..10 /\ Left \in Nat
<1>1. /\ stage \in {"files", "find", "load", "done"} /\ pc \in {"idle", "execute", "next", "check"}
      /\ pending \in 0..2 /\ (pc # "idle" => pending >= 1)
      /\ size \in Nat /\ read \in 0..size
  BY DEF IInv, TypeOK, TreeTypeOK, ReaderTypeOK, Reading
<1>2. Phase \in 0..10
  <2>1. pc # "idle" => 3 * pending + 1 \in 0..10 /\ 3 * pending + 2 \in 0..10 /\ 3 * pending + 3 \in 0..10
    BY <1>1
  <2>2. CASE stage # "files"
    BY <1>1, <2>2 DEF Phase
  <2>3. CASE stage = "files" /\ pc = "idle"
    BY <2>3 DEF Phase
  <2>4. CASE stage = "files" /\ pc = "check"
    BY <2>1, <2>4 DEF Phase
  <2>5. CASE stage = "files" /\ pc = "next"
    BY <2>1, <2>5 DEF Phase
  <2>6. CASE stage = "files" /\ pc = "execute"
    BY <2>1, <2>6 DEF Phase
  <2> QED
    BY <1>1, <2>2, <2>3, <2>4, <2>5, <2>6
<1>3. Left \in Nat
  <2>1. Cardinality(todo) \in Nat
    BY FS_CardinalityType DEF AInv
  <2>2. stack \in Seq(Frame) /\ Weight(stack) \in Nat
    BY WeightType, GoodFrameTypes, SeqMonotonic DEF IInv, Walks
  <2>3. Breaks \in Nat /\ size - read + Breaks \in Nat
    BY <1>1 DEF Breaks
  <2>4. CASE stage = "load"
    BY <2>1, <2>4 DEF Left
  <2>5. CASE stage = "files" /\ pc = "check"
    BY <2>3, <2>5 DEF Left
  <2>6. CASE stage = "files" /\ pc = "next"
    BY <2>3, <2>6 DEF Left
  <2>7. CASE stage = "files" /\ pc = "execute" /\ reader \in WalksTree
    BY <2>2, <2>7 DEF Left
  <2>8. CASE \/ stage \in {"find", "done"}
             \/ stage = "files" /\ pc = "idle"
             \/ stage = "files" /\ pc = "execute" /\ reader \notin WalksTree
    BY <2>8 DEF Left
  <2> QED
    BY <1>1, <2>4, <2>5, <2>6, <2>7, <2>8
<1> QED
  BY <1>2, <1>3

Advances == Phase' < Phase \/ (Phase' = Phase /\ Left' < Left)

(* A reader that returns is past its phases.                                *)
LEMMA ReturnAdvances ==
  ASSUME IInv, stage = "files", stage' = "files", pc # "idle", pc' = "idle", outcome' # "none"
  PROVE  Advances
<1>1. Phase' = 3
  BY DEF Phase
<1>2. pending \in Nat /\ pending >= 1 /\ pc \in {"execute", "next", "check"}
  BY DEF IInv, TypeOK, TreeTypeOK, ReaderTypeOK, Reading
<1>3. Phase \in {3 * pending + 1, 3 * pending + 2, 3 * pending + 3}
  BY <1>2 DEF Phase
<1>4. 3 < Phase
  BY <1>2, <1>3
<1> QED
  BY <1>1, <1>4 DEF Advances

LEMMA ReadRowsAdvances ==
  ASSUME IInv, stage = "files", stage' = "files", ReadRows
  PROVE  Advances
<1>1. /\ pending \in Nat /\ size \in Nat /\ read \in 0..size
      /\ (pc # "idle" => pending >= 1) /\ cursor \in {"open", "failed"}
  BY DEF IInv, TypeOK, TreeTypeOK, ReaderTypeOK, Reading
<1>2. CASE Break
  <2>1. pc \in {"next", "check"} /\ UNCHANGED <<pc, pending, size, read>>
    BY <1>2 DEF Break
  <2>2. Breaks = 1 /\ Breaks' = 0
    BY <1>2 DEF Break, Breaks
  <2>3. Phase' = Phase
    BY <2>1 DEF Phase
  <2>4. CASE pc = "next"
    <3>1. Left = size - read + 1 /\ Left' = size - read + 0
      BY <2>1, <2>2, <2>4 DEF Left
    <3> QED
      BY <1>1, <2>3, <3>1 DEF Advances
  <2>5. CASE pc = "check"
    <3>1. Left = 1 /\ Left' = 0
      BY <2>1, <2>2, <2>5 DEF Left
    <3> QED
      BY <2>3, <3>1 DEF Advances
  <2> QED
    BY <2>1, <2>4, <2>5
<1>3. CASE NextRow
  <2>1. pc = "next" /\ read' = read + 1 /\ UNCHANGED <<pending, size, cursor>>
    BY <1>3 DEF NextRow
  <2>2. CASE pc' = "idle" /\ outcome' = "ok"
    BY <2>1, <2>2, ReturnAdvances
  <2>3. CASE pc' = pc
    <3>1. Phase' = Phase
      BY <2>1, <2>3 DEF Phase
    <3>2. Breaks' = Breaks /\ Breaks \in Nat
      BY <2>1 DEF Breaks
    <3>3. Left = size - read + Breaks /\ Left' = size - (read + 1) + Breaks
      BY <2>1, <2>3, <3>2 DEF Left
    <3> QED
      BY <1>1, <3>1, <3>2, <3>3 DEF Advances
  <2> QED
    BY <1>3, <2>2, <2>3 DEF NextRow, Finish
<1>4. CASE NextEnds
  <2>1. Phase = 3 * pending + 2 /\ Phase' = 3 * pending + 1
    BY <1>4 DEF NextEnds, Phase
  <2> QED
    BY <1>1, <2>1 DEF Advances
<1>5. CASE ReportError
  BY <1>5, ReturnAdvances DEF ReportError, Finish
<1>6. CASE Accept
  <2>1. pc = "check" /\ pending' = pending - 1
    BY <1>6 DEF Accept
  <2>2. CASE pending > 1
    <3>1. pc' = "execute"
      BY <1>6, <2>2 DEF Accept
    <3>2. Phase = 3 * pending + 1 /\ Phase' = 3 * (pending - 1) + 3
      BY <2>1, <3>1 DEF Phase
    <3> QED
      BY <1>1, <3>2 DEF Advances
  <2>3. CASE ~(pending > 1)
    BY <1>6, <2>1, <2>3, ReturnAdvances DEF Accept, Finish
  <2> QED
    BY <2>2, <2>3
<1> QED
  BY <1>2, <1>3, <1>4, <1>5, <1>6 DEF ReadRows

LEMMA WeightOfNext == Weight(stack)' = Weight(stack')
BY DEF Weight, Ahead, Some, Leads, Up, Closed, Nodes

LEMMA ListFilesAdvances ==
  ASSUME IsFiniteSet(Nodes), IInv, AInv, ListFiles
  PROVE  Advances
<1> USE DEF ListFiles
<1>1. stage = "files" /\ stage' = "files" /\ Walk
  OBVIOUS
<1>2. pending \in 0..2 /\ (pc # "idle" => pending >= 1)
  BY DEF IInv, TypeOK, TreeTypeOK, ReaderTypeOK, Reading
<1>3. CASE Query
  <2>1. pc = "idle" /\ outcome = "none" /\ pc' = "execute" /\ pending' = Statements(reader)
    BY <1>3 DEF Query, Call
  <2>2. pending' \in {1, 2}
    BY <2>1 DEF Statements
  <2>3. Phase = 10
    BY <1>1, <2>1 DEF Phase
  <2>4. Phase' = 3 * pending' + 3
    BY <1>1, <2>1 DEF Phase
  <2>5. ASSUME NEW k \in {1, 2}, NEW m, m = 3 * k + 3 PROVE m < 10
    BY <2>5
  <2>6. Phase' < 10
    BY <2>2, <2>4, <2>5
  <2> QED
    BY <2>3, <2>6 DEF Advances
<1>4. CASE WalkOn
  <2>1. Weight(stack') < Weight(stack)
    BY <1>4, WalkOnAdvances DEF IInv, AInv
  <2>2. pc = "execute" /\ reader \in WalksTree /\ UNCHANGED readerVars
    BY <1>4 DEF WalkOn, ReadDirectory, LeaveDirectory, EmitFile, EnterDirectory, SkipVanished,
         Walking
  <2>3. Phase' = Phase
    BY <1>1, <2>2 DEF Phase
  <2>4. Left = Weight(stack) /\ Left' = Weight(stack)'
    BY <1>1, <2>2 DEF Left
  <2> QED
    BY <2>1, <2>3, <2>4, WeightOfNext DEF Advances
<1>5. CASE ReadDirectoryFails \/ ReaderFails
  BY <1>1, <1>5, ReturnAdvances
     DEF ReadDirectoryFails, ReaderFails, ExecuteFails, ScanFails, Finish
<1>6. ASSUME NEW n, Execute(n) PROVE Advances
  <2>1. pc = "execute" /\ pc' = "next" /\ pending' = pending
    BY <1>6 DEF Execute
  <2>2. Phase = 3 * pending + 3 /\ Phase' = 3 * pending + 2
    BY <1>1, <2>1 DEF Phase
  <2> QED
    BY <1>2, <2>2 DEF Advances
<1>7. CASE ReadRows
  BY <1>1, <1>7, ReadRowsAdvances
<1> QED
  BY <1>1, <1>3, <1>4, <1>5, <1>6, <1>7 DEF Walk, WalkOn, Walked, ExecuteQuery

LEMMA ControllerAdvances ==
  ASSUME IInv, CInv, AInv,
         \/ ListFilesEnds \/ FindExtensions \/ FindExtensionsFails \/ FilterExtensions
         \/ \E e \in Ids \X {"top", "nested"} : LoadExtension(e) \/ LoadExtensionFails(e)
  PROVE  Advances
<1> USE DEF Reply
<1>1. CASE ListFilesEnds
  <2>1. Phase = 3 /\ Phase' \in {2, 0}
    BY <1>1 DEF ListFilesEnds, Phase
  <2> QED
    BY <2>1 DEF Advances
<1>2. CASE FindExtensions \/ FindExtensionsFails
  <2>1. Phase = 2 /\ Phase' = 1
    BY <1>2 DEF FindExtensions, FindExtensionsFails, Phase
  <2> QED
    BY <2>1 DEF Advances
<1>3. ASSUME NEW e \in Ids \X {"top", "nested"}, LoadExtension(e) PROVE Advances
  <2>1. e \in todo /\ todo' = todo \ {e} /\ stage = "load" /\ stage' = "load"
    BY <1>3 DEF LoadExtension
  <2>2. Cardinality(todo) \in Nat /\ Cardinality(todo') = Cardinality(todo) - 1
    BY <2>1, FS_CardinalityType, FS_RemoveElement DEF AInv
  <2>3. Phase = 1 /\ Phase' = 1
    BY <2>1 DEF Phase
  <2>4. Left = Cardinality(todo) /\ Left' = Cardinality(todo')
    BY <2>1 DEF Left
  <2> QED
    BY <2>2, <2>3, <2>4 DEF Advances
<1>4. ASSUME NEW e \in Ids \X {"top", "nested"}, LoadExtensionFails(e) PROVE Advances
  <2>1. Phase = 1 /\ Phase' = 0
    BY <1>4 DEF LoadExtensionFails, Phase
  <2> QED
    BY <2>1 DEF Advances
<1>5. CASE FilterExtensions
  <2>1. Phase = 1 /\ Phase' = 0
    BY <1>5 DEF FilterExtensions, Phase
  <2> QED
    BY <2>1 DEF Advances
<1> QED
  BY <1>1, <1>2, <1>3, <1>4, <1>5

LEMMA EnvironmentLeavesIt ==
  ASSUME Environment
  PROVE  Phase' = Phase /\ Left' = Left
<1>1. UNCHANGED <<stage, todo, stack, readerVars>>
  BY DEF Environment, ChangeTree, ChangeFile, ChangeDirectory, ChangeDefinition
<1>2. Weight(stack)' = Weight(stack)
  BY <1>1, WeightOfNext
<1>3. Phase' = Phase
  BY <1>1 DEF Phase
<1>4. Cardinality(todo)' = Cardinality(todo)
  BY <1>1
<1>5. Left' = Left
  BY <1>1, <1>2, <1>4 DEF Left, Breaks
<1> QED
  BY <1>3, <1>5

(* In a tree of any shape, and with a registry of any size, as long as both  *)
(* are finite, each step brings a request nearer to its reply, while files   *)
(* and directories come and go around the walk.  TLC shows with ListEnds     *)
(* that some step can always be taken.                                      *)
THEOREM ListsComeToAnEnd ==
  ASSUME IsFiniteSet(Directories \cup Files), IsFiniteSet(Ids)
  PROVE  Spec => [][ListAdvances]_vars
<1> USE DEF Nodes
<1>1. Init /\ [][Next]_vars => [](IInv /\ CInv /\ AInv)
  <2>1. Init => IInv /\ CInv /\ AInv
    BY Initially, CInitially, AInitially
  <2>2. IInv /\ CInv /\ AInv /\ [Next]_vars => (IInv /\ CInv /\ AInv)'
    BY Preserved, CPreserved, APreserved
  <2> QED
    BY <2>1, <2>2, PTL
<1>2. IInv /\ CInv /\ AInv /\ [Next]_vars => [ListAdvances]_vars
  <2> SUFFICES ASSUME IInv, CInv, AInv, Next PROVE ListAdvances
    OBVIOUS
  <2>1. Phase \in 0..10 /\ Left \in Nat
    BY PhaseTypes
  <2>2. ListStep => Advances
    BY ListFilesAdvances, ControllerAdvances DEF ListStep
  <2>3. Environment => Phase' = Phase /\ Left' = Left
    BY EnvironmentLeavesIt
  <2> QED
    BY <2>1, <2>2, <2>3 DEF ListAdvances, Advances
<1> QED
  BY <1>1, <1>2, PTL DEF Spec
=============================================================================
