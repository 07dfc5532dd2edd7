------------------------- MODULE AvailableExtensions -------------------------
(***************************************************************************)
(* The list of the extensions that can be installed: the files in BucketFS *)
(* are listed, the definitions in the local registry (localDir.go) are     *)
(* found and loaded, and those are left whose required files are there.    *)
(* A behaviour is one request: this one, or one that only calls a reader,  *)
(* to which the registry does not matter, nor BucketFS to "query".         *)
(* The list of an HTTP registry is in HttpRegistry.                        *)
(***************************************************************************)
EXTENDS BucketFsFiles, Integers

CONSTANTS
  Ids,           \* file names in the registry
  Nested,        \* those that are in a subdirectory of it, or name one
  Requirements,  \* what definitions require: sets of names and sizes
  Registries     \* what the registry can have when a request comes

(* A file that cannot be read, or whose definition does not load, is not    *)
(* usable.                                                                  *)
Content ==
  [state : {"absent", "unusable"}, requires : {{}}]
    \cup [state : {"loads"}, requires : Requirements]

ASSUME AvailableExtensionsAssumption ==
  /\ Nested \subseteq Ids
  /\ \A R \in Requirements : \A r \in R : r.size \in Int /\ r.size >= -1
  /\ Registries \subseteq [Ids -> Content]

VARIABLES
  definition,  \* what the registry has at the top under an id
  stage,       \* where the request is
  todo,        \* what FindExtensions has returned and is not loaded yet
  got,         \* what has been loaded
  reply,
  listed,      \* what the reply lists
  steady       \* history: ids whose definition has not changed

listVars == <<stage, todo, got, reply, listed>>
registryVars == <<definition, steady>>
walkAndTree == <<readerVars, walkVars, treeVars, fault>>
vars == <<walkAndTree, changes, listVars, registryVars>>

Init ==
  /\ ReaderInit /\ TreeInit
  /\ definition \in Registries
  /\ reader # "files" => \A id \in Ids : definition[id].state = "absent"
  /\ reader = "query" => Entries = {}
  /\ stage = "files"
  /\ todo = {} /\ got = {}
  /\ reply = "none" /\ listed = {}
  /\ steady = Ids

----------------------------------------------------------------------------
(* Definitions come and go; what they were before they are found matters to *)
(* nobody.                                                                  *)
ChangeDefinition(id) ==
  /\ stage \in {"find", "load"}
  /\ changes > 0
  /\ \E c \in Content \ {definition[id]} : definition' = [definition EXCEPT ![id] = c]
  /\ steady' = steady \ {id}
  /\ changes' = changes - 1
  /\ UNCHANGED <<walkAndTree, listVars>>

Reply(r) == stage' = "done" /\ reply' = r

(* listBfsFiles, or a request that wants no more than a reader.             *)
ListFiles ==
  /\ stage = "files"
  /\ Walk
  /\ UNCHANGED <<listVars, registryVars>>

ListFilesEnds ==
  /\ stage = "files" /\ pc = "idle" /\ outcome # "none"
  /\ IF reader = "files" /\ outcome = "ok"
       THEN stage' = "find" /\ UNCHANGED reply
       ELSE Reply(IF outcome = "error" THEN "error" ELSE "other")
  /\ UNCHANGED <<walkAndTree, changes, registryVars, todo, got, listed>>

(* FindExtensions: the base names of all files below the directory that end *)
(* with .js.                                                                *)
FindExtensions ==
  /\ stage = "find"
  /\ todo' = {<<id, "top">> : id \in {i \in Ids : definition[i].state # "absent"}}
               \cup {<<id, "nested">> : id \in Nested}
  /\ stage' = "load"
  /\ UNCHANGED <<walkAndTree, changes, registryVars, got, reply, listed>>

(* An error of the walk is dropped: a directory that cannot be read looks    *)
(* like an empty one.                                                       *)
FindExtensionsFails ==
  /\ stage = "find"
  /\ stage' = "load"
  /\ fault' = TRUE
  /\ UNCHANGED <<readerVars, walkVars, treeVars, changes, registryVars, todo, got, reply, listed>>

(* ReadExtension joins the registry's directory and the id, wherever        *)
(* FindExtensions has found it.  One that fails fails the list.             *)
LoadExtension(e) ==
  /\ stage = "load" /\ e \in todo
  /\ definition[e[1]].state = "loads"
  /\ got' = got \cup {[extension |-> e, requires |-> definition[e[1]].requires]}
  /\ todo' = todo \ {e}
  /\ UNCHANGED <<walkAndTree, changes, registryVars, stage, reply, listed>>

LoadExtensionFails(e) ==
  /\ stage = "load" /\ e \in todo
  /\ definition[e[1]].state # "loads"
  /\ Reply(IF definition[e[1]].state = "absent" THEN "notFound" ELSE "error")
  /\ UNCHANGED <<walkAndTree, changes, registryVars, todo, got, listed>>

(* Faulty variant: an empty file has any size.                              *)
MatchesUnlessPositive(r, f) ==
  r.name = Name[f.path] /\ (r.size <= 0 \/ r.size = f.size)

(* A negative size stands for any size.                                     *)
FileMatches(r, f) ==
  r.name = Name[f.path] /\ (r.size < 0 \/ r.size = f.size)

RequiredFilesAvailable(required, F) ==
  \A r \in required : \E f \in F : FileMatches(r, f)

(* The rows that were read before the result ended are the files.           *)
FilterExtensions ==
  /\ stage = "load" /\ todo = {}
  /\ \E F \in SUBSET rows :
       /\ Cardinality(F) = read
       /\ listed' = {g.extension : g \in {h \in got : RequiredFilesAvailable(h.requires, F)}}
  /\ Reply("ok")
  /\ UNCHANGED <<walkAndTree, changes, registryVars, todo, got>>

Environment ==
  \/ ChangeTree /\ UNCHANGED <<listVars, registryVars>>
  \/ \E id \in Ids : ChangeDefinition(id)

ListStep ==
  \/ ListFiles \/ ListFilesEnds \/ FindExtensions \/ FindExtensionsFails
  \/ \E e \in Ids \X {"top", "nested"} : LoadExtension(e) \/ LoadExtensionFails(e)
  \/ FilterExtensions

Next == ListStep \/ Environment

(* A statement and the reading of a file end.                               *)
Spec == Init /\ [][Next]_vars /\ WF_vars(ListStep)

----------------------------------------------------------------------------
TypeOK ==
  /\ TreeTypeOK
  /\ definition \in [Ids -> Content]
  /\ stage \in {"files", "find", "load", "done"}
  /\ todo \subseteq Ids \X {"top", "nested"}
  /\ \A g \in got : g.extension \in Ids \X {"top", "nested"} /\ g.requires \in Requirements
  /\ reply \in {"none", "ok", "notFound", "error", "other"}
  /\ listed \subseteq Ids \X {"top", "nested"}
  /\ steady \subseteq Ids

(* The properties say on their own what a requirement is.                   *)
Met(required, E) ==
  \A r \in required : \E e \in E : Name[e.path] = r.name /\ r.size \in {-1, e.size}
VisibleIn(E) == {e \in E : Visible[Parent[e.path]]}

(* "EM shows only extensions for which all components are available"        *)
(* (design.md): each required file was in BucketFS with the required size   *)
(* while the files were listed, and not in the file system of a container.  *)
ListedIsUsable ==
  \A g \in got : g.extension \in listed =>
    Met(g.requires, VisibleIn(seen))

(* What stays in BucketFS and in the registry is found, whatever comes and  *)
(* goes beside it: an extension whose files are there is in the list, and a *)
(* file that is there has a path.  Unless rows were lost (ResultSets) or    *)
(* the registry's directory could not be read.                              *)
StableIsFound ==
  /\ reply = "ok" /\ ~dropped /\ ~fault =>
       \A id \in steady :
         /\ definition[id].state = "loads"
         /\ Met(definition[id].requires, VisibleIn(stable))
         => <<id, "top">> \in listed
  /\ reader = "path" /\ outcome = "absent" =>
       \A e \in VisibleIn(stable) : Name[e.path] # Wanted

(* A list fails for a reason that a client can be told: a file that comes   *)
(* or goes is none, neither in BucketFS nor, before it is found, in the     *)
(* registry.                                                                *)
FailsForAReason ==
  /\ reply = "notFound" => \E id \in Ids :
       id \notin steady \/ (id \in Nested /\ definition[id].state = "absent")
  /\ reply = "error" => \/ fault \/ removed \/ cursor = "failed"
                        \/ \E id \in Ids : id \notin steady
                             \/ definition[id].state = "unusable"

(* A request ends, whatever comes and goes.                                 *)
ListEnds == (stage = "files") ~> (stage = "done")
=============================================================================
