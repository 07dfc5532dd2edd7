---------------------------- MODULE HttpRegistry ----------------------------
(***************************************************************************)
(* The HTTP registry of the controller (registry/http.go) and the two ways *)
(* the controller uses it: reading the definition of one extension and     *)
(* reading the definitions of all.  One registry object serves every       *)
(* request of the process; its field h.index is read and written without a *)
(* lock, so an action is what happens between two accesses to the field or *)
(* between two HTTP exchanges.                                             *)
(*                                                                         *)
(* The registry's content changes under the running process: a new index   *)
(* is published, a definition is replaced at its URL, a URL stops being    *)
(* served and is served again.                                             *)
(***************************************************************************)
EXTENDS Naturals

CONSTANTS
  Requests,     \* goroutines of the REST server
  Ids,          \* extension ids
  Urls,         \* URLs of definitions
  MaxEdition,   \* bound: how often a new index is published
  MaxVersion,   \* bound: how often the definition at a URL is replaced
  Document,     \* the editions of the index: each maps its ids to URLs
  IndexUrl,     \* the URL of the index
  NoIndex,      \* h.index is nil
  AllIds        \* what a request for the list of extensions wants

ASSUME HttpRegistryAssumption ==
  /\ Ids # {} /\ Urls # {}
  /\ MaxEdition \in Nat
  /\ MaxVersion \in Nat
  /\ DOMAIN Document = 0..MaxEdition
  /\ \A e \in 0..MaxEdition : \E I \in SUBSET Ids : Document[e] \in [I -> Urls]
  /\ IndexUrl \notin Urls
  /\ NoIndex \notin 0..MaxEdition
  /\ AllIds \notin Ids

VARIABLES
  edition,    \* the edition of the index that is published
  version,    \* the definition at a URL, by the number of its replacements
  up,         \* the URLs that are served, with a body the manager understands
  index,      \* the edition of the cached index, httpRegistry.index
  pc,         \* where a request is
  wanted,     \* what a request wants: an id or AllIds
  todo,       \* ids a request has still to read; none before it has a list
  loaded,     \* an edition a request has loaded and not stored yet
  target,     \* the id and URL a request is about to fetch
  got,        \* definitions a request has read
  outcome,    \* what the registry returned to a request
  since,      \* history: the registry's content when a request began
  calm        \* history: nothing was disturbed during a request

remote == <<edition, version, up>>
history == <<since, calm>>
vars == <<remote, index, pc, wanted, todo, loaded, target, got, outcome, history>>

Labels == {"idle", "check", "load", "store", "use", "fetch"}
Editions == 0..MaxEdition
Contents == [edition : Editions, version : [Urls -> 0..MaxVersion]]
Definitions == UNION {[I -> 0..MaxVersion] : I \in SUBSET Ids}
Nothing == [i \in {} |-> 0]
Targets == Ids \X Urls
AnyTarget == CHOOSE t \in Targets : TRUE

Content == [edition |-> edition, version |-> version]
Healthy == up = Urls \cup {IndexUrl}

Init ==
  /\ edition = 0
  /\ version = [u \in Urls |-> 0]
  /\ up = Urls \cup {IndexUrl}
  /\ index = NoIndex
  /\ pc = [r \in Requests |-> "idle"]
  /\ wanted = [r \in Requests |-> AllIds]
  /\ todo = [r \in Requests |-> {}]
  /\ loaded = [r \in Requests |-> NoIndex]
  /\ target = [r \in Requests |-> AnyTarget]
  /\ got = [r \in Requests |-> Nothing]
  /\ outcome = [r \in Requests |-> "none"]
  /\ since = [r \in Requests |-> Content]
  /\ calm = [r \in Requests |-> TRUE]

----------------------------------------------------------------------------
(* The registry's content changes: a later edition is shown, as             *)
(* PublishedRegistry has it, or a definition is replaced at its URL.        *)
Publish ==
  /\ \E e \in Editions : e > edition /\ edition' = e
  /\ UNCHANGED <<version, up, index, pc, wanted, todo, loaded, target, got, outcome, history>>

Replace(u) ==
  /\ version[u] < MaxVersion
  /\ version' = [version EXCEPT ![u] = @ + 1]
  /\ UNCHANGED <<edition, up, index, pc, wanted, todo, loaded, target, got, outcome, history>>

GoDown(u) ==
  /\ u \in up
  /\ up' = up \ {u}
  /\ calm' = [r \in Requests |-> FALSE]
  /\ UNCHANGED <<edition, version, index, pc, wanted, todo, loaded, target, got, outcome,
                 since>>

ComeUp(u) ==
  /\ u \notin up
  /\ up' = up \cup {u}
  /\ UNCHANGED <<edition, version, index, pc, wanted, todo, loaded, target, got, outcome, history>>

----------------------------------------------------------------------------
Goto(r, label) == pc' = [pc EXCEPT ![r] = label]

Finish(r, o) ==
  /\ Goto(r, "idle")
  /\ outcome' = [outcome EXCEPT ![r] = o]

(* loadExtensionById for one id, getAllExtensions for AllIds.               *)
Begin(r, w) ==
  /\ pc[r] = "idle"
  /\ Goto(r, "check")
  /\ wanted' = [wanted EXCEPT ![r] = w]
  /\ todo' = [todo EXCEPT ![r] = {w} \ {AllIds}]
  /\ got' = [got EXCEPT ![r] = Nothing]
  /\ outcome' = [outcome EXCEPT ![r] = "none"]
  /\ since' = [since EXCEPT ![r] = Content]
  /\ calm' = [calm EXCEPT ![r] = Healthy]
  /\ UNCHANGED <<remote, index, loaded, target>>

(* Faulty variant: the index is loaded once, and a failed load is final.    *)
LoadOnlyOnce(r) ==
  /\ pc[r] = "check"
  /\ IF index = NoIndex /\ \E q \in Requests : outcome[q] = "error"
       THEN Finish(r, "error")
       ELSE Goto(r, IF index = NoIndex THEN "load" ELSE "use") /\ UNCHANGED outcome
  /\ UNCHANGED <<remote, index, wanted, todo, loaded, target, got, history>>

(* getIndex: is there a cached index?                                       *)
CheckCache(r) ==
  /\ pc[r] = "check"
  /\ Goto(r, IF index = NoIndex THEN "load" ELSE "use")
  /\ UNCHANGED <<remote, index, wanted, todo, loaded, target, got, outcome, history>>

LoadIndex(r) ==
  /\ pc[r] = "load"
  /\ IndexUrl \in up
  /\ loaded' = [loaded EXCEPT ![r] = edition]
  /\ Goto(r, "store")
  /\ UNCHANGED <<remote, index, wanted, todo, target, got, outcome, history>>

(* The error is returned and nothing is cached.                             *)
LoadIndexFails(r) ==
  /\ pc[r] = "load"
  /\ IndexUrl \notin up
  /\ Finish(r, "error")
  /\ UNCHANGED <<remote, index, wanted, todo, loaded, target, got, history>>

StoreIndex(r) ==
  /\ pc[r] = "store"
  /\ index' = loaded[r]
  /\ loaded' = [loaded EXCEPT ![r] = NoIndex]
  /\ Goto(r, "use")
  /\ UNCHANGED <<remote, wanted, todo, target, got, outcome, history>>

(* FindExtensions: getIndex reads the field once more and its ids are what  *)
(* the controller will read, each with a getIndex of its own.               *)
ListIds(r) ==
  /\ pc[r] = "use"
  /\ todo[r] = {}
  /\ todo' = [todo EXCEPT ![r] = DOMAIN Document[index]]
  /\ IF DOMAIN Document[index] = {} THEN Finish(r, "ok")
                          ELSE Goto(r, "check") /\ UNCHANGED outcome
  /\ UNCHANGED <<remote, index, wanted, loaded, target, got, history>>

(* ReadExtension: look the id up in the index.                              *)
Lookup(r, id) ==
  /\ pc[r] = "use"
  /\ id \in todo[r]
  /\ id \in DOMAIN Document[index]
  /\ target' = [target EXCEPT ![r] = <<id, Document[index][id]>>]
  /\ Goto(r, "fetch")
  /\ UNCHANGED <<remote, index, wanted, todo, loaded, got, outcome, history>>

(* Faulty variant: the request goes on with what GetExtension returns for   *)
(* an unknown id.                                                           *)
FetchUnknown(r, id) ==
  /\ pc[r] = "use"
  /\ id \in todo[r]
  /\ id \notin DOMAIN Document[index]
  /\ target' = [target EXCEPT ![r] = <<id, NoIndex>>]
  /\ Goto(r, "fetch")
  /\ UNCHANGED <<remote, index, wanted, todo, loaded, got, outcome, history>>

LookupFails(r, id) ==
  /\ pc[r] = "use"
  /\ id \in todo[r]
  /\ id \notin DOMAIN Document[index]
  /\ target' = [target EXCEPT ![r][1] = id]
  /\ Finish(r, "notFound")
  /\ UNCHANGED <<remote, index, wanted, todo, loaded, got, history>>

Have(r, id, v) ==
  [i \in DOMAIN got[r] \cup {id} |-> IF i = id THEN v ELSE got[r][i]]

(* Faulty variants: a definition that another request has read is reused;   *)
(* a definition that cannot be read is left out of the list.                *)
FetchOnce(r) ==
  LET id == target[r][1]
      known == {q \in Requests : id \in DOMAIN got[q]}
      v == IF known = {} THEN version[target[r][2]]
                         ELSE got[CHOOSE q \in known : TRUE][id] IN
  /\ pc[r] = "fetch"
  /\ target[r][2] \in up
  /\ got' = [got EXCEPT ![r] = Have(r, id, v)]
  /\ todo' = [todo EXCEPT ![r] = @ \ {id}]
  /\ IF todo[r] = {id} THEN Finish(r, "ok")
                       ELSE Goto(r, "check") /\ UNCHANGED outcome
  /\ UNCHANGED <<remote, index, wanted, loaded, target, history>>

SkipUnreadable(r) ==
  /\ pc[r] = "fetch"
  /\ target[r][2] \notin up
  /\ todo' = [todo EXCEPT ![r] = @ \ {target[r][1]}]
  /\ IF todo[r] = {target[r][1]} THEN Finish(r, "ok")
                                 ELSE Goto(r, "check") /\ UNCHANGED outcome
  /\ UNCHANGED <<remote, index, wanted, loaded, target, got, history>>

(* Definitions are fetched for every read, only the index is cached.  The   *)
(* controller evaluates the definition and goes on with the next id.        *)
Fetch(r) ==
  LET id == target[r][1] IN
  /\ pc[r] = "fetch"
  /\ target[r][2] \in up
  /\ got' = [got EXCEPT ![r] = Have(r, id, version[target[r][2]])]
  /\ todo' = [todo EXCEPT ![r] = @ \ {id}]
  /\ IF todo[r] = {id} THEN Finish(r, "ok")
                       ELSE Goto(r, "check") /\ UNCHANGED outcome
  /\ UNCHANGED <<remote, index, wanted, loaded, target, history>>

(* One definition that cannot be read fails the list of all.                *)
FetchFails(r) ==
  /\ pc[r] = "fetch"
  /\ target[r][2] \notin up
  /\ Finish(r, "error")
  /\ UNCHANGED <<remote, index, wanted, todo, loaded, target, got, history>>

----------------------------------------------------------------------------
Environment ==
  \/ Publish
  \/ \E u \in Urls : Replace(u)
  \/ \E u \in Urls \cup {IndexUrl} : GoDown(u) \/ ComeUp(u)

Request(r) ==
  \/ \E w \in Ids \cup {AllIds} : Begin(r, w)
  \/ CheckCache(r) \/ LoadIndex(r) \/ LoadIndexFails(r) \/ StoreIndex(r)
  \/ ListIds(r)
  \/ \E id \in Ids : Lookup(r, id) \/ LookupFails(r, id)
  \/ Fetch(r) \/ FetchFails(r)

Next == Environment \/ \E r \in Requests : Request(r)

Spec == Init /\ [][Next]_vars

----------------------------------------------------------------------------
TypeOK ==
  /\ edition \in Editions
  /\ version \in [Urls -> 0..MaxVersion]
  /\ up \subseteq Urls \cup {IndexUrl}
  /\ index \in Editions \cup {NoIndex}
  /\ pc \in [Requests -> Labels]
  /\ wanted \in [Requests -> Ids \cup {AllIds}]
  /\ todo \in [Requests -> SUBSET Ids]
  /\ loaded \in [Requests -> Editions \cup {NoIndex}]
  /\ target \in [Requests -> Targets]
  /\ got \in [Requests -> Definitions]
  /\ outcome \in [Requests -> {"none", "ok", "error", "notFound"}]
  /\ since \in [Requests -> Contents]
  /\ calm \in [Requests -> BOOLEAN]

(* A definition is never older than the request that reads it, whatever the *)
(* other requests have read before: http.go caches the index only.          *)
FreshDefinitions ==
  \A r \in Requests : \A i \in DOMAIN got[r] :
    \E e \in Editions :
      /\ i \in DOMAIN Document[e]
      /\ got[r][i] >= since[r].version[Document[e][i]]

(* A list of extensions that is returned has a definition for every id of   *)
(* an index of the registry, although the cached index can change between   *)
(* FindExtensions and the ReadExtension of each id.                         *)
WholeList ==
  \A r \in Requests :
    outcome[r] = "ok" /\ wanted[r] = AllIds =>
      \E e \in Editions : DOMAIN got[r] = DOMAIN Document[e]

(* An outage leaves no trace in the cache: a request during which the       *)
(* registry serves everything does not fail, unless an id it wants is       *)
(* missing in an index of the registry.                                     *)
OutageIsForgotten ==
  \A r \in Requests : calm[r] /\ pc[r] = "idle" =>
    /\ outcome[r] # "error"
    /\ outcome[r] = "notFound" => \E e \in Editions : target[r][1] \notin DOMAIN Document[e]

(* "Cache expiration is not necessary because a new instance of the EM      *)
(* controller is created for each request" (design.md): the index a request *)
(* uses was published at some time during the request.                      *)
IndexOfThisRequest ==
  [][\A r \in Requests : pc[r] = "use" => index >= since[r].edition]_vars
=============================================================================
