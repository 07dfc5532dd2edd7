------------------------ MODULE HttpRegistry_proofs ------------------------
(***************************************************************************)
(* Proofs about HttpRegistry for any number of requests, any registry, and *)
(* any number of editions and of replaced definitions.                     *)
(***************************************************************************)
EXTENDS HttpRegistry, FiniteSetTheorems, TLAPS

USE DEF vars, remote, history

----------------------------------------------------------------------------
(* A request at "use" finds an index and one at "store" has one.  What is   *)
(* fetched is an id the request wants, at a URL some edition has for it.    *)
OnItsWay(r) ==
  /\ pc[r] # "idle" => outcome[r] = "none"
  /\ pc[r] = "store" => loaded[r] \in Editions
  /\ pc[r] = "use" => index \in Editions
  /\ pc[r] = "fetch" =>
       /\ target[r][1] \in todo[r]
       /\ \E e \in Editions :
            target[r][1] \in DOMAIN Document[e] /\ Document[e][target[r][1]] = target[r][2]

(* What has been read and what has still to be read are an index together.  *)
Listing(r) ==
  /\ pc[r] # "idle" /\ todo[r] = {} => DOMAIN got[r] = {}
  /\ pc[r] # "idle" /\ todo[r] # {} /\ wanted[r] = AllIds =>
       \E e \in Editions : DOMAIN got[r] \cup todo[r] = DOMAIN Document[e]

(* Definitions are only replaced by later ones; calm means that all is up.  *)
Since(r) ==
  /\ \A u \in Urls : since[r].version[u] <= version[u]
  /\ calm[r] => Healthy

IInv ==
  /\ TypeOK
  /\ \A r \in Requests : OnItsWay(r) /\ Listing(r) /\ Since(r)
  /\ FreshDefinitions /\ WholeList /\ OutageIsForgotten

----------------------------------------------------------------------------
LEMMA DocumentTypes ==
  ASSUME NEW e \in Editions
  PROVE  /\ DOMAIN Document[e] \subseteq Ids
         /\ \A id \in DOMAIN Document[e] : Document[e][id] \in Urls
BY HttpRegistryAssumption DEF Editions

LEMMA NothingIsTyped == Nothing \in Definitions /\ DOMAIN Nothing = {}
<1>1. Nothing \in [{} -> 0..MaxVersion]
  BY DEF Nothing
<1> QED
  BY <1>1 DEF Definitions

LEMMA DefinitionTypes ==
  ASSUME NEW d \in Definitions
  PROVE  DOMAIN d \subseteq Ids /\ \A id \in DOMAIN d : d[id] \in 0..MaxVersion
BY DEF Definitions

LEMMA HaveIsTyped ==
  ASSUME NEW r \in Requests, got \in [Requests -> Definitions], NEW id \in Ids,
         NEW v \in 0..MaxVersion
  PROVE  /\ Have(r, id, v) \in Definitions
         /\ DOMAIN Have(r, id, v) = DOMAIN got[r] \cup {id}
         /\ Have(r, id, v)[id] = v
         /\ \A i \in DOMAIN got[r] : i # id => Have(r, id, v)[i] = got[r][i]
<1> DEFINE I == DOMAIN got[r] \cup {id}
<1>1. I \in SUBSET Ids
  BY DefinitionTypes
<1>2. Have(r, id, v) \in [I -> 0..MaxVersion]
  BY DefinitionTypes DEF Have
<1> QED
  BY <1>1, <1>2 DEF Definitions, Have

LEMMA ContentIsTyped ==
  ASSUME TypeOK
  PROVE  Content \in Contents /\ Content.version = version
BY DEF TypeOK, Content, Contents

LEMMA Initially == Init => IInv
<1> SUFFICES ASSUME Init PROVE IInv
  OBVIOUS
<1> USE DEF Init
<1>1. AnyTarget \in Targets
  <2>1. \E t \in Targets : TRUE
    <3>1. PICK i \in Ids, u \in Urls : TRUE
      BY HttpRegistryAssumption
    <3>2. <<i, u>> \in Targets
      BY DEF Targets
    <3> QED
      BY <3>2
  <2> QED
    BY <2>1, Zenon DEF AnyTarget
<1>2. /\ edition \in Editions /\ version \in [Urls -> 0..MaxVersion]
      /\ up \subseteq Urls \cup {IndexUrl} /\ index \in Editions \cup {NoIndex}
  BY HttpRegistryAssumption DEF Editions
<1>3. Content \in Contents /\ Content.version = version
  BY <1>2 DEF Content, Contents
<1>4. TypeOK
  BY <1>1, <1>2, <1>3, NothingIsTyped DEF TypeOK, Labels
<1>5. ASSUME NEW r \in Requests PROVE OnItsWay(r) /\ Listing(r) /\ Since(r)
  <2>1. \A u \in Urls : since[r].version[u] <= version[u]
    BY <1>3, HttpRegistryAssumption
  <2> QED
    BY <2>1 DEF OnItsWay, Listing, Since, Healthy
<1>6. FreshDefinitions /\ WholeList /\ OutageIsForgotten
  BY NothingIsTyped DEF FreshDefinitions, WholeList, OutageIsForgotten
<1> QED
  BY <1>4, <1>5, <1>6 DEF IInv

----------------------------------------------------------------------------
(* The registry's content changes.                                          *)
LEMMA ReplaceVersion ==
  ASSUME TypeOK, Environment
  PROVE  version' \in [Urls -> 0..MaxVersion] /\ \A u \in Urls : version[u] <= version'[u]
<1>1. version \in [Urls -> 0..MaxVersion] /\ \A u \in Urls : version[u] \in Nat
  BY HttpRegistryAssumption DEF TypeOK
<1>2. CASE version' = version
  BY <1>1, <1>2
<1>3. ASSUME NEW u \in Urls, Replace(u)
      PROVE  version' \in [Urls -> 0..MaxVersion] /\ \A w \in Urls : version[w] <= version'[w]
  <2>1. version[u] + 1 \in 0..MaxVersion
    BY <1>1, <1>3, HttpRegistryAssumption DEF Replace
  <2>2. version' = [version EXCEPT ![u] = version[u] + 1]
    BY <1>3 DEF Replace
  <2> QED
    BY <1>1, <2>1, <2>2
<1> QED
  BY <1>2, <1>3 DEF Environment, Publish, GoDown, ComeUp

LEMMA EnvironmentStep == IInv /\ Environment => IInv'
<1> SUFFICES ASSUME IInv, Environment PROVE IInv'
  OBVIOUS
<1>1. UNCHANGED <<index, pc, wanted, todo, loaded, target, got, outcome, since>>
  BY DEF Environment, Publish, Replace, GoDown, ComeUp
<1>2. TypeOK'
  <2>1. edition' \in Editions
    BY DEF Environment, Publish, Replace, GoDown, ComeUp, IInv, TypeOK
  <2>2. version' \in [Urls -> 0..MaxVersion]
    BY ReplaceVersion DEF IInv
  <2>3. up' \subseteq Urls \cup {IndexUrl}
    BY DEF Environment, Publish, Replace, GoDown, ComeUp, IInv, TypeOK
  <2>4. calm' \in [Requests -> BOOLEAN]
    BY DEF Environment, Publish, Replace, GoDown, ComeUp, IInv, TypeOK
  <2> QED
    BY <1>1, <2>1, <2>2, <2>3, <2>4 DEF IInv, TypeOK
<1>3. \A u \in Urls : version[u] <= version'[u]
  BY ReplaceVersion DEF IInv
<1>4. \A r \in Requests : calm'[r] => calm[r] /\ (Healthy => Healthy')
  BY DEF Environment, Publish, Replace, GoDown, ComeUp, IInv, TypeOK, Healthy
<1>5. ASSUME NEW r \in Requests PROVE OnItsWay(r)' /\ Listing(r)' /\ Since(r)'
  <2>1. OnItsWay(r)' /\ Listing(r)'
    BY <1>1 DEF IInv, OnItsWay, Listing
  <2>2. \A u \in Urls : since[r].version[u] \in Nat /\ version[u] \in Nat /\ version'[u] \in Nat
    BY <1>2, HttpRegistryAssumption DEF IInv, TypeOK, Contents
  <2>3. \A u \in Urls : since'[r].version[u] <= version'[u]
    BY <1>1, <1>3, <2>2 DEF IInv, Since
  <2>4. calm'[r] => Healthy'
    BY <1>4 DEF IInv, Since
  <2> QED
    BY <2>1, <2>3, <2>4 DEF Since
<1>6. FreshDefinitions' /\ WholeList'
  BY <1>1 DEF IInv, FreshDefinitions, WholeList
<1>7. OutageIsForgotten'
  BY <1>1, <1>4 DEF IInv, OutageIsForgotten
<1> QED
  BY <1>2, <1>5, <1>6, <1>7 DEF IInv

(* A step of one request leaves the others, but for the index, which it     *)
(* never takes away.                                                        *)
LEMMA OthersKeep ==
  ASSUME IInv, NEW r \in Requests, Request(r), NEW q \in Requests, q # r
  PROVE  /\ OnItsWay(q)' /\ Listing(q)' /\ Since(q)'
         /\ pc'[q] = pc[q] /\ wanted'[q] = wanted[q] /\ target'[q] = target[q]
         /\ got'[q] = got[q] /\ outcome'[q] = outcome[q]
         /\ since'[q] = since[q] /\ calm'[q] = calm[q]
<1> USE DEF Request, Begin, CheckCache, LoadIndex, LoadIndexFails, StoreIndex, ListIds, Lookup,
            LookupFails, Fetch, FetchFails, Goto, Finish
<1>1. UNCHANGED remote
  OBVIOUS
<1>2. pc'[q] = pc[q] /\ outcome'[q] = outcome[q]
  BY DEF IInv, TypeOK
<1>3. wanted'[q] = wanted[q] /\ todo'[q] = todo[q] /\ loaded'[q] = loaded[q]
  BY DEF IInv, TypeOK
<1>4. target'[q] = target[q] /\ got'[q] = got[q]
  BY DEF IInv, TypeOK
<1>5. since'[q] = since[q] /\ calm'[q] = calm[q]
  BY DEF IInv, TypeOK
<1>6. index' = index \/ index' \in Editions
  <2>1. CASE StoreIndex(r)
    BY <2>1 DEF IInv, OnItsWay
  <2> QED
    BY <2>1
<1>7. OnItsWay(q)' /\ Listing(q)' /\ Since(q)'
  BY <1>1, <1>2, <1>3, <1>4, <1>5, <1>6 DEF IInv, OnItsWay, Listing, Since, Healthy
<1> QED
  BY <1>2, <1>3, <1>4, <1>5, <1>7

(* The properties are about one request each.                               *)
FreshOf(r) ==
  \A i \in DOMAIN got[r] :
    \E e \in Editions :
      /\ i \in DOMAIN Document[e]
      /\ got[r][i] >= since[r].version[Document[e][i]]
WholeOf(r) ==
  outcome[r] = "ok" /\ wanted[r] = AllIds =>
    \E e \in Editions : DOMAIN got[r] = DOMAIN Document[e]
ForgottenOf(r) ==
  calm[r] /\ pc[r] = "idle" =>
    /\ outcome[r] # "error"
    /\ outcome[r] = "notFound" => \E e \in Editions : target[r][1] \notin DOMAIN Document[e]
Own(r) == OnItsWay(r) /\ Listing(r) /\ Since(r) /\ FreshOf(r) /\ WholeOf(r) /\ ForgottenOf(r)

LEMMA OneByOne ==
  ASSUME IInv, NEW r \in Requests, Request(r), TypeOK', Own(r)'
  PROVE  IInv'
<1>1. ASSUME NEW q \in Requests PROVE Own(q)'
  <2>1. CASE q = r
    BY <2>1
  <2>2. CASE q # r
    BY <2>2, OthersKeep DEF IInv, Own, FreshDefinitions, WholeList, OutageIsForgotten, FreshOf,
       WholeOf, ForgottenOf
  <2> QED
    BY <2>1, <2>2
<1> QED
  BY <1>1 DEF IInv, Own, FreshDefinitions, WholeList, OutageIsForgotten, FreshOf, WholeOf,
     ForgottenOf

----------------------------------------------------------------------------
LEMMA BeginStep ==
  ASSUME IInv, NEW r \in Requests, NEW w \in Ids \cup {AllIds}, Begin(r, w)
  PROVE  IInv'
<1> USE DEF Begin, Goto
<1>1. TypeOK'
  <2>1. {w} \ {AllIds} \in SUBSET Ids /\ Healthy \in BOOLEAN
    BY DEF Healthy
  <2>2. since' \in [Requests -> Contents] /\ calm' \in [Requests -> BOOLEAN]
    BY <2>1, ContentIsTyped DEF IInv, TypeOK
  <2>3. got' \in [Requests -> Definitions] /\ todo' \in [Requests -> SUBSET Ids]
    BY <2>1, NothingIsTyped DEF IInv, TypeOK
  <2>4. /\ pc' \in [Requests -> Labels] /\ wanted' \in [Requests -> Ids \cup {AllIds}]
        /\ outcome' \in [Requests -> {"none", "ok", "error", "notFound"}]
    BY DEF IInv, TypeOK, Labels
  <2> QED
    BY <2>2, <2>3, <2>4 DEF IInv, TypeOK
<1>2. /\ pc'[r] = "check" /\ wanted'[r] = w /\ todo'[r] = {w} \ {AllIds} /\ got'[r] = Nothing
      /\ outcome'[r] = "none" /\ since'[r] = Content /\ calm'[r] = Healthy
  BY DEF IInv, TypeOK
<1>3. OnItsWay(r)' /\ WholeOf(r)' /\ ForgottenOf(r)'
  BY <1>2 DEF OnItsWay, WholeOf, ForgottenOf
<1>4. Listing(r)' /\ FreshOf(r)'
  BY <1>2, NothingIsTyped DEF Listing, FreshOf
<1>5. Since(r)'
  <2>1. since'[r].version = version /\ version' = version
    BY <1>2, ContentIsTyped DEF IInv
  <2>2. \A u \in Urls : version[u] <= version[u]
    BY HttpRegistryAssumption DEF IInv, TypeOK
  <2>3. \A u \in Urls : since'[r].version[u] <= version'[u]
    BY <2>1, <2>2
  <2>4. calm'[r] => Healthy'
    BY <1>2 DEF Healthy
  <2> QED
    BY <2>3, <2>4 DEF Since
<1>6. Request(r)
  BY DEF Request
<1> QED
  BY <1>1, <1>3, <1>4, <1>5, <1>6, OneByOne DEF Own

(* getIndex: a request that finds or loads no index ends.                   *)
LEMMA IndexStep ==
  ASSUME IInv, NEW r \in Requests,
         CheckCache(r) \/ LoadIndex(r) \/ LoadIndexFails(r) \/ StoreIndex(r)
  PROVE  IInv'
<1> USE DEF CheckCache, LoadIndex, LoadIndexFails, StoreIndex, Goto, Finish
<1>1. UNCHANGED <<remote, wanted, todo, target, got, history>>
  OBVIOUS
<1>2. TypeOK'
  <2>1. pc' \in [Requests -> Labels]
    BY DEF IInv, TypeOK, Labels
  <2>2. outcome' \in [Requests -> {"none", "ok", "error", "notFound"}]
    BY DEF IInv, TypeOK
  <2>3. index' \in Editions \cup {NoIndex}
    BY DEF IInv, TypeOK
  <2>4. loaded' \in [Requests -> Editions \cup {NoIndex}]
    BY DEF IInv, TypeOK
  <2> QED
    BY <1>1, <2>1, <2>2, <2>3, <2>4 DEF IInv, TypeOK
<1>3. outcome[r] = "none" /\ pc[r] # "idle"
  BY DEF IInv, OnItsWay
<1>4. OnItsWay(r)'
  BY <1>3, HttpRegistryAssumption DEF IInv, OnItsWay, TypeOK, Editions
<1>5. Listing(r)' /\ Since(r)' /\ FreshOf(r)'
  BY <1>1, <1>3 DEF IInv, Listing, Since, FreshOf, FreshDefinitions, Healthy
<1>6. outcome'[r] \in {"none", "error"}
  BY <1>3 DEF IInv, TypeOK
<1>7. WholeOf(r)'
  BY <1>6 DEF WholeOf
<1>8. ForgottenOf(r)'
  <2>1. calm[r] => up = Urls \cup {IndexUrl}
    BY DEF IInv, Since, Healthy
  <2> QED
    BY <1>1, <1>3, <2>1 DEF ForgottenOf, IInv, TypeOK
<1>9. Request(r)
  BY DEF Request
<1> QED
  BY <1>2, <1>4, <1>5, <1>7, <1>8, <1>9, OneByOne DEF Own

(* FindExtensions: the ids of the index become what is to be read.          *)
LEMMA ListIdsStep ==
  ASSUME IInv, NEW r \in Requests, ListIds(r)
  PROVE  IInv'
<1> USE DEF ListIds, Goto, Finish
<1>1. /\ UNCHANGED <<remote, index, wanted, loaded, target, got, history>>
      /\ pc[r] = "use" /\ todo[r] = {}
  OBVIOUS
<1>2. index \in Editions /\ outcome[r] = "none" /\ DOMAIN got[r] = {}
  BY DEF IInv, OnItsWay, Listing
<1>3. DOMAIN Document[index] \in SUBSET Ids
  BY <1>2, DocumentTypes
<1>4. /\ todo'[r] = DOMAIN Document[index]
      /\ IF todo'[r] = {} THEN pc'[r] = "idle" /\ outcome'[r] = "ok"
                          ELSE pc'[r] = "check" /\ outcome'[r] = "none"
  BY <1>2 DEF IInv, TypeOK
<1>5. TypeOK'
  <2>1. pc' \in [Requests -> Labels]
    BY DEF IInv, TypeOK, Labels
  <2>2. outcome' \in [Requests -> {"none", "ok", "error", "notFound"}]
    BY DEF IInv, TypeOK
  <2>3. todo' \in [Requests -> SUBSET Ids]
    BY <1>3 DEF IInv, TypeOK
  <2> QED
    BY <1>1, <2>1, <2>2, <2>3 DEF IInv, TypeOK
<1>6. OnItsWay(r)' /\ Since(r)' /\ FreshOf(r)' /\ ForgottenOf(r)'
  BY <1>1, <1>4 DEF IInv, OnItsWay, Since, Healthy, FreshOf, FreshDefinitions, ForgottenOf
<1>7. Listing(r)' /\ WholeOf(r)'
  BY <1>1, <1>2, <1>4 DEF Listing, WholeOf
<1>8. Request(r)
  BY DEF Request
<1> QED
  BY <1>5, <1>6, <1>7, <1>8, OneByOne DEF Own

(* ReadExtension: an id has the URL the cached index gives it.              *)
LEMMA LookupStep ==
  ASSUME IInv, NEW r \in Requests, NEW id \in Ids, Lookup(r, id)
  PROVE  IInv'
<1> USE DEF Lookup, Goto
<1>1. /\ UNCHANGED <<remote, index, wanted, todo, loaded, got, outcome, history>>
      /\ pc[r] = "use" /\ id \in todo[r] /\ id \in DOMAIN Document[index]
  OBVIOUS
<1>2. index \in Editions
  BY <1>1 DEF IInv, OnItsWay
<1>3. Document[index][id] \in Urls
  BY <1>1, <1>2, DocumentTypes
<1>4. target'[r] = <<id, Document[index][id]>> /\ pc'[r] = "fetch"
  BY DEF IInv, TypeOK
<1>5. TypeOK'
  <2>1. pc' \in [Requests -> Labels]
    BY DEF IInv, TypeOK, Labels
  <2>2. target' \in [Requests -> Targets]
    BY <1>3 DEF IInv, TypeOK, Targets
  <2> QED
    BY <1>1, <2>1, <2>2 DEF IInv, TypeOK
<1>6. OnItsWay(r)'
  <2>1. target'[r][1] = id /\ target'[r][2] = Document[index][id]
    BY <1>4
  <2> QED
    BY <1>1, <1>2, <1>4, <2>1 DEF IInv, OnItsWay
<1>7. Listing(r)' /\ Since(r)' /\ FreshOf(r)' /\ WholeOf(r)' /\ ForgottenOf(r)'
  BY <1>1, <1>4 DEF IInv, Listing, Since, Healthy, FreshOf, FreshDefinitions, WholeOf, WholeList,
     ForgottenOf
<1>8. Request(r)
  BY DEF Request
<1> QED
  BY <1>5, <1>6, <1>7, <1>8, OneByOne DEF Own

LEMMA LookupFailsStep ==
  ASSUME IInv, NEW r \in Requests, NEW id \in Ids, LookupFails(r, id)
  PROVE  IInv'
<1> USE DEF LookupFails, Goto, Finish
<1>1. /\ UNCHANGED <<remote, index, wanted, todo, loaded, got, history>>
      /\ pc[r] = "use" /\ id \in todo[r] /\ id \notin DOMAIN Document[index]
  OBVIOUS
<1>2. index \in Editions
  BY <1>1 DEF IInv, OnItsWay
<1>3. target[r] \in Ids \X Urls
  BY DEF IInv, TypeOK, Targets
<1>4. target' = [target EXCEPT ![r] = [target[r] EXCEPT ![1] = id]]
  OBVIOUS
<1>5. [target[r] EXCEPT ![1] = id] = <<id, target[r][2]>>
  BY <1>3
<1>6. target'[r] = <<id, target[r][2]>> /\ pc'[r] = "idle" /\ outcome'[r] = "notFound"
  BY <1>4, <1>5 DEF IInv, TypeOK
<1>7. TypeOK'
  <2>1. pc' \in [Requests -> Labels]
    BY DEF IInv, TypeOK, Labels
  <2>2. outcome' \in [Requests -> {"none", "ok", "error", "notFound"}]
    BY DEF IInv, TypeOK
  <2>3. [target[r] EXCEPT ![1] = id] \in Targets
    BY <1>3, <1>5 DEF Targets
  <2>4. target \in [Requests -> Targets]
    BY DEF IInv, TypeOK
  <2>5. target' \in [Requests -> Targets]
    <3> DEFINE t == [target[r] EXCEPT ![1] = id]
    <3>1. target' = [target EXCEPT ![r] = t] /\ t \in Targets
      BY <1>4, <2>3
    <3> HIDE DEF t, LookupFails
    <3> QED
      BY <2>4, <3>1
  <2> QED
    BY <1>1, <2>1, <2>2, <2>5 DEF IInv, TypeOK
<1>8. OnItsWay(r)' /\ Listing(r)' /\ Since(r)' /\ FreshOf(r)' /\ WholeOf(r)'
  BY <1>1, <1>6 DEF IInv, OnItsWay, Listing, Since, Healthy, FreshOf, FreshDefinitions, WholeOf
<1>9. ForgottenOf(r)'
  <2>1. target'[r][1] = id
    BY <1>6
  <2> QED
    BY <1>1, <1>2, <1>6, <2>1 DEF ForgottenOf
<1>10. Request(r)
  BY DEF Request
<1> QED
  BY <1>7, <1>8, <1>9, <1>10, OneByOne DEF Own

(* The definition that is read is the one at the URL now, which is not      *)
(* older than when the request began.                                       *)
LEMMA FetchStep ==
  ASSUME IInv, NEW r \in Requests, Fetch(r)
  PROVE  IInv'
<1> USE DEF Fetch, Goto, Finish
<1> DEFINE id == target[r][1]
           u == target[r][2]
           v == version[u]
<1>1. /\ UNCHANGED <<remote, index, wanted, loaded, target, history>> /\ pc[r] = "fetch"
  OBVIOUS
<1>2. id \in Ids /\ u \in Urls /\ v \in 0..MaxVersion
  BY DEF IInv, TypeOK, Targets
<1>3. id \in todo[r] /\ outcome[r] = "none"
  BY <1>1 DEF IInv, OnItsWay
<1>4. PICK e \in Editions : id \in DOMAIN Document[e] /\ Document[e][id] = u
  BY <1>1 DEF IInv, OnItsWay
<1>5. /\ got'[r] = Have(r, id, v) /\ todo'[r] = todo[r] \ {id}
      /\ IF todo[r] = {id} THEN pc'[r] = "idle" /\ outcome'[r] = "ok"
                           ELSE pc'[r] = "check" /\ outcome'[r] = "none"
  BY <1>3 DEF IInv, TypeOK
<1>6. /\ Have(r, id, v) \in Definitions
      /\ DOMAIN Have(r, id, v) = DOMAIN got[r] \cup {id}
      /\ Have(r, id, v)[id] = v
      /\ \A i \in DOMAIN got[r] : i # id => Have(r, id, v)[i] = got[r][i]
  <2>1. got \in [Requests -> Definitions]
    BY DEF IInv, TypeOK
  <2> HIDE DEF id, u, v, Fetch
  <2> QED
    BY <1>2, <2>1, HaveIsTyped
<1> HIDE DEF id, u, v
<1>7. TypeOK'
  <2>1. pc' \in [Requests -> Labels]
    BY DEF IInv, TypeOK, Labels
  <2>2. outcome' \in [Requests -> {"none", "ok", "error", "notFound"}]
    BY DEF IInv, TypeOK
  <2>3. todo' \in [Requests -> SUBSET Ids]
    BY DEF IInv, TypeOK
  <2>4. got' \in [Requests -> Definitions]
    BY <1>6 DEF IInv, TypeOK, id, u, v
  <2> QED
    BY <1>1, <2>1, <2>2, <2>3, <2>4 DEF IInv, TypeOK
<1>8. OnItsWay(r)' /\ Since(r)' /\ ForgottenOf(r)'
  BY <1>1, <1>5 DEF IInv, OnItsWay, Since, Healthy, ForgottenOf
<1>9. DOMAIN got'[r] \cup todo'[r] = DOMAIN got[r] \cup todo[r]
  BY <1>3, <1>5, <1>6
<1>10. wanted[r] = AllIds => \E x \in Editions : DOMAIN got[r] \cup todo[r] = DOMAIN Document[x]
  BY <1>1, <1>3 DEF IInv, Listing
<1>11. Listing(r)' /\ WholeOf(r)'
  <2>1. wanted'[r] = wanted[r] /\ (pc'[r] = "idle" <=> todo'[r] = {})
    BY <1>1, <1>3, <1>5
  <2>2. wanted'[r] = AllIds =>
          \E x \in Editions : DOMAIN got'[r] \cup todo'[r] = DOMAIN Document[x]
    BY <1>9, <1>10, <2>1
  <2>3. Listing(r)'
    BY <2>1, <2>2 DEF Listing
  <2>4. outcome'[r] = "ok" => todo'[r] = {}
    BY <1>5
  <2>5. WholeOf(r)'
    BY <2>2, <2>4 DEF WholeOf
  <2> QED
    BY <2>3, <2>5
<1>12. FreshOf(r)'
  <2> SUFFICES ASSUME NEW i \in DOMAIN got'[r]
               PROVE  \E x \in Editions :
                        /\ i \in DOMAIN Document[x]
                        /\ got'[r][i] >= since[r].version[Document[x][i]]
    BY <1>1 DEF FreshOf
  <2>1. CASE i = id
    <3>1. since[r].version[u] <= version[u]
      BY <1>2 DEF IInv, Since
    <3>2. since[r].version[u] \in Nat /\ version[u] \in Nat
      BY <1>2, HttpRegistryAssumption DEF IInv, TypeOK, Contents
    <3>3. got'[r][i] >= since[r].version[Document[e][i]]
      BY <1>4, <1>5, <1>6, <2>1, <3>1, <3>2 DEF v
    <3> QED
      BY <1>4, <2>1, <3>3
  <2>2. CASE i # id
    <3>1. i \in DOMAIN got[r] /\ got'[r][i] = got[r][i]
      BY <1>5, <1>6, <2>2
    <3> QED
      BY <3>1 DEF IInv, FreshDefinitions
  <2> QED
    BY <2>1, <2>2
<1>13. Request(r)
  BY DEF Request
<1> QED
  BY <1>7, <1>8, <1>11, <1>12, <1>13, OneByOne DEF Own

LEMMA FetchFailsStep ==
  ASSUME IInv, NEW r \in Requests, FetchFails(r)
  PROVE  IInv'
<1> USE DEF FetchFails, Goto, Finish
<1>1. /\ UNCHANGED <<remote, index, wanted, todo, loaded, target, got, history>>
      /\ pc'[r] = "idle" /\ outcome'[r] = "error"
  BY DEF IInv, TypeOK
<1>2. TypeOK'
  <2>1. pc' \in [Requests -> Labels]
    BY DEF IInv, TypeOK, Labels
  <2>2. outcome' \in [Requests -> {"none", "ok", "error", "notFound"}]
    BY DEF IInv, TypeOK
  <2> QED
    BY <1>1, <2>1, <2>2 DEF IInv, TypeOK
<1>3. target[r][2] \in Urls
  BY DEF IInv, TypeOK, Targets
<1>4. ~calm[r]
  BY <1>3 DEF IInv, Since, Healthy
<1>5. Own(r)'
  BY <1>1, <1>4 DEF IInv, Own, OnItsWay, Listing, Since, Healthy, FreshOf, FreshDefinitions,
     WholeOf, ForgottenOf
<1>6. Request(r)
  BY DEF Request
<1> QED
  BY <1>2, <1>5, <1>6, OneByOne

LEMMA Stutters == IInv /\ UNCHANGED vars => IInv'
BY DEF IInv, TypeOK, OnItsWay, Listing, Since, Healthy, FreshDefinitions, WholeList,
   OutageIsForgotten

LEMMA Preserved == IInv /\ [Next]_vars => IInv'
<1> SUFFICES ASSUME IInv, [Next]_vars PROVE IInv'
  OBVIOUS
<1>1. ASSUME NEW r \in Requests, Request(r) PROVE IInv'
  BY <1>1, BeginStep, IndexStep, ListIdsStep, LookupStep, LookupFailsStep, FetchStep,
     FetchFailsStep DEF Request
<1> QED
  BY <1>1, EnvironmentStep, Stutters DEF Next

LEMMA Invariance == Spec => []IInv
BY Initially, Preserved, PTL DEF Spec

----------------------------------------------------------------------------
(* The registry, its cache and the requests have their types.               *)
THEOREM RegistryTypes == Spec => []TypeOK
<1>1. IInv => TypeOK
  BY DEF IInv
<1> QED
  BY <1>1, Invariance, PTL

(* A definition that is read is at least as new as the request: the cache   *)
(* of http.go holds the index, never definitions.                           *)
THEOREM AlwaysFresh == Spec => []FreshDefinitions
<1>1. IInv => FreshDefinitions
  BY DEF IInv
<1> QED
  BY <1>1, Invariance, PTL

(* A list of extensions that is returned is whole, although every           *)
(* ReadExtension reads the cached index again.                              *)
THEOREM ListsAreWhole == Spec => []WholeList
<1>1. IInv => WholeList
  BY DEF IInv
<1> QED
  BY <1>1, Invariance, PTL

(* A failure to load the index is not remembered.                           *)
THEOREM OutagesAreForgotten == Spec => []OutageIsForgotten
<1>1. IInv => OutageIsForgotten
  BY DEF IInv
<1> QED
  BY <1>1, Invariance, PTL

----------------------------------------------------------------------------
(* What requests read is what the registry has published while they ran.    *)
Published == 0..edition

(* A definition was at its URL at some time during the request, and a URL    *)
(* and the ids of a list are those of an edition that had been published:    *)
(* nothing is mixed, invented, or taken from an index that failed to load.   *)
ReadsWhatIsThere(r) ==
  /\ \A i \in DOMAIN got[r] :
       \E e \in Published :
         /\ i \in DOMAIN Document[e]
         /\ got[r][i] \in since[r].version[Document[e][i]] .. version[Document[e][i]]
  /\ outcome[r] = "ok" =>
       IF wanted[r] = AllIds THEN \E e \in Published : DOMAIN got[r] = DOMAIN Document[e]
                             ELSE DOMAIN got[r] = {wanted[r]}
  /\ outcome[r] = "notFound" => \E e \in Published : target[r][1] \notin DOMAIN Document[e]

OnlyPublishedIsUsed ==
  /\ index \in Published \cup {NoIndex}
  /\ \A r \in Requests : ReadsWhatIsThere(r)

Carries(r) ==
  /\ loaded[r] \in Published \cup {NoIndex}
  /\ pc[r] = "fetch" =>
       \E e \in Published :
         target[r][1] \in DOMAIN Document[e] /\ Document[e][target[r][1]] = target[r][2]
  /\ pc[r] # "idle" /\ todo[r] # {} /\ wanted[r] = AllIds =>
       \E e \in Published : DOMAIN got[r] \cup todo[r] = DOMAIN Document[e]
  /\ pc[r] # "idle" /\ wanted[r] # AllIds => todo[r] = {wanted[r]} /\ DOMAIN got[r] = {}

PInv == OnlyPublishedIsUsed /\ \A r \in Requests : Carries(r)

LEMMA PInitially == Init => PInv
BY NothingIsTyped DEF Init, PInv, OnlyPublishedIsUsed, ReadsWhatIsThere, Carries

LEMMA OthersUntouched ==
  ASSUME IInv, NEW r \in Requests, Request(r), NEW q \in Requests, q # r
  PROVE  /\ UNCHANGED remote
         /\ pc'[q] = pc[q] /\ wanted'[q] = wanted[q] /\ todo'[q] = todo[q]
         /\ loaded'[q] = loaded[q] /\ target'[q] = target[q] /\ got'[q] = got[q]
         /\ outcome'[q] = outcome[q] /\ since'[q] = since[q]
<1> USE DEF Request, Begin, CheckCache, LoadIndex, LoadIndexFails, StoreIndex, ListIds, Lookup,
            LookupFails, Fetch, FetchFails, Goto, Finish
<1>1. UNCHANGED remote
  OBVIOUS
<1>2. pc'[q] = pc[q] /\ outcome'[q] = outcome[q]
  BY DEF IInv, TypeOK
<1>3. wanted'[q] = wanted[q] /\ todo'[q] = todo[q] /\ loaded'[q] = loaded[q]
  BY DEF IInv, TypeOK
<1>4. target'[q] = target[q] /\ got'[q] = got[q] /\ since'[q] = since[q]
  BY DEF IInv, TypeOK
<1> QED
  BY <1>1, <1>2, <1>3, <1>4

(* A request that does nothing keeps what it has, while more is published.  *)
LEMMA CarriesOn ==
  ASSUME IInv, NEW r \in Requests, Carries(r), ReadsWhatIsThere(r),
         edition' \in Editions, edition <= edition',
         version' \in [Urls -> 0..MaxVersion], \A u \in Urls : version[u] <= version'[u],
         pc'[r] = pc[r], wanted'[r] = wanted[r], todo'[r] = todo[r], loaded'[r] = loaded[r],
         target'[r] = target[r], got'[r] = got[r], outcome'[r] = outcome[r],
         since'[r] = since[r]
  PROVE  Carries(r)' /\ ReadsWhatIsThere(r)'
<1>1. edition \in Nat /\ edition' \in Nat /\ edition \in Editions
  BY HttpRegistryAssumption DEF IInv, TypeOK, Editions
<1>2. Published \subseteq Published'
  BY <1>1 DEF Published
<1>3. Carries(r)'
  BY <1>2 DEF Carries
<1>4. ASSUME NEW i \in DOMAIN got[r]
      PROVE  \E e \in Published' :
               /\ i \in DOMAIN Document[e]
               /\ got[r][i] \in since[r].version[Document[e][i]] .. version'[Document[e][i]]
  <2>1. PICK e \in Published :
          /\ i \in DOMAIN Document[e]
          /\ got[r][i] \in since[r].version[Document[e][i]] .. version[Document[e][i]]
    BY DEF ReadsWhatIsThere
  <2>2. e \in Editions
    BY <1>1, HttpRegistryAssumption DEF Published, Editions
  <2>3. Document[e][i] \in Urls
    BY <2>1, <2>2, DocumentTypes
  <2>4. /\ since[r].version[Document[e][i]] \in Nat
        /\ version[Document[e][i]] \in Nat /\ version'[Document[e][i]] \in Nat
    BY <2>3, HttpRegistryAssumption DEF IInv, TypeOK, Contents
  <2>5. got[r][i] \in since[r].version[Document[e][i]] .. version'[Document[e][i]]
    BY <2>1, <2>3, <2>4
  <2> QED
    BY <1>2, <2>1, <2>5
<1>5. ReadsWhatIsThere(r)'
  BY <1>2, <1>4 DEF ReadsWhatIsThere
<1> QED
  BY <1>3, <1>5

LEMMA PEnvironment == IInv /\ PInv /\ Environment => PInv'
<1> SUFFICES ASSUME IInv, PInv, Environment PROVE PInv'
  OBVIOUS
<1>1. UNCHANGED <<index, pc, wanted, todo, loaded, target, got, outcome, since>>
  BY DEF Environment, Publish, Replace, GoDown, ComeUp
<1>2. edition \in Nat /\ edition' \in Editions /\ edition <= edition' /\ edition' \in Nat
  BY HttpRegistryAssumption
     DEF Environment, Publish, Replace, GoDown, ComeUp, IInv, TypeOK, Editions
<1>3. version' \in [Urls -> 0..MaxVersion] /\ \A u \in Urls : version[u] <= version'[u]
  BY ReplaceVersion DEF IInv
<1>4. index' \in Published' \cup {NoIndex}
  BY <1>1, <1>2 DEF PInv, OnlyPublishedIsUsed, Published
<1>5. \A r \in Requests : Carries(r)' /\ ReadsWhatIsThere(r)'
  BY <1>1, <1>2, <1>3, CarriesOn DEF PInv, OnlyPublishedIsUsed
<1> QED
  BY <1>4, <1>5 DEF PInv, OnlyPublishedIsUsed

(* A step of one request is about its own part and the index.               *)
LEMMA POneByOne ==
  ASSUME IInv, PInv, NEW r \in Requests, Request(r),
         Carries(r)', ReadsWhatIsThere(r)', index' \in Published \cup {NoIndex}
  PROVE  PInv'
<1>1. UNCHANGED remote
  BY DEF Request, Begin, CheckCache, LoadIndex, LoadIndexFails, StoreIndex, ListIds, Lookup,
         LookupFails, Fetch, FetchFails
<1>2. edition' \in Editions /\ edition <= edition'
  BY <1>1, HttpRegistryAssumption DEF IInv, TypeOK, Editions
<1>3. version' \in [Urls -> 0..MaxVersion] /\ \A u \in Urls : version[u] <= version'[u]
  BY <1>1, HttpRegistryAssumption DEF IInv, TypeOK
<1>4. ASSUME NEW q \in Requests, q # r PROVE Carries(q)' /\ ReadsWhatIsThere(q)'
  <2>1. Carries(q) /\ ReadsWhatIsThere(q)
    BY DEF PInv, OnlyPublishedIsUsed
  <2> QED
    BY <1>2, <1>3, <1>4, <2>1, OthersUntouched, CarriesOn
<1> QED
  BY <1>1, <1>4 DEF PInv, OnlyPublishedIsUsed, Published

LEMMA PBegin ==
  ASSUME IInv, PInv, NEW r \in Requests, NEW w \in Ids \cup {AllIds}, Begin(r, w)
  PROVE  PInv'
<1> USE DEF Begin, Goto
<1>1. UNCHANGED <<remote, index, loaded, target>>
  OBVIOUS
<1>2. /\ pc'[r] = "check" /\ wanted'[r] = w /\ todo'[r] = {w} \ {AllIds} /\ got'[r] = Nothing
      /\ outcome'[r] = "none"
  BY DEF IInv, TypeOK
<1>3. w # AllIds => todo'[r] = {w}
  BY <1>2
<1>4. w = AllIds => todo'[r] = {}
  BY <1>2
<1>5. Carries(r)'
  BY <1>1, <1>2, <1>3, <1>4, NothingIsTyped DEF PInv, Carries, Published
<1>6. ReadsWhatIsThere(r)'
  BY <1>2, NothingIsTyped DEF ReadsWhatIsThere
<1>7. Request(r) /\ index' \in Published \cup {NoIndex}
  BY <1>1 DEF Request, PInv, OnlyPublishedIsUsed
<1> QED
  BY <1>5, <1>6, <1>7, POneByOne

LEMMA PIndex ==
  ASSUME IInv, PInv, NEW r \in Requests,
         CheckCache(r) \/ LoadIndex(r) \/ LoadIndexFails(r) \/ StoreIndex(r)
  PROVE  PInv'
<1> USE DEF CheckCache, LoadIndex, LoadIndexFails, StoreIndex, Goto, Finish
<1>1. UNCHANGED <<remote, wanted, todo, target, got, history>> /\ pc[r] # "idle"
  OBVIOUS
<1>2. outcome[r] = "none" /\ outcome'[r] \in {"none", "error"}
  BY <1>1 DEF IInv, OnItsWay, TypeOK
<1>3. pc'[r] # "fetch"
  BY DEF IInv, TypeOK
<1>4. edition \in Published
  BY HttpRegistryAssumption DEF IInv, TypeOK, Editions, Published
<1>5. loaded'[r] \in Published \cup {NoIndex} /\ index' \in Published \cup {NoIndex}
  BY <1>4 DEF PInv, OnlyPublishedIsUsed, Carries, IInv, TypeOK
<1>6. Carries(r)'
  BY <1>1, <1>3, <1>5 DEF PInv, Carries, Published
<1>7. ReadsWhatIsThere(r)'
  BY <1>1, <1>2 DEF PInv, OnlyPublishedIsUsed, ReadsWhatIsThere, Published
<1>8. Request(r)
  BY DEF Request
<1> QED
  BY <1>5, <1>6, <1>7, <1>8, POneByOne

LEMMA PListIds ==
  ASSUME IInv, PInv, NEW r \in Requests, ListIds(r)
  PROVE  PInv'
<1> USE DEF ListIds, Goto, Finish
<1>1. /\ UNCHANGED <<remote, index, wanted, loaded, target, got, history>>
      /\ pc[r] = "use" /\ todo[r] = {}
  OBVIOUS
<1>2. index \in Published /\ outcome[r] = "none" /\ DOMAIN got[r] = {}
  BY HttpRegistryAssumption DEF IInv, OnItsWay, Listing, PInv, OnlyPublishedIsUsed, Editions
<1>3. wanted[r] = AllIds
  BY <1>1 DEF PInv, Carries
<1>4. /\ todo'[r] = DOMAIN Document[index]
      /\ IF todo'[r] = {} THEN pc'[r] = "idle" /\ outcome'[r] = "ok"
                          ELSE pc'[r] = "check" /\ outcome'[r] = "none"
  BY <1>2 DEF IInv, TypeOK
<1>5. DOMAIN got[r] \cup todo'[r] = DOMAIN Document[index]
  BY <1>2, <1>4
<1>6. Carries(r)'
  BY <1>1, <1>2, <1>3, <1>4, <1>5 DEF PInv, Carries, Published
<1>7. ReadsWhatIsThere(r)'
  BY <1>1, <1>2, <1>3, <1>4 DEF PInv, OnlyPublishedIsUsed, ReadsWhatIsThere, Published
<1>8. Request(r) /\ index' \in Published \cup {NoIndex}
  BY <1>1 DEF Request, PInv, OnlyPublishedIsUsed
<1> QED
  BY <1>6, <1>7, <1>8, POneByOne

LEMMA PLookup ==
  ASSUME IInv, PInv, NEW r \in Requests, NEW id \in Ids, Lookup(r, id)
  PROVE  PInv'
<1> USE DEF Lookup, Goto
<1>1. /\ UNCHANGED <<remote, index, wanted, todo, loaded, got, outcome, history>>
      /\ pc[r] = "use" /\ id \in todo[r] /\ id \in DOMAIN Document[index]
  OBVIOUS
<1>2. index \in Published
  BY <1>1, HttpRegistryAssumption DEF IInv, OnItsWay, PInv, OnlyPublishedIsUsed, Editions
<1>3. target'[r] = <<id, Document[index][id]>> /\ pc'[r] = "fetch"
  BY DEF IInv, TypeOK
<1>4. target'[r][1] = id /\ target'[r][2] = Document[index][id]
  BY <1>3
<1>5. Carries(r)'
  BY <1>1, <1>2, <1>3, <1>4 DEF PInv, Carries, Published
<1>6. outcome[r] = "none"
  BY <1>1 DEF IInv, OnItsWay
<1>7. ReadsWhatIsThere(r)'
  BY <1>1, <1>6 DEF PInv, OnlyPublishedIsUsed, ReadsWhatIsThere, Published
<1>8. Request(r) /\ index' \in Published \cup {NoIndex}
  BY <1>1 DEF Request, PInv, OnlyPublishedIsUsed
<1> QED
  BY <1>5, <1>7, <1>8, POneByOne

LEMMA PLookupFails ==
  ASSUME IInv, PInv, NEW r \in Requests, NEW id \in Ids, LookupFails(r, id)
  PROVE  PInv'
<1> USE DEF LookupFails, Goto, Finish
<1>1. /\ UNCHANGED <<remote, index, wanted, todo, loaded, got, history>>
      /\ pc[r] = "use" /\ id \in todo[r] /\ id \notin DOMAIN Document[index]
  OBVIOUS
<1>2. index \in Published
  BY <1>1, HttpRegistryAssumption DEF IInv, OnItsWay, PInv, OnlyPublishedIsUsed, Editions
<1>3. target[r] \in Ids \X Urls
  BY DEF IInv, TypeOK, Targets
<1>4. [target[r] EXCEPT ![1] = id] = <<id, target[r][2]>>
  BY <1>3
<1>5. target' = [target EXCEPT ![r] = [target[r] EXCEPT ![1] = id]]
  OBVIOUS
<1>6. target'[r] = <<id, target[r][2]>> /\ pc'[r] = "idle" /\ outcome'[r] = "notFound"
  BY <1>4, <1>5 DEF IInv, TypeOK
<1>7. target'[r][1] = id
  BY <1>6
<1>8. Carries(r)'
  BY <1>1, <1>6 DEF PInv, Carries, Published
<1>9. ReadsWhatIsThere(r)'
  BY <1>1, <1>2, <1>6, <1>7 DEF PInv, OnlyPublishedIsUsed, ReadsWhatIsThere, Published
<1>10. Request(r) /\ index' \in Published \cup {NoIndex}
  BY <1>1 DEF Request, PInv, OnlyPublishedIsUsed
<1> QED
  BY <1>8, <1>9, <1>10, POneByOne

LEMMA PFetch ==
  ASSUME IInv, PInv, NEW r \in Requests, Fetch(r)
  PROVE  PInv'
<1> USE DEF Fetch, Goto, Finish
<1> DEFINE id == target[r][1]
           u == target[r][2]
           v == version[u]
<1>1. /\ UNCHANGED <<remote, index, wanted, loaded, target, history>> /\ pc[r] = "fetch"
  OBVIOUS
<1>2. id \in Ids /\ u \in Urls /\ v \in 0..MaxVersion
  BY DEF IInv, TypeOK, Targets
<1>3. id \in todo[r] /\ outcome[r] = "none"
  BY <1>1 DEF IInv, OnItsWay
<1>4. PICK e \in Published : id \in DOMAIN Document[e] /\ Document[e][id] = u
  BY <1>1 DEF PInv, Carries
<1>5. /\ got'[r] = Have(r, id, v) /\ todo'[r] = todo[r] \ {id}
      /\ IF todo[r] = {id} THEN pc'[r] = "idle" /\ outcome'[r] = "ok"
                           ELSE pc'[r] = "check" /\ outcome'[r] = "none"
  BY <1>3 DEF IInv, TypeOK
<1>6. /\ DOMAIN Have(r, id, v) = DOMAIN got[r] \cup {id}
      /\ Have(r, id, v)[id] = v
      /\ \A i \in DOMAIN got[r] : i # id => Have(r, id, v)[i] = got[r][i]
  <2>1. got \in [Requests -> Definitions]
    BY DEF IInv, TypeOK
  <2> HIDE DEF id, u, v, Fetch
  <2> QED
    BY <1>2, <2>1, HaveIsTyped
<1> HIDE DEF id, u, v
<1>7. DOMAIN got'[r] \cup todo'[r] = DOMAIN got[r] \cup todo[r]
  BY <1>3, <1>5, <1>6
<1>8. wanted[r] # AllIds => todo[r] = {wanted[r]} /\ DOMAIN got[r] = {}
  BY <1>1 DEF PInv, Carries
<1>9. wanted[r] # AllIds => id = wanted[r] /\ todo'[r] = {} /\ DOMAIN got'[r] = {wanted[r]}
  BY <1>3, <1>5, <1>6, <1>8
<1>10. wanted[r] = AllIds =>
         \E x \in Published : DOMAIN got'[r] \cup todo'[r] = DOMAIN Document[x]
  BY <1>1, <1>3, <1>7 DEF PInv, Carries
<1>11. outcome'[r] \in {"ok", "none"} /\ (pc'[r] = "idle" <=> todo'[r] = {})
       /\ (outcome'[r] = "ok" => todo'[r] = {}) /\ pc'[r] # "fetch"
  BY <1>3, <1>5
<1>12. Carries(r)'
  <2>1. wanted'[r] = wanted[r] /\ loaded'[r] = loaded[r]
    BY <1>1
  <2>2. pc'[r] # "idle" => wanted'[r] = AllIds
    BY <1>9, <1>11, <2>1
  <2> QED
    BY <1>1, <1>10, <1>11, <2>1, <2>2 DEF PInv, Carries, Published
<1>13. ASSUME NEW i \in DOMAIN got'[r]
       PROVE  \E x \in Published :
                /\ i \in DOMAIN Document[x]
                /\ got'[r][i] \in since[r].version[Document[x][i]] .. version[Document[x][i]]
  <2>1. CASE i = id
    <3>1. since[r].version[u] <= version[u]
      BY <1>2 DEF IInv, Since
    <3>2. since[r].version[u] \in Nat /\ version[u] \in Nat
      BY <1>2, HttpRegistryAssumption DEF IInv, TypeOK, Contents
    <3>3. got'[r][i] = version[u]
      BY <1>5, <1>6, <2>1 DEF v
    <3> QED
      BY <1>4, <2>1, <3>1, <3>2, <3>3
  <2>2. CASE i # id
    <3>1. i \in DOMAIN got[r] /\ got'[r][i] = got[r][i]
      BY <1>5, <1>6, <2>2
    <3> QED
      BY <3>1 DEF PInv, OnlyPublishedIsUsed, ReadsWhatIsThere
  <2> QED
    BY <2>1, <2>2
<1>14. outcome'[r] = "ok" =>
         IF wanted'[r] = AllIds THEN \E x \in Published : DOMAIN got'[r] = DOMAIN Document[x]
                                ELSE DOMAIN got'[r] = {wanted'[r]}
  BY <1>1, <1>9, <1>10, <1>11
<1>15. Published' = Published
  BY <1>1 DEF Published
<1>16. ReadsWhatIsThere(r)'
  BY <1>1, <1>11, <1>13, <1>14, <1>15 DEF ReadsWhatIsThere
<1>17. Request(r) /\ index' \in Published \cup {NoIndex}
  BY <1>1 DEF Request, PInv, OnlyPublishedIsUsed
<1> QED
  BY <1>12, <1>16, <1>17, POneByOne

LEMMA PFetchFails ==
  ASSUME IInv, PInv, NEW r \in Requests, FetchFails(r)
  PROVE  PInv'
<1> USE DEF FetchFails, Goto, Finish
<1>1. /\ UNCHANGED <<remote, index, wanted, todo, loaded, target, got, history>>
      /\ pc'[r] = "idle" /\ outcome'[r] = "error"
  BY DEF IInv, TypeOK
<1>2. Carries(r)' /\ ReadsWhatIsThere(r)'
  BY <1>1 DEF PInv, Carries, OnlyPublishedIsUsed, ReadsWhatIsThere, Published
<1>3. Request(r) /\ index' \in Published \cup {NoIndex}
  BY <1>1 DEF Request, PInv, OnlyPublishedIsUsed
<1> QED
  BY <1>2, <1>3, POneByOne

LEMMA PPreserved == IInv /\ PInv /\ [Next]_vars => PInv'
<1> SUFFICES ASSUME IInv, PInv, [Next]_vars PROVE PInv'
  OBVIOUS
<1>1. ASSUME NEW r \in Requests, Request(r) PROVE PInv'
  BY <1>1, PBegin, PIndex, PListIds, PLookup, PLookupFails, PFetch, PFetchFails DEF Request
<1>2. CASE UNCHANGED vars
  BY <1>2 DEF PInv, OnlyPublishedIsUsed, Carries, ReadsWhatIsThere, Published
<1> QED
  BY <1>1, <1>2, PEnvironment DEF Next

(* Whatever is published and replaced meanwhile, and although several        *)
(* requests share the index without a lock: each definition that a request   *)
(* has is one that was served, while it ran, at a URL that a published index *)
(* has for the id; a list is that of one published index; one extension is   *)
(* the one that was asked for; and only what such an index lacks is unknown. *)
THEOREM RequestsReadWhatIsThere == Spec => []OnlyPublishedIsUsed
<1>1. PInv => OnlyPublishedIsUsed
  BY DEF PInv
<1> QED
  BY <1>1, PInitially, PPreserved, Invariance, PTL DEF Spec

----------------------------------------------------------------------------
(* What TLC's run about the age of the index shows for two requests is so    *)
(* in general: once an index is cached, and no request that found none is    *)
(* still about to store its own, the cache is never renewed.                 *)
Settled == index # NoIndex /\ \A r \in Requests : pc[r] \notin {"load", "store"}
CacheSettles == Settled => Settled' /\ index' = index

(* The registry of a manager keeps the first index it has cached for as     *)
(* long as it lives: getIndex only asks whether there is one.               *)
THEOREM CacheIsNeverRenewed == Spec => [][CacheSettles]_vars
<1>1. IInv /\ Next => CacheSettles
  <2> SUFFICES ASSUME IInv, Next, Settled PROVE Settled' /\ index' = index
    BY DEF CacheSettles
  <2> USE DEF Settled
  <2>1. CASE Environment
    BY <2>1 DEF Environment, Publish, Replace, GoDown, ComeUp
  <2>2. ASSUME NEW r \in Requests, Request(r) PROVE Settled' /\ index' = index
    <3> USE DEF Request, Begin, CheckCache, LoadIndex, LoadIndexFails, StoreIndex, ListIds,
                Lookup, LookupFails, Fetch, FetchFails, Goto, Finish
    <3>1. index' = index
      BY <2>2
    <3>2. pc'[r] \notin {"load", "store"}
      BY <2>2 DEF IInv, TypeOK
    <3>3. \A q \in Requests : q # r => pc'[q] = pc[q]
      BY <2>2, OthersUntouched
    <3> QED
      BY <3>1, <3>2, <3>3
  <2> QED
    BY <2>1, <2>2 DEF Next
<1> QED
  BY <1>1, Invariance, PTL DEF Spec

----------------------------------------------------------------------------
(* How far a request is from its end: up to five steps for each id it has    *)
(* still to read, and as many as for all ids before it knows which.          *)
Rank(label) ==
  CASE label = "idle" -> 0 [] label = "fetch" -> 1 [] label = "use" -> 2
    [] label = "store" -> 3 [] label = "load" -> 4 [] label = "check" -> 5
Later(r) == IF todo[r] = {} THEN Cardinality(Ids) ELSE Cardinality(todo[r]) - 1
Distance(r) == IF pc[r] = "idle" THEN 0 ELSE 5 * Later(r) + Rank(pc[r])

(* A request in progress is at a bounded distance from its end, its steps    *)
(* shorten it, and nothing else does anything to it: not the other requests, *)
(* nor what is published, replaced or not served any more.                   *)
RequestsAdvance ==
  \A r \in Requests : pc[r] # "idle" =>
    /\ Distance(r) \in 1..5 * Cardinality(Ids) + 5
    /\ Distance(r)' <= Distance(r)
    /\ Request(r) => Distance(r)' < Distance(r)

LEMMA LaterType ==
  ASSUME IsFiniteSet(Ids), IInv, NEW r \in Requests
  PROVE  /\ Later(r) \in 0..Cardinality(Ids) /\ Cardinality(Ids) \in Nat
         /\ IsFiniteSet(todo[r]) /\ Cardinality(todo[r]) \in Nat
         /\ Cardinality(todo[r]) <= Cardinality(Ids)
         /\ (todo[r] # {} => Cardinality(todo[r]) >= 1)
<1>1. todo[r] \subseteq Ids
  BY DEF IInv, TypeOK
<1>2. IsFiniteSet(todo[r]) /\ Cardinality(todo[r]) <= Cardinality(Ids)
  BY <1>1, FS_Subset
<1>3. Cardinality(todo[r]) \in Nat /\ Cardinality(Ids) \in Nat
  BY <1>2, FS_CardinalityType
<1>4. todo[r] # {} => Cardinality(todo[r]) # 0
  BY <1>2, FS_EmptySet
<1> QED
  BY <1>2, <1>3, <1>4 DEF Later

LEMMA DistanceType ==
  ASSUME IsFiniteSet(Ids), IInv, NEW r \in Requests, pc[r] # "idle"
  PROVE  Distance(r) \in 1..5 * Cardinality(Ids) + 5
<1>1. Rank(pc[r]) \in 1..5
  BY DEF IInv, TypeOK, Labels, Rank
<1>2. Distance(r) = 5 * Later(r) + Rank(pc[r])
  BY DEF Distance
<1> QED
  BY <1>1, <1>2, LaterType

LEMMA StepsShorten ==
  ASSUME IsFiniteSet(Ids), IInv, IInv', NEW r \in Requests, pc[r] # "idle", Request(r)
  PROVE  Distance(r)' < Distance(r)
<1> USE DEF Goto, Finish
<1>1. Distance(r) >= 1 /\ Distance(r) \in Nat
  <2>1. Distance(r) \in 1..5 * Cardinality(Ids) + 5 /\ Cardinality(Ids) \in Nat
    BY DistanceType, LaterType
  <2> QED
    BY <2>1
<1>2. CASE pc'[r] = "idle"
  BY <1>1, <1>2 DEF Distance
<1>3. Distance(r) = 5 * Later(r) + Rank(pc[r]) /\ Later(r) \in Nat
  BY LaterType DEF Distance
<1>4. ASSUME pc'[r] # "idle", todo'[r] = todo[r], Rank(pc'[r]) < Rank(pc[r]),
             Rank(pc'[r]) \in Nat, Rank(pc[r]) \in Nat
      PROVE  Distance(r)' < Distance(r)
  <2>1. Distance(r)' = 5 * Later(r) + Rank(pc'[r])
    BY <1>4 DEF Distance, Later, Rank
  <2> QED
    BY <1>3, <1>4, <2>1
<1>5. CASE CheckCache(r) \/ LoadIndex(r) \/ LoadIndexFails(r) \/ StoreIndex(r)
  <2>1. todo'[r] = todo[r]
    BY <1>5 DEF CheckCache, LoadIndex, LoadIndexFails, StoreIndex
  <2>2. \/ pc[r] = "check" /\ pc'[r] \in {"load", "use"}
        \/ pc[r] = "load" /\ pc'[r] \in {"store", "idle"}
        \/ pc[r] = "store" /\ pc'[r] = "use"
    BY <1>5 DEF CheckCache, LoadIndex, LoadIndexFails, StoreIndex, IInv, TypeOK
  <2>3. Rank(pc'[r]) < Rank(pc[r]) /\ Rank(pc'[r]) \in Nat /\ Rank(pc[r]) \in Nat
    BY <2>2 DEF Rank
  <2> QED
    BY <1>2, <1>4, <2>1, <2>3
<1>6. ASSUME NEW id \in Ids, Lookup(r, id) \/ LookupFails(r, id)
      PROVE  Distance(r)' < Distance(r)
  <2>1. todo'[r] = todo[r] /\ pc[r] = "use" /\ pc'[r] \in {"fetch", "idle"}
    BY <1>6 DEF Lookup, LookupFails, IInv, TypeOK
  <2>2. Rank(pc'[r]) < Rank(pc[r]) /\ Rank(pc'[r]) \in Nat /\ Rank(pc[r]) \in Nat
    BY <2>1 DEF Rank
  <2> QED
    BY <1>2, <1>4, <2>1, <2>2
<1>7. CASE ListIds(r)
  <2>1. pc[r] = "use" /\ todo[r] = {}
    BY <1>7 DEF ListIds
  <2>2. Distance(r) = 5 * Cardinality(Ids) + 2
    BY <1>3, <2>1 DEF Later, Rank
  <2>3. CASE pc'[r] # "idle"
    <3>1. pc'[r] = "check" /\ todo'[r] # {}
      BY <1>7, <2>3 DEF ListIds, IInv, TypeOK
    <3>2. Distance(r)' = 5 * (Cardinality(todo'[r]) - 1) + 5
      BY <3>1 DEF Distance, Later, Rank
    <3>3. Cardinality(todo'[r]) \in Nat /\ Cardinality(todo'[r]) <= Cardinality(Ids)
      <4>1. todo'[r] \subseteq Ids
        BY DEF IInv, TypeOK
      <4> QED
        BY <4>1, FS_Subset, FS_CardinalityType
    <3> QED
      BY <2>2, <3>2, <3>3, LaterType
  <2> QED
    BY <1>2, <2>3
<1>8. CASE Fetch(r)
  <2> DEFINE id == target[r][1]
  <2>1. pc[r] = "fetch" /\ id \in todo[r]
    BY <1>8 DEF Fetch, IInv, OnItsWay
  <2>2. Distance(r) = 5 * (Cardinality(todo[r]) - 1) + 1
    BY <1>3, <2>1 DEF Later, Rank
  <2>3. CASE pc'[r] # "idle"
    <3>1. todo'[r] = todo[r] \ {id} /\ todo[r] # {id} /\ pc'[r] = "check"
      BY <1>8, <2>3 DEF Fetch, IInv, TypeOK
    <3>2. todo'[r] # {}
      BY <3>1, <2>1
    <3>3. Distance(r)' = 5 * (Cardinality(todo'[r]) - 1) + 5
      BY <3>1, <3>2 DEF Distance, Later, Rank
    <3>4. Cardinality(todo'[r]) = Cardinality(todo[r]) - 1 /\ Cardinality(todo[r]) \in Nat
      <4>1. IsFiniteSet(todo[r]) /\ Cardinality(todo[r]) \in Nat
        BY LaterType
      <4> HIDE DEF id
      <4>2. Cardinality(todo[r] \ {id}) = Cardinality(todo[r]) - 1
        BY <2>1, <4>1, FS_RemoveElement
      <4> QED
        BY <3>1, <4>1, <4>2
    <3> QED
      BY <2>2, <3>3, <3>4
  <2> QED
    BY <1>2, <2>3
<1>9. CASE FetchFails(r)
  BY <1>2, <1>9 DEF FetchFails, IInv, TypeOK
<1> QED
  BY <1>5, <1>6, <1>7, <1>8, <1>9 DEF Request, Begin

(* Of a request's progress TLC cannot say much, since the model does not     *)
(* make anybody act; this says what an answer of the registry's server to    *)
(* each call is enough for.                                                 *)
THEOREM RequestsComeToAnEnd ==
  ASSUME IsFiniteSet(Ids)
  PROVE  Spec => [][RequestsAdvance]_vars
<1>1. IInv /\ IInv' /\ Next => RequestsAdvance
  <2> SUFFICES ASSUME IInv, IInv', Next, NEW r \in Requests, pc[r] # "idle"
               PROVE  /\ Distance(r) \in 1..5 * Cardinality(Ids) + 5
                      /\ Distance(r)' <= Distance(r)
                      /\ Request(r) => Distance(r)' < Distance(r)
    BY DEF RequestsAdvance
  <2>1. Distance(r) \in 1..5 * Cardinality(Ids) + 5 /\ Distance(r) \in Int
    <3>1. Distance(r) \in 1..5 * Cardinality(Ids) + 5 /\ Cardinality(Ids) \in Nat
      BY DistanceType, LaterType
    <3> QED
      BY <3>1
  <2>2. ASSUME pc'[r] = pc[r], todo'[r] = todo[r] PROVE Distance(r)' = Distance(r)
    BY <2>2 DEF Distance, Later, Rank
  <2>3. CASE Environment
    <3>1. UNCHANGED <<pc, todo>>
      BY <2>3 DEF Environment, Publish, Replace, GoDown, ComeUp
    <3>2. Distance(r)' = Distance(r)
      BY <2>2, <3>1
    <3>3. ~Request(r)
      <4>1. Request(r) => pc'[r] # pc[r]
        BY DEF Request, Begin, CheckCache, LoadIndex, LoadIndexFails, StoreIndex, ListIds,
           Lookup, LookupFails, Fetch, FetchFails, Goto, Finish, IInv, TypeOK
      <4> QED
        BY <3>1, <4>1
    <3> QED
      BY <2>1, <3>2, <3>3
  <2>4. CASE Request(r)
    <3>1. Distance(r)' < Distance(r)
      BY <2>4, StepsShorten
    <3>2. Distance(r)' \in Int
      <4>1. CASE pc'[r] = "idle"
        BY <4>1 DEF Distance
      <4>2. CASE pc'[r] # "idle"
        <5>1. Rank(pc'[r]) \in 1..5
          BY <4>2 DEF IInv, TypeOK, Labels, Rank
        <5>2. IsFiniteSet(todo'[r]) /\ Cardinality(todo'[r]) \in Nat /\ Cardinality(Ids) \in Nat
          <6>1. todo'[r] \subseteq Ids
            BY DEF IInv, TypeOK
          <6> QED
            BY <6>1, FS_Subset, FS_CardinalityType
        <5>3. Distance(r)' =
                5 * (IF todo'[r] = {} THEN Cardinality(Ids) ELSE Cardinality(todo'[r]) - 1)
                  + Rank(pc'[r])
          BY <4>2 DEF Distance, Later, Rank
        <5> QED
          BY <5>1, <5>2, <5>3
      <4> QED
        BY <4>1, <4>2
    <3> QED
      BY <2>1, <2>4, <3>1, <3>2
  <2>5. ASSUME NEW q \in Requests, q # r, Request(q), ~Request(r)
        PROVE  Distance(r)' = Distance(r)
    BY <2>2, <2>5, OthersUntouched
  <2> QED
    BY <2>1, <2>3, <2>4, <2>5 DEF Next
<1> QED
  BY <1>1, Invariance, PTL DEF Spec
=============================================================================
