--------------------------- MODULE RegistryUpload ---------------------------
(***************************************************************************)
(* The publication of the registry (registry-upload): a developer generates *)
(* an index, and the upload verifies its links, puts the files into the     *)
(* bucket, invalidates the cache of the edge and verifies the index there.  *)
(* What HttpRegistry calls its environment publishes editions this way.     *)
(* One upload runs at a time, and nothing is generated meanwhile.           *)
(***************************************************************************)
EXTENDS Naturals

CONSTANTS
  Urls,         \* URLs of released extensions
  Links,        \* Links[e]: the released extensions edition e of the index names
  MaxEdition,   \* bound: editions of the index
  MaxBuild,     \* bound: builds of the testing extension
  OwnUrl,       \* URL of the testing extension, which the edge serves
  Nothing

ASSUME UploadAssumption ==
  /\ MaxEdition \in Nat /\ MaxBuild \in Nat \ {0}
  /\ Links \in [0..MaxEdition -> SUBSET Urls]
  /\ OwnUrl \notin Urls
  /\ Nothing \notin Nat

VARIABLES
  stage,        \* "test" or "prod"; each has a bucket of its own
  content,      \* edition of the local content/<stage>-registry.json
  built,        \* build of the local testing extension; 0 before the first
  bucket, edge, \* what the bucket has and what the edge has cached, per key
  invalidation, \* an invalidation has been created and not completed yet
  served,       \* released extensions that can be downloaded
  pc, dryRun,   \* where the upload is
  links,        \* links that have not answered yet
  puts,         \* keys whose upload has not ended
  answered,     \* history: links that have answered in this run
  approved      \* history: editions whose links have answered in a run that uploads

vars == <<stage, content, built, bucket, edge, invalidation, served, pc, dryRun,
          links, puts, answered, approved>>
local == <<stage, content, built>>
run == <<pc, dryRun, links, puts, answered, approved>>

Index == "registry.json"
Testing == "testing-extension.js"
Keys == {Index, Testing}
Ended == {"idle", "done", "failed"}
Exited == pc \in Ended /\ puts = {}

(* generate.ts adds the testing extension to the index of the test stage.   *)
LinksOf(e) == Links[e] \cup (IF stage = "test" THEN {OwnUrl} ELSE {})
LocalFile(k) == IF k = Index THEN content ELSE built
Answers(url) ==
  IF url = OwnUrl THEN edge[Testing] # Nothing \/ bucket[Testing] # Nothing
  ELSE url \in served

(* The bucket is empty, or an upload has filled it, or somebody has put the *)
(* first testing extension there, whose link the first upload verifies.     *)
Init ==
  /\ stage \in {"test", "prod"}
  /\ content = 0
  /\ built \in {0, 1}
  /\ \/ bucket = [k \in Keys |-> Nothing]
     \/ bucket = [k \in Keys |-> IF k = Index THEN 0 ELSE IF stage = "test" THEN 1 ELSE Nothing]
     \/ stage = "test" /\ bucket = [k \in Keys |-> IF k = Testing THEN 1 ELSE Nothing]
  /\ edge = [k \in Keys |-> Nothing]
  /\ invalidation = FALSE
  /\ served = Urls
  /\ pc = "idle"
  /\ dryRun = TRUE
  /\ links = {} /\ puts = {} /\ answered = {}
  /\ approved = {bucket[Index]} \ {Nothing}

----------------------------------------------------------------------------
(* The developer.                                                           *)
Generate ==
  /\ Exited
  /\ content < MaxEdition
  /\ content' = content + 1
  /\ pc' = "idle"
  /\ UNCHANGED <<stage, built, bucket, edge, invalidation, served, dryRun, links, puts, answered, approved>>

Build ==
  /\ Exited
  /\ built < MaxBuild
  /\ built' = built + 1
  /\ pc' = "idle"
  /\ UNCHANGED <<stage, content, bucket, edge, invalidation, served, dryRun, links, puts, answered, approved>>

(* Without --no-dry-run nothing is uploaded.                                *)
Start(dry) ==
  /\ Exited
  /\ pc' = "verify"
  /\ dryRun' = dry
  /\ links' = LinksOf(content)
  /\ answered' = {}
  /\ UNCHANGED <<local, bucket, edge, invalidation, served, puts, approved>>

(* The links are verified in parallel.                                      *)
VerifyLink(url) ==
  /\ pc = "verify"
  /\ url \in links
  /\ Answers(url)
  /\ links' = links \ {url}
  /\ answered' = answered \cup {url}
  /\ UNCHANGED <<local, bucket, edge, invalidation, served, pc, dryRun, puts, approved>>

(* Faulty variant: a failed request does not settle its promise.            *)
VerifyLinkHangs(url) ==
  /\ pc = "verify"
  /\ url \in links
  /\ UNCHANGED vars

(* A link has not answered, or the network has failed.                      *)
VerifyLinkFails(url) ==
  /\ pc = "verify"
  /\ url \in links
  /\ pc' = "failed"
  /\ UNCHANGED <<local, bucket, edge, invalidation, served, dryRun, links, puts, answered, approved>>

(* Faulty variant: the verification is started and not waited for.          *)
VerifyWithoutAwait ==
  /\ pc = "verify"
  /\ pc' = "configure"
  /\ UNCHANGED <<local, bucket, edge, invalidation, served, dryRun, links, puts, answered, approved>>

(* Faulty variant: the testing extension, which is about to be uploaded, is *)
(* not waited for.                                                          *)
VerifyReleased ==
  /\ pc = "verify"
  /\ links \subseteq {OwnUrl}
  /\ pc' = "configure"
  /\ UNCHANGED <<local, bucket, edge, invalidation, served, dryRun, links, puts, answered, approved>>

VerifyExtensionUrls ==
  /\ pc = "verify"
  /\ links = {}
  /\ pc' = "configure"
  /\ UNCHANGED <<local, bucket, edge, invalidation, served, dryRun, links, puts, answered, approved>>

(* A dry run still needs the configuration of the stack.                    *)
ReadStackConfiguration ==
  /\ pc = "configure"
  /\ \/ pc' = IF dryRun THEN "done" ELSE "upload"
     \/ pc' = "failed"
  /\ UNCHANGED <<local, bucket, edge, invalidation, served, dryRun, links, puts, answered, approved>>

Approve ==
  approved' = approved \cup
    (IF ~dryRun /\ LinksOf(content) \subseteq answered THEN {content} ELSE {})

(* Faulty variant: the testing extension is not looked for.                 *)
UploadUnbuilt ==
  /\ pc = "upload"
  /\ Approve
  /\ puts' = IF stage = "test" THEN Keys ELSE {Index}
  /\ pc' = "await"
  /\ UNCHANGED <<local, bucket, edge, invalidation, served, dryRun, links, answered>>

(* The upload of the index has begun when the testing extension is looked   *)
(* for: if it was not built the run fails, and the index is uploaded still. *)
UploadFiles ==
  /\ pc = "upload"
  /\ Approve
  /\ \/ stage = "prod" /\ puts' = {Index} /\ pc' = "await"
     \/ stage = "test" /\ built # 0 /\ puts' = Keys /\ pc' = "await"
     \/ stage = "test" /\ built = 0 /\ puts' = {Index} /\ pc' = "failed"
  /\ UNCHANGED <<local, bucket, edge, invalidation, served, dryRun, links, answered>>

PutObject(k) ==
  /\ k \in puts
  /\ puts' = puts \ {k}
  /\ bucket' = [bucket EXCEPT ![k] = LocalFile(k)]
  /\ UNCHANGED <<local, edge, invalidation, served, pc, dryRun, links, answered, approved>>

(* The object may be there although its upload failed.  The other upload    *)
(* goes on when the run has failed.                                         *)
PutObjectFails(k) ==
  /\ k \in puts
  /\ puts' = puts \ {k}
  /\ bucket' \in {bucket, [bucket EXCEPT ![k] = LocalFile(k)]}
  /\ pc' = "failed"
  /\ UNCHANGED <<local, edge, invalidation, served, dryRun, links, answered, approved>>

(* Faulty variant: the uploads are not waited for.                          *)
InvalidateAtOnce ==
  /\ pc = "await"
  /\ \/ pc' = "check" /\ invalidation' = TRUE
     \/ pc' = "failed" /\ invalidation' \in {invalidation, TRUE}
  /\ UNCHANGED <<local, bucket, edge, served, dryRun, links, puts, answered, approved>>

(* CreateInvalidation returns before the caches are empty.                  *)
InvalidateCloudFrontCache ==
  /\ pc = "await"
  /\ puts = {}
  /\ \/ pc' = "check" /\ invalidation' = TRUE
     \/ pc' = "failed" /\ invalidation' \in {invalidation, TRUE}
  /\ UNCHANGED <<local, bucket, edge, served, dryRun, links, puts, answered, approved>>

VerifyIndex ==
  /\ pc = "check"
  /\ pc' \in {"failed"} \cup
       (IF edge[Index] # Nothing \/ bucket[Index] # Nothing THEN {"done"} ELSE {})
  /\ UNCHANGED <<local, bucket, edge, invalidation, served, dryRun, links, puts, answered, approved>>

----------------------------------------------------------------------------
(* CloudFront: a client asks for a key, a cached copy expires, and an        *)
(* invalidation drops all copies.                                            *)
EdgeFetches(k) ==
  /\ edge[k] = Nothing /\ bucket[k] # Nothing
  /\ edge' = [edge EXCEPT ![k] = bucket[k]]
  /\ UNCHANGED <<local, bucket, invalidation, served, run>>

EdgeExpires(k) ==
  /\ edge[k] # Nothing
  /\ edge' = [edge EXCEPT ![k] = Nothing]
  /\ UNCHANGED <<local, bucket, invalidation, served, run>>

CompleteInvalidation ==
  /\ invalidation
  /\ invalidation' = FALSE
  /\ edge' = [k \in Keys |-> Nothing]
  /\ UNCHANGED <<local, bucket, served, run>>

ServeOrTakeDown(url) ==
  /\ served' = IF url \in served THEN served \ {url} ELSE served \cup {url}
  /\ UNCHANGED <<local, bucket, edge, invalidation, run>>

Upload ==
  \/ \E url \in Urls \cup {OwnUrl} : VerifyLink(url) \/ VerifyLinkFails(url)
  \/ VerifyExtensionUrls \/ ReadStackConfiguration \/ UploadFiles
  \/ \E k \in Keys : PutObject(k) \/ PutObjectFails(k)
  \/ InvalidateCloudFrontCache \/ VerifyIndex

Environment ==
  \/ Generate \/ Build \/ \E dry \in BOOLEAN : Start(dry)
  \/ \E k \in Keys : EdgeFetches(k) \/ EdgeExpires(k)
  \/ CompleteInvalidation
  \/ \E url \in Urls : ServeOrTakeDown(url)

Next == Upload \/ Environment

(* An exchange with a web server or with AWS ends.                          *)
Spec == Init /\ [][Next]_vars /\ WF_vars(Upload)

----------------------------------------------------------------------------
TypeOK ==
  /\ stage \in {"test", "prod"}
  /\ content \in 0..MaxEdition
  /\ built \in 0..MaxBuild
  /\ \A f \in {bucket, edge} :
       /\ DOMAIN f = Keys
       /\ f[Index] \in 0..MaxEdition \cup {Nothing}
       /\ f[Testing] \in 1..MaxBuild \cup {Nothing}
  /\ invalidation \in BOOLEAN
  /\ served \subseteq Urls
  /\ pc \in Ended \cup {"verify", "configure", "upload", "await", "check"}
  /\ dryRun \in BOOLEAN
  /\ links \subseteq Urls \cup {OwnUrl}
  /\ puts \subseteq Keys
  /\ answered \subseteq Urls \cup {OwnUrl}
  /\ approved \subseteq 0..MaxEdition

(* What the clients of the edge are served, from its cache or the bucket,    *)
(* is what PublishedRegistry promises: an edition is served only after a run *)
(* that was no dry run and in which all its links had answered, and no older *)
(* edition comes back from a cache, also when uploads of a failed run end    *)
(* late and invalidations are missing.                                       *)
Served == IF edge[Index] # Nothing THEN edge[Index] ELSE bucket[Index]
Registry == INSTANCE PublishedRegistry
              WITH Editions <- 0..MaxEdition, NoIndex <- Nothing, edition <- Served
ImplementsRegistry == Registry!Spec

(* When an upload has succeeded and its invalidation is complete, clients    *)
(* get what was uploaded: no copy from before is left at the edge.           *)
SuccessReachesClients ==
  pc = "done" /\ ~dryRun =>
    /\ bucket[Index] = content
    /\ stage = "test" => bucket[Testing] = built
    /\ ~invalidation => \A k \in Keys : edge[k] \in {Nothing, bucket[k]}

(* The index of the test stage names the testing extension only when the    *)
(* bucket has it, although both are uploaded at the same time.              *)
NamedExtensionIsServed ==
  stage = "test" /\ bucket[Index] # Nothing => bucket[Testing] # Nothing

(* A run ends, with all uploads it has started, also when one of them fails. *)
RunEnds == (pc = "verify") ~> Exited
=============================================================================
