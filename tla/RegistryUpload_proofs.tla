----------------------- MODULE RegistryUpload_proofs -----------------------
(***************************************************************************)
(* Proofs about RegistryUpload for any index, any number of editions and   *)
(* builds; and that it implements PublishedRegistry.                       *)
(***************************************************************************)
EXTENDS RegistryUpload, FiniteSetTheorems, TLAPS

USE DEF vars, local, run

----------------------------------------------------------------------------
(* What the edge has is not newer than the bucket, nor that than the local  *)
(* files; and what both have of the index was approved.                     *)
Order ==
  /\ bucket[Index] # Nothing => bucket[Index] <= content /\ bucket[Index] \in approved
  /\ edge[Index] # Nothing =>
       bucket[Index] # Nothing /\ edge[Index] <= bucket[Index] /\ edge[Index] \in approved
  /\ edge[Testing] # Nothing => bucket[Testing] # Nothing

(* The way of a run through its verification.                               *)
Verified ==
  /\ pc = "verify" => LinksOf(content) \subseteq links \cup answered
  /\ pc \in {"configure", "upload"} => LinksOf(content) \subseteq answered
  /\ pc \in {"upload", "await", "check"} => ~dryRun
  /\ OwnUrl \in answered => bucket[Testing] # Nothing

(* What is uploaded: the run may have failed while an upload goes on.       *)
Uploading ==
  /\ pc \notin {"await", "failed"} => puts = {}
  /\ Index \in puts => content \in approved /\ LinksOf(content) \subseteq answered
  /\ Testing \in puts => built # 0
  /\ pc = "await" =>
       /\ Index \in puts \/ bucket[Index] = content
       /\ stage = "test" => Testing \in puts \/ bucket[Testing] = built

Fresh == \A k \in Keys : edge[k] \in {Nothing, bucket[k]}
Uploaded ==
  pc = "check" \/ (pc = "done" /\ ~dryRun) =>
    /\ bucket[Index] = content
    /\ stage = "test" => bucket[Testing] = built
    /\ ~invalidation => Fresh

IInv ==
  TypeOK /\ Order /\ Verified /\ Uploading /\ Uploaded /\ NamedExtensionIsServed

----------------------------------------------------------------------------
LEMMA KeysDiffer == Index # Testing /\ Keys = {Index, Testing}
BY DEF Index, Testing, Keys

LEMMA NumbersAreSomething ==
  /\ \A e \in 0..MaxEdition : e # Nothing /\ e \in Nat
  /\ \A b \in 0..MaxBuild : b # Nothing /\ b \in Nat
BY UploadAssumption

LEMMA Initially == Init => IInv
<1> SUFFICES ASSUME Init PROVE IInv
  OBVIOUS
<1> USE KeysDiffer DEF Init
<1>1. /\ DOMAIN bucket = Keys /\ DOMAIN edge = Keys
      /\ edge[Index] = Nothing /\ edge[Testing] = Nothing
      /\ bucket[Index] \in {0, Nothing} /\ bucket[Testing] \in {1, Nothing}
      /\ stage = "test" /\ bucket[Index] # Nothing => bucket[Testing] = 1
  OBVIOUS
<1>2. 0 \in 0..MaxEdition /\ 1 \in 1..MaxBuild /\ {0, 1} \subseteq 0..MaxBuild
  BY UploadAssumption
<1> HIDE KeysDiffer
<1>3. TypeOK
  <2>1. \A f \in {bucket, edge} :
          /\ DOMAIN f = Keys
          /\ f[Index] \in 0..MaxEdition \cup {Nothing}
          /\ f[Testing] \in 1..MaxBuild \cup {Nothing}
    BY <1>1, <1>2
  <2>2. approved \subseteq 0..MaxEdition
    BY <1>1, <1>2
  <2>3. built \in 0..MaxBuild /\ content \in 0..MaxEdition
    BY <1>2
  <2>4. invalidation = FALSE /\ dryRun = TRUE /\ pc = "idle" /\ stage \in {"test", "prod"}
    OBVIOUS
  <2>5. served = Urls /\ links = {} /\ puts = {} /\ answered = {}
    OBVIOUS
  <2> QED
    BY <2>1, <2>2, <2>3, <2>4, <2>5 DEF TypeOK, Ended
<1>4. Order
  BY <1>1 DEF Order
<1>5. Verified /\ Uploading /\ Uploaded
  BY DEF Verified, Uploading, Uploaded
<1>6. NamedExtensionIsServed
  BY <1>1, UploadAssumption DEF NamedExtensionIsServed
<1> QED
  BY <1>3, <1>4, <1>5, <1>6 DEF IInv

----------------------------------------------------------------------------
(* The developer, who waits for a run to end.                               *)
LEMMA DeveloperStep ==
  ASSUME IInv, Generate \/ Build \/ \E dry \in BOOLEAN : Start(dry)
  PROVE  IInv'
<1> USE DEF Generate, Build, Start, Exited
<1>1. puts = {} /\ puts' = {} /\ pc' \in {"idle", "verify"} /\ UNCHANGED <<stage, bucket, edge, approved>>
  BY DEF Ended
<1>2. content' \in 0..MaxEdition /\ content <= content' /\ built' \in 0..MaxBuild
  BY UploadAssumption DEF IInv, TypeOK
<1>3. TypeOK'
  <2>1. links' \subseteq Urls \cup {OwnUrl} /\ answered' \subseteq Urls \cup {OwnUrl}
    BY <1>2, UploadAssumption DEF IInv, TypeOK, LinksOf
  <2>2. dryRun' \in BOOLEAN /\ pc' \in {"idle", "verify"}
    BY <1>1 DEF IInv, TypeOK
  <2> QED
    BY <1>1, <1>2, <2>1, <2>2 DEF IInv, TypeOK, Ended
<1>4. Order'
  <2>1. bucket[Index] # Nothing => bucket[Index] \in Nat
    BY UploadAssumption DEF IInv, TypeOK
  <2>2. content \in Nat /\ content' \in Nat
    BY <1>2, UploadAssumption DEF IInv, TypeOK
  <2> QED
    BY <1>1, <1>2, <2>1, <2>2 DEF IInv, Order
<1>5. Verified'
  BY <1>1 DEF IInv, Verified, LinksOf
<1>6. Uploading' /\ Uploaded'
  BY <1>1 DEF Uploading, Uploaded
<1>7. NamedExtensionIsServed'
  BY <1>1 DEF IInv, NamedExtensionIsServed
<1> QED
  BY <1>3, <1>4, <1>5, <1>6, <1>7 DEF IInv

(* The verification of the links, before anything is uploaded.              *)
LEMMA VerificationStep ==
  ASSUME IInv,
         \/ \E url \in Urls \cup {OwnUrl} : VerifyLink(url) \/ VerifyLinkFails(url)
         \/ VerifyExtensionUrls \/ ReadStackConfiguration
  PROVE  IInv'
<1> USE DEF VerifyLink, VerifyLinkFails, VerifyExtensionUrls, ReadStackConfiguration
<1>1. /\ pc \in {"verify", "configure"} /\ pc' \in {"verify", "configure", "upload", "done", "failed"}
      /\ puts = {}
      /\ pc' = "done" => dryRun
      /\ UNCHANGED <<local, bucket, edge, invalidation, served, dryRun, puts, approved>>
  BY DEF IInv, Uploading
<1>2. TypeOK'
  <2>1. links' \subseteq Urls \cup {OwnUrl} /\ answered' \subseteq Urls \cup {OwnUrl}
    BY DEF IInv, TypeOK
  <2> QED
    BY <1>1, <2>1 DEF IInv, TypeOK, Ended
<1>3. Order' /\ NamedExtensionIsServed'
  BY <1>1 DEF IInv, Order, NamedExtensionIsServed
<1>4. Verified'
  <2>1. OwnUrl \in answered' => bucket[Testing] # Nothing
    BY DEF IInv, Verified, Order, Answers
  <2>2. LinksOf(content)' = LinksOf(content)
    BY <1>1 DEF LinksOf
  <2>3. pc' = "verify" => LinksOf(content) \subseteq links' \cup answered'
    BY DEF IInv, Verified
  <2>4. pc' \in {"configure", "upload"} => LinksOf(content) \subseteq answered'
    BY DEF IInv, Verified
  <2>5. pc' = "upload" => ~dryRun
    OBVIOUS
  <2> QED
    BY <1>1, <2>1, <2>2, <2>3, <2>4, <2>5 DEF Verified
<1>5. Uploading' /\ Uploaded'
  BY <1>1 DEF Uploading, Uploaded
<1> QED
  BY <1>2, <1>3, <1>4, <1>5 DEF IInv

(* Both uploads are started before the first one is awaited.                *)
LEMMA UploadFilesStep == IInv /\ UploadFiles => IInv'
<1> SUFFICES ASSUME IInv, UploadFiles PROVE IInv'
  OBVIOUS
<1> USE DEF UploadFiles, Approve
<1>1. /\ pc = "upload" /\ ~dryRun /\ LinksOf(content) \subseteq answered
      /\ approved' = approved \cup {content}
      /\ UNCHANGED <<local, bucket, edge, invalidation, served, dryRun, links, answered>>
  BY DEF IInv, Verified
<1>2. /\ pc' \in {"await", "failed"} /\ puts' \subseteq Keys
      /\ pc' = "await" => Index \in puts' /\ (stage = "test" => Testing \in puts')
      /\ Testing \in puts' => built # 0
  BY KeysDiffer
<1>3. TypeOK'
  <2>1. approved' \subseteq 0..MaxEdition
    BY <1>1 DEF IInv, TypeOK
  <2> QED
    BY <1>1, <1>2, <2>1 DEF IInv, TypeOK, Ended
<1>4. Order' /\ NamedExtensionIsServed'
  BY <1>1 DEF IInv, Order, NamedExtensionIsServed
<1>5. Verified' /\ Uploaded'
  BY <1>1, <1>2 DEF IInv, Verified, Uploaded
<1>6. Uploading'
  BY <1>1, <1>2 DEF Uploading, LinksOf
<1> QED
  BY <1>3, <1>4, <1>5, <1>6 DEF IInv

(* An object that is put is the local file, which the run has verified.     *)
LEMMA Puts ==
  ASSUME IInv, NEW k \in puts, bucket' = [bucket EXCEPT ![k] = LocalFile(k)],
         puts' = puts \ {k}, pc' \in {pc, "failed"},
         UNCHANGED <<local, edge, invalidation, served, dryRun, links, answered, approved>>
  PROVE  IInv'
<1>0. k \in Keys /\ pc \in {"await", "failed"} /\ pc' \in {"await", "failed"}
  BY DEF IInv, TypeOK, Uploading
<1>1. /\ DOMAIN bucket' = Keys
      /\ bucket'[Index] = IF k = Index THEN content ELSE bucket[Index]
      /\ bucket'[Testing] = IF k = Testing THEN built ELSE bucket[Testing]
  BY <1>0, KeysDiffer DEF IInv, TypeOK, LocalFile
<1>2. k = Testing => built \in 1..MaxBuild
  BY UploadAssumption DEF IInv, TypeOK, Uploading
<1>3. bucket[Testing] # Nothing => bucket'[Testing] # Nothing
  BY <1>1, <1>2, UploadAssumption
<1>4. TypeOK'
  <2>1. \A f \in {bucket', edge} :
          /\ DOMAIN f = Keys
          /\ f[Index] \in 0..MaxEdition \cup {Nothing}
          /\ f[Testing] \in 1..MaxBuild \cup {Nothing}
    BY <1>1, <1>2 DEF IInv, TypeOK
  <2>2. puts' \subseteq Keys /\ pc' \in Ended \cup {"verify", "configure", "upload", "await", "check"}
    BY <1>0 DEF IInv, TypeOK, Ended
  <2> QED
    BY <2>1, <2>2 DEF IInv, TypeOK
<1>5. Order'
  <2>1. CASE k = Index
    <3>1. bucket'[Index] = content /\ content \in approved /\ content # Nothing
      BY <1>1, <2>1, NumbersAreSomething DEF IInv, Uploading, TypeOK
    <3>2. content \in Nat
      BY NumbersAreSomething DEF IInv, TypeOK
    <3>3. edge[Index] # Nothing => edge[Index] \in Nat /\ bucket[Index] \in Nat /\
            edge[Index] <= bucket[Index] /\ bucket[Index] <= content /\ edge[Index] \in approved
      BY NumbersAreSomething DEF IInv, Order, TypeOK
    <3>4. edge[Index] # Nothing => edge[Index] <= content
      BY <3>2, <3>3
    <3> QED
      BY <1>3, <3>1, <3>2, <3>3, <3>4 DEF IInv, Order
  <2>2. CASE k # Index
    BY <1>1, <1>3, <2>2 DEF IInv, Order
  <2> QED
    BY <2>1, <2>2
<1>6. Verified'
  BY <1>0, <1>3 DEF IInv, Verified
<1>7. Uploading'
  <2>1. LinksOf(content)' = LinksOf(content)
    BY DEF LinksOf
  <2>2. pc' = "await" => pc = "await"
    BY <1>0
  <2> QED
    BY <1>0, <1>1, <2>1, <2>2 DEF IInv, Uploading
<1>8. Uploaded'
  BY <1>0 DEF Uploaded
<1>9. NamedExtensionIsServed'
  <2>1. stage = "test" /\ k = Index => bucket[Testing] # Nothing
    BY DEF IInv, Uploading, Verified, LinksOf
  <2> QED
    BY <1>1, <1>3, <2>1 DEF IInv, NamedExtensionIsServed
<1> QED
  BY <1>4, <1>5, <1>6, <1>7, <1>8, <1>9 DEF IInv

LEMMA PutStep ==
  ASSUME IInv, NEW k \in Keys, PutObject(k) \/ PutObjectFails(k)
  PROVE  IInv'
<1> USE DEF PutObject, PutObjectFails
<1>1. CASE bucket' = [bucket EXCEPT ![k] = LocalFile(k)]
  BY <1>1, Puts
<1>2. CASE bucket' = bucket /\ PutObjectFails(k)
  <2>1. TypeOK'
    BY <1>2 DEF IInv, TypeOK, Ended
  <2>2. Order' /\ Verified' /\ Uploaded' /\ NamedExtensionIsServed'
    BY <1>2 DEF IInv, Order, Verified, Uploaded, NamedExtensionIsServed
  <2>3. Uploading'
    BY <1>2 DEF IInv, Uploading, LinksOf
  <2> QED
    BY <2>1, <2>2, <2>3 DEF IInv
<1> QED
  BY <1>1, <1>2

(* The end of a run.                                                        *)
LEMMA EndStep == IInv /\ (InvalidateCloudFrontCache \/ VerifyIndex) => IInv'
<1> SUFFICES ASSUME IInv, InvalidateCloudFrontCache \/ VerifyIndex PROVE IInv'
  OBVIOUS
<1> USE DEF InvalidateCloudFrontCache, VerifyIndex
<1>1. /\ pc \in {"await", "check"} /\ pc' \in {"check", "done", "failed"} /\ puts = {}
      /\ pc' = "check" => pc = "await" /\ invalidation'
      /\ pc' = "done" => pc = "check" /\ invalidation' = invalidation
      /\ invalidation' \in BOOLEAN
      /\ UNCHANGED <<local, bucket, edge, served, dryRun, links, puts, answered, approved>>
  BY DEF IInv, TypeOK, Uploading
<1>2. TypeOK'
  BY <1>1 DEF IInv, TypeOK, Ended
<1>3. Order' /\ NamedExtensionIsServed' /\ Verified'
  BY <1>1 DEF IInv, Order, NamedExtensionIsServed, Verified
<1>4. Uploading'
  BY <1>1 DEF IInv, Uploading
<1>5. Uploaded'
  BY <1>1 DEF IInv, Uploading, Uploaded, Fresh
<1> QED
  BY <1>2, <1>3, <1>4, <1>5 DEF IInv

----------------------------------------------------------------------------
(* The edge, whose copies are of what the bucket has or had.                *)
LEMMA EdgeFetchesStep ==
  ASSUME IInv, NEW k \in Keys, EdgeFetches(k)
  PROVE  IInv'
<1> USE DEF EdgeFetches
<1>1. /\ DOMAIN edge' = Keys /\ edge'[k] = bucket[k] /\ bucket[k] # Nothing
      /\ \A x \in Keys : x # k => edge'[x] = edge[x]
  BY DEF IInv, TypeOK
<1>2. \A x \in Keys : edge'[x] \in {edge[x], bucket[x]}
  BY <1>1
<1>3. TypeOK'
  <2>1. \A f \in {bucket, edge'} :
          /\ DOMAIN f = Keys
          /\ f[Index] \in 0..MaxEdition \cup {Nothing}
          /\ f[Testing] \in 1..MaxBuild \cup {Nothing}
    BY <1>1, <1>2, KeysDiffer DEF IInv, TypeOK
  <2> QED
    BY <2>1 DEF IInv, TypeOK
<1>4. Order'
  <2>1. bucket[Index] # Nothing => bucket[Index] <= bucket[Index]
    BY NumbersAreSomething DEF IInv, TypeOK
  <2>2. edge'[Index] \in {edge[Index], bucket[Index]} /\ edge'[Testing] \in {edge[Testing], bucket[Testing]}
    BY <1>2, KeysDiffer
  <2> QED
    BY <2>1, <2>2 DEF IInv, Order
<1>5. Verified' /\ Uploading' /\ NamedExtensionIsServed'
  BY DEF IInv, Verified, Uploading, NamedExtensionIsServed, LinksOf
<1>6. Uploaded'
  BY <1>2 DEF IInv, Uploaded, Fresh
<1> QED
  BY <1>3, <1>4, <1>5, <1>6 DEF IInv

LEMMA EdgeForgetsStep ==
  ASSUME IInv, CompleteInvalidation \/ \E k \in Keys : EdgeExpires(k)
  PROVE  IInv'
<1> USE DEF EdgeExpires, CompleteInvalidation
<1>1. /\ DOMAIN edge' = Keys /\ \A x \in Keys : edge'[x] \in {edge[x], Nothing}
      /\ invalidation' # invalidation => \A x \in Keys : edge'[x] = Nothing
      /\ invalidation' \in BOOLEAN
      /\ UNCHANGED <<local, bucket, served, run>>
  BY DEF IInv, TypeOK
<1>2. edge'[Index] \in {edge[Index], Nothing} /\ edge'[Testing] \in {edge[Testing], Nothing}
  BY <1>1, KeysDiffer
<1>3. TypeOK'
  <2>1. \A f \in {bucket, edge'} :
          /\ DOMAIN f = Keys
          /\ f[Index] \in 0..MaxEdition \cup {Nothing}
          /\ f[Testing] \in 1..MaxBuild \cup {Nothing}
    BY <1>1, <1>2 DEF IInv, TypeOK
  <2> QED
    BY <1>1, <2>1 DEF IInv, TypeOK
<1>4. Order'
  BY <1>1, <1>2 DEF IInv, Order
<1>5. Verified' /\ Uploading' /\ NamedExtensionIsServed'
  BY <1>1 DEF IInv, Verified, Uploading, NamedExtensionIsServed, LinksOf
<1>6. Uploaded'
  BY <1>1 DEF IInv, TypeOK, Uploaded, Fresh
<1> QED
  BY <1>3, <1>4, <1>5, <1>6 DEF IInv

LEMMA ServeStep ==
  ASSUME IInv, UNCHANGED vars \/ \E url \in Urls : ServeOrTakeDown(url)
  PROVE  IInv'
<1>1. UNCHANGED <<local, bucket, edge, invalidation, run>> /\ served' \subseteq Urls
  BY DEF ServeOrTakeDown, IInv, TypeOK
<1>2. TypeOK'
  BY <1>1 DEF IInv, TypeOK
<1>3. Order' /\ Verified' /\ Uploading' /\ Uploaded' /\ NamedExtensionIsServed'
  BY <1>1 DEF IInv, Order, Verified, Uploading, Uploaded, Fresh, NamedExtensionIsServed, LinksOf
<1> QED
  BY <1>2, <1>3 DEF IInv

LEMMA Preserved == IInv /\ [Next]_vars => IInv'
<1> SUFFICES ASSUME IInv, [Next]_vars PROVE IInv'
  OBVIOUS
<1>1. CASE Upload
  BY <1>1, VerificationStep, UploadFilesStep, PutStep, EndStep DEF Upload
<1>2. CASE Environment
  BY <1>2, DeveloperStep, EdgeFetchesStep, EdgeForgetsStep, ServeStep DEF Environment
<1> QED
  BY <1>1, <1>2, ServeStep DEF Next

LEMMA Invariance == Spec => []IInv
BY Initially, Preserved, PTL DEF Spec

----------------------------------------------------------------------------
(* The variables of the upload and of the edge have their types.            *)
THEOREM UploadTypes == Spec => []TypeOK
<1>1. IInv => TypeOK
  BY DEF IInv
<1> QED
  BY <1>1, Invariance, PTL

(* After a run that succeeded and its invalidation the clients of the edge  *)
(* get the files of that run.                                               *)
THEOREM SuccessIsVisible == Spec => []SuccessReachesClients
<1>1. IInv => SuccessReachesClients
  BY DEF IInv, Uploaded, Fresh, SuccessReachesClients
<1> QED
  BY <1>1, Invariance, PTL

(* The index of the test stage is never in the bucket without the testing   *)
(* extension it names, although upload.ts puts both at the same time.       *)
THEOREM NamesWhatIsThere == Spec => []NamedExtensionIsServed
<1>1. IInv => NamedExtensionIsServed
  BY DEF IInv
<1> QED
  BY <1>1, Invariance, PTL

----------------------------------------------------------------------------
(* What the edge serves only goes on to later, approved editions.           *)
LEMMA ServedGrows ==
  ASSUME IInv, IInv', bucket' = bucket \/ (bucket'[Index] \in {bucket[Index], content} /\ edge' = edge),
         edge'[Index] \in {edge[Index], bucket[Index], Nothing},
         Index \in puts \/ bucket'[Index] = bucket[Index],
         approved' = approved
  PROVE  \/ Served' = Served
         \/ Served' \in approved /\ (Served = Nothing \/ Served' > Served)
<1>1. /\ content \in Nat /\ content # Nothing
      /\ bucket[Index] # Nothing => bucket[Index] \in Nat
      /\ edge[Index] # Nothing => edge[Index] \in Nat
  BY NumbersAreSomething DEF IInv, TypeOK
<1>2. Index \in puts => content \in approved
  BY DEF IInv, Uploading
<1> QED
  BY <1>1, <1>2 DEF Served, IInv, Order

LEMMA StepOfRegistry == IInv /\ IInv' /\ [Next]_vars => [Registry!Next]_<<Served, approved>>
<1> SUFFICES ASSUME IInv, IInv', [Next]_vars PROVE [Registry!Next]_<<Served, approved>>
  OBVIOUS
<1>1. CASE UploadFiles
  <2>1. Served' = Served /\ approved' \in {approved, approved \cup {content}}
    BY <1>1 DEF UploadFiles, Approve, Served
  <2>2. content \in 0..MaxEdition
    BY DEF IInv, TypeOK
  <2> QED
    BY <2>1, <2>2 DEF Registry!Next, Registry!Approve
<1>2. CASE ~UploadFiles
  <2>1. approved' = approved
    BY <1>2 DEF Next, Upload, Environment, VerifyLink, VerifyLinkFails, VerifyExtensionUrls,
       ReadStackConfiguration, PutObject, PutObjectFails, InvalidateCloudFrontCache, VerifyIndex,
       Generate, Build, Start, EdgeFetches, EdgeExpires, CompleteInvalidation, ServeOrTakeDown
  <2>2. \/ bucket' = bucket
        \/ edge' = edge /\ \E k \in puts : bucket' = [bucket EXCEPT ![k] = LocalFile(k)]
    BY <1>2 DEF Next, Upload, Environment, VerifyLink, VerifyLinkFails, VerifyExtensionUrls,
       ReadStackConfiguration, PutObject, PutObjectFails, InvalidateCloudFrontCache, VerifyIndex,
       Generate, Build, Start, EdgeFetches, EdgeExpires, CompleteInvalidation, ServeOrTakeDown
  <2>3. \/ edge' = edge \/ edge' = [k \in Keys |-> Nothing]
        \/ \E k \in Keys : edge' \in {[edge EXCEPT ![k] = bucket[k]], [edge EXCEPT ![k] = Nothing]}
    BY <1>2 DEF Next, Upload, Environment, VerifyLink, VerifyLinkFails, VerifyExtensionUrls,
       ReadStackConfiguration, PutObject, PutObjectFails, InvalidateCloudFrontCache, VerifyIndex,
       Generate, Build, Start, EdgeFetches, EdgeExpires, CompleteInvalidation, ServeOrTakeDown
  <2>4. edge'[Index] \in {edge[Index], bucket[Index], Nothing}
    BY <2>3, KeysDiffer DEF IInv, TypeOK
  <2>5. ASSUME NEW k \in puts, bucket' = [bucket EXCEPT ![k] = LocalFile(k)]
        PROVE  bucket'[Index] = IF k = Index THEN content ELSE bucket[Index]
    BY <2>5, KeysDiffer DEF IInv, TypeOK, LocalFile
  <2>6. /\ bucket' = bucket \/ (bucket'[Index] \in {bucket[Index], content} /\ edge' = edge)
        /\ Index \in puts \/ bucket'[Index] = bucket[Index]
    BY <2>2, <2>5
  <2>7. \/ Served' = Served
        \/ Served' \in approved /\ (Served = Nothing \/ Served' > Served)
    BY <2>1, <2>4, <2>6, ServedGrows
  <2>8. approved \subseteq 0..MaxEdition
    BY DEF IInv, TypeOK
  <2> QED
    BY <2>1, <2>7, <2>8 DEF Registry!Next, Registry!Show
<1> QED
  BY <1>1, <1>2

LEMMA InitOfRegistry == Init => Registry!Init
<1> SUFFICES ASSUME Init PROVE Registry!Init
  OBVIOUS
<1>1. IInv
  BY Initially
<1>2. Served = bucket[Index] /\ approved = {bucket[Index]} \ {Nothing}
  BY KeysDiffer DEF Init, Served
<1>3. bucket[Index] \in 0..MaxEdition \cup {Nothing}
  BY <1>1 DEF IInv, TypeOK
<1> QED
  BY <1>2, <1>3, UploadAssumption DEF Registry!Init

(* The edge serves what PublishedRegistry promises: an edition whose links  *)
(* have all answered in a run that was no dry run, and never an older one   *)
(* after it, whatever fails and however late caches are emptied.            *)
THEOREM UploadPublishes == Spec => ImplementsRegistry
<1> QED
  BY InitOfRegistry, StepOfRegistry, Invariance, PTL DEF Spec, ImplementsRegistry, Registry!Spec

----------------------------------------------------------------------------
(* What is left of a run: its links, the steps that follow, and the uploads *)
(* that go on when it has failed.                                           *)
PutsLeft == (IF Index \in puts THEN 1 ELSE 0) + (IF Testing \in puts THEN 1 ELSE 0)
RunLeft ==
  CASE pc = "verify" -> Cardinality(links) + 7
    [] pc = "configure" -> 6
    [] pc = "upload" -> 5
    [] pc = "await" -> PutsLeft + 2
    [] pc = "check" -> 1
    [] OTHER -> PutsLeft

(* A run gets closer to its end with every answer of a web server or of AWS *)
(* to it, whether it is an error or not, and has come to its end exactly    *)
(* when nothing is left. The environment takes nothing back: neither the    *)
(* edge with its cache nor the servers of the links.                        *)
RunAdvances ==
  /\ RunLeft = 0 <=> Exited
  /\ ~Exited =>
       /\ RunLeft \in 1..Cardinality(Urls) + 8
       /\ Upload => RunLeft' < RunLeft
       /\ ~Upload => RunLeft' = RunLeft

LEMMA LinksLeft ==
  ASSUME IsFiniteSet(Urls), IInv
  PROVE  /\ IsFiniteSet(links) /\ Cardinality(links) \in Nat /\ Cardinality(Urls) \in Nat
         /\ Cardinality(links) <= Cardinality(Urls) + 1
<1>1. IsFiniteSet(Urls \cup {OwnUrl}) /\ Cardinality(Urls \cup {OwnUrl}) = Cardinality(Urls) + 1
  BY FS_AddElement, UploadAssumption
<1>2. links \subseteq Urls \cup {OwnUrl}
  BY DEF IInv, TypeOK
<1>3. IsFiniteSet(links) /\ Cardinality(links) <= Cardinality(Urls \cup {OwnUrl})
  BY <1>1, <1>2, FS_Subset
<1> QED
  BY <1>1, <1>3, FS_CardinalityType

(* An upload that ends, with an error or without.                           *)
LEMMA PutsShorten ==
  ASSUME NEW k \in puts, puts \subseteq Keys, puts' = puts \ {k}
  PROVE  PutsLeft \in 1..2 /\ PutsLeft' = PutsLeft - 1
BY KeysDiffer DEF PutsLeft

LEMMA RunIsFar ==
  ASSUME IsFiniteSet(Urls), IInv
  PROVE  /\ RunLeft \in 0..Cardinality(Urls) + 8 /\ Cardinality(Urls) \in Nat
         /\ RunLeft = 0 <=> Exited
<1>1. PutsLeft \in 0..2 /\ (PutsLeft = 0 <=> puts = {})
  BY KeysDiffer DEF PutsLeft, IInv, TypeOK
<1> QED
  BY <1>1, LinksLeft DEF RunLeft, Exited, Ended, IInv, TypeOK

LEMMA UploadsShorten ==
  ASSUME IsFiniteSet(Urls), IInv, Upload
  PROVE  RunLeft' < RunLeft
<1>1. puts \subseteq Keys /\ (pc \notin {"await", "failed"} => puts = {} /\ PutsLeft = 0)
  BY DEF IInv, TypeOK, Uploading, PutsLeft
<1>2. PutsLeft \in 0..2
  BY DEF PutsLeft
<1>3. ASSUME NEW url \in Urls \cup {OwnUrl}, VerifyLink(url) PROVE RunLeft' < RunLeft
  <2>1. pc = "verify" /\ pc' = "verify" /\ url \in links /\ links' = links \ {url}
    BY <1>3 DEF VerifyLink
  <2>2. Cardinality(links') = Cardinality(links) - 1
    BY <2>1, LinksLeft, FS_RemoveElement
  <2> QED
    BY <2>1, <2>2, LinksLeft DEF RunLeft
<1>4. ASSUME NEW url \in Urls \cup {OwnUrl}, VerifyLinkFails(url) PROVE RunLeft' < RunLeft
  <2>1. pc = "verify" /\ pc' = "failed" /\ PutsLeft' = 0
    BY <1>1, <1>4 DEF VerifyLinkFails, PutsLeft
  <2> QED
    BY <2>1, LinksLeft DEF RunLeft
<1>5. CASE VerifyExtensionUrls
  BY <1>5, LinksLeft DEF VerifyExtensionUrls, RunLeft
<1>6. CASE ReadStackConfiguration
  <2>1. PutsLeft' = 0
    BY <1>1, <1>6 DEF ReadStackConfiguration, PutsLeft
  <2> QED
    BY <1>6, <2>1 DEF ReadStackConfiguration, RunLeft
<1>7. CASE UploadFiles
  <2>1. pc = "upload" /\ pc' \in {"await", "failed"}
    BY <1>7 DEF UploadFiles
  <2>2. PutsLeft' \in 0..2
    BY DEF PutsLeft
  <2> QED
    BY <1>7, <2>1, <2>2, KeysDiffer DEF UploadFiles, RunLeft, PutsLeft
<1>8. ASSUME NEW k \in Keys, PutObject(k) \/ PutObjectFails(k) PROVE RunLeft' < RunLeft
  <2>1. k \in puts /\ puts' = puts \ {k} /\ pc' \in {pc, "failed"}
    BY <1>8 DEF PutObject, PutObjectFails
  <2>2. PutsLeft \in 1..2 /\ PutsLeft' = PutsLeft - 1
    BY <1>1, <2>1, PutsShorten
  <2>3. pc \in {"await", "failed"}
    BY <1>1, <2>1
  <2> QED
    BY <2>1, <2>2, <2>3 DEF RunLeft
<1>9. CASE InvalidateCloudFrontCache
  <2>1. pc = "await" /\ puts = {} /\ puts' = {} /\ pc' \in {"check", "failed"}
    BY <1>9 DEF InvalidateCloudFrontCache
  <2>2. PutsLeft = 0 /\ PutsLeft' = 0
    BY <2>1 DEF PutsLeft
  <2> QED
    BY <2>1, <2>2 DEF RunLeft
<1>10. CASE VerifyIndex
  <2>1. pc = "check" /\ puts = {} /\ puts' = {} /\ pc' \in {"done", "failed"}
    BY <1>1, <1>10 DEF VerifyIndex
  <2>2. PutsLeft' = 0
    BY <2>1 DEF PutsLeft
  <2> QED
    BY <2>1, <2>2 DEF RunLeft
<1> QED
  BY <1>3, <1>4, <1>5, <1>6, <1>7, <1>8, <1>9, <1>10 DEF Upload

(* An upload comes to its end, also one that fails while a file is being    *)
(* uploaded: it has at most one answer to each link and eight more to wait  *)
(* for (upload.ts, verifyExtensionUrls and uploadRegistry).                 *)
THEOREM UploadsComeToAnEnd ==
  ASSUME IsFiniteSet(Urls)
  PROVE  Spec => [][RunAdvances]_vars
<1>1. IInv /\ Next => RunAdvances
  <2> SUFFICES ASSUME IInv, Next PROVE RunAdvances
    OBVIOUS
  <2>1. RunLeft = 0 <=> Exited
    BY RunIsFar
  <2>2. ASSUME ~Exited PROVE RunLeft \in 1..Cardinality(Urls) + 8
    BY <2>1, <2>2, RunIsFar
  <2>3. ASSUME ~Exited, ~Upload PROVE RunLeft' = RunLeft
    <3>1. UNCHANGED <<pc, links, puts>>
      BY <2>3 DEF Next, Environment, Generate, Build, Start, EdgeFetches, EdgeExpires,
         CompleteInvalidation, ServeOrTakeDown
    <3> QED
      BY <3>1 DEF RunLeft, PutsLeft
  <2> QED
    BY <2>1, <2>2, <2>3, UploadsShorten DEF RunAdvances
<1> QED
  BY <1>1, Invariance, PTL DEF Spec
=============================================================================
