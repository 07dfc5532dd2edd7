--------------------------- MODULE Replies_proofs ---------------------------
(***************************************************************************)
(* Proofs about the answers of single requests, for any request, any       *)
(* extension and replacement, and any statuses that extensions throw.      *)
(*                                                                         *)
(* The stages of every route come in one order.  With it the invariant     *)
(* says what is known once a stage is behind: Now is the rank of the stage *)
(* the request is at.                                                      *)
(***************************************************************************)
EXTENDS Replies, SequenceTheorems, FiniteSetTheorems, TLAPS

Stages ==
  {"open", "body", "begin", "bucketfs", "metadata", "load", "schema", "reload", "define",
   "verify", "validate", "call", "commit", "reply"}

Rank ==
  [s \in Stages |->
    CASE s = "open" -> 1
      [] s = "body" -> 2
      [] s = "begin" -> 3
      [] s \in {"bucketfs", "metadata"} -> 4
      [] s = "load" -> 5
      [] s = "schema" -> 6
      [] s = "reload" -> 7
      [] s \in {"define", "verify"} -> 8
      [] s = "validate" -> 9
      [] s = "call" -> 10
      [] s = "commit" -> 11
      [] s = "reply" -> 12]

Now == IF todo = <<>> THEN 13 ELSE Rank[Head(todo)]

(* The stages of which only one route, or one kind of route, has any.       *)
Belongs(route, stage) ==
  /\ stage \in {"body", "reload", "validate"} => route = "createInstance"
  /\ stage = "verify" => route = "uninstall"
  /\ stage = "define" => route \in {"details", "createInstance"}
  /\ stage = "commit" => route \in Writing

Has(route, stage) == \E i \in 1..Len(Path(route)) : Path(route)[i] = stage
Errors ==
  [kind : {"none", "plain", "panic"}, status : {0}]
    \cup [kind : {"api"}, status : Statuses \cup {400, 401, 404}]

(* What the invariant says of every request.                                *)
Typed ==
  /\ request \in Request
  /\ {extension, used, checked} \subseteq Extension
  /\ replaced \in {"no", "before", "between"}
  /\ error \in Errors
  /\ committed \in BOOLEAN
  /\ thrown \subseteq Statuses
  /\ fault \in BOOLEAN
Suffix(n) ==
  /\ n \in 0..Len(Path(request.route))
  /\ todo = SubSeq(Path(request.route), n + 1, Len(Path(request.route)))

Failed == error # NoError => Now >= 12
Thrown == \A s \in thrown : error = Api(s) /\ Now >= 12
Caused == error.kind = "api" => error.status \in {400, 401, 404} \cup thrown
Missed ==
  Accepted /\ ~fault /\ ~(used.found /\ checked.found) =>
    (error = NoError /\ Now <= 5) \/ error = Api(404)
Written == request.route \in Writing /\ error = NoError /\ Now > 11 => committed
Kept ==
  committed => Now >= 12 /\ error.kind # "api" /\ (~fault => error = NoError)
Created ==
  request.route = "createInstance" /\ error = NoError /\ Now > 10 =>
    used.method.does # "returnsNull"
Verified ==
  request.route = "uninstall" /\ (committed \/ (error = NoError /\ Now > 8)) =>
    used.find.does = "missing" \/ used.find.status = 404
      \/ (Returns(used.find) /\ ~used.instances)
Validated ==
  request.route = "createInstance" /\ (committed \/ (error = NoError /\ Now > 9)) =>
    Acceptable(DefinitionsOf(checked), request.values)
Same ==
  replaced # "between" => used = checked /\ (error = NoError /\ Now > 5 => extension = used)
Told ==
  IF todo # <<>> THEN status = 0
  ELSE \/ HandlerPanics /\ status \in {500, 504}
       \/ ~HandlerPanics /\ error.kind = "none" /\ status = Success(request.route)
       \/ error.kind = "plain" /\ status = 500
       \/ error.kind = "api" /\ status = Sent(error.status)

Facts ==
  Failed /\ Thrown /\ Caused /\ Missed /\ Written /\ Kept /\ Created /\ Verified
    /\ Validated /\ Same
IInv == Typed /\ (\E n \in Nat : Suffix(n)) /\ Facts /\ Told

----------------------------------------------------------------------------
(* The stages of the routes.                                                *)
Good(p, route) ==
  /\ p \in Seq(Stages)
  /\ Len(p) >= 1 /\ p[Len(p)] = "reply"
  /\ \A i, j \in 1..Len(p) : i < j => Rank[p[i]] < Rank[p[j]]
  /\ \A i \in 1..Len(p) : Belongs(route, p[i])

USE DEF Stages

LEMMA Ranks ==
  /\ Rank \in [Stages -> 1..12]
  /\ Rank["open"] = 1 /\ Rank["body"] = 2 /\ Rank["begin"] = 3
  /\ Rank["bucketfs"] = 4 /\ Rank["metadata"] = 4 /\ Rank["load"] = 5
  /\ Rank["schema"] = 6 /\ Rank["reload"] = 7 /\ Rank["define"] = 8 /\ Rank["verify"] = 8
  /\ Rank["validate"] = 9 /\ Rank["call"] = 10 /\ Rank["commit"] = 11 /\ Rank["reply"] = 12
  /\ \A s \in Stages : Rank[s] = 12 => s = "reply"
  BY DEF Rank

LEMMA RankIsNumber == \A s \in Stages : Rank[s] \in Int
<1>1. Rank \in [Stages -> 1..12]
  BY Ranks
<1> HIDE DEF Stages
<1> QED
  BY <1>1

LEMMA GoodPaths ==
  ASSUME NEW route \in Routes
  PROVE  Good(Path(route), route)
<1> USE Ranks DEF Good, Belongs, Path, Writing
<1>1. CASE route = "listAvailable"
  BY <1>1 DEF ListAvailableExtensions
<1>2. CASE route = "listInstalled"
  BY <1>2 DEF ListInstalledExtensions
<1>3. CASE route = "details"
  BY <1>3 DEF GetExtensionDetails
<1>4. CASE route = "install"
  BY <1>4 DEF InstallExtension
<1>5. CASE route = "uninstall"
  BY <1>5 DEF UninstallExtension
<1>6. CASE route = "upgrade"
  BY <1>6 DEF UpgradeExtension
<1>7. CASE route = "createInstance"
  BY <1>7 DEF CreateInstance
<1>8. CASE route = "listInstances"
  BY <1>8 DEF ListInstances
<1>9. CASE route = "deleteInstance"
  BY <1>9 DEF DeleteInstance
<1> QED
  BY <1>1, <1>2, <1>3, <1>4, <1>5, <1>6, <1>7, <1>8, <1>9 DEF Routes

LEMMA StagesOfRoutes ==
  ASSUME NEW route \in Routes
  PROVE  /\ Has(route, "load")
         /\ route \in Writing => Has(route, "call") /\ Has(route, "commit")
         /\ route = "createInstance" => Has(route, "reload") /\ Has(route, "validate")
         /\ route = "uninstall" => Has(route, "verify")
<1> USE DEF Has, Path, Writing
<1>1. CASE route = "listAvailable"
  <2> Path(route)[4] = "load" /\ 4 \in 1..Len(Path(route))
    BY <1>1 DEF ListAvailableExtensions
  <2> QED BY <1>1
<1>2. CASE route = "listInstalled"
  <2> Path(route)[4] = "load" /\ 4 \in 1..Len(Path(route))
    BY <1>2 DEF ListInstalledExtensions
  <2> QED BY <1>2
<1>3. CASE route = "details"
  <2> Path(route)[3] = "load" /\ 3 \in 1..Len(Path(route))
    BY <1>3 DEF GetExtensionDetails
  <2> QED BY <1>3
<1>4. CASE route = "listInstances"
  <2> Path(route)[3] = "load" /\ 3 \in 1..Len(Path(route))
    BY <1>4 DEF ListInstances
  <2> QED BY <1>4
<1>5. CASE route = "install"
  <2> /\ Path(route)[3] = "load" /\ Path(route)[5] = "call" /\ Path(route)[6] = "commit"
      /\ {3, 5, 6} \subseteq 1..Len(Path(route))
    BY <1>5 DEF InstallExtension
  <2> QED BY <1>5
<1>6. CASE route = "uninstall"
  <2> /\ Path(route)[3] = "load" /\ Path(route)[4] = "verify" /\ Path(route)[5] = "call"
      /\ Path(route)[6] = "commit" /\ {3, 4, 5, 6} \subseteq 1..Len(Path(route))
    BY <1>6 DEF UninstallExtension
  <2> QED BY <1>6
<1>7. CASE route = "upgrade"
  <2> /\ Path(route)[3] = "load" /\ Path(route)[4] = "call" /\ Path(route)[5] = "commit"
      /\ {3, 4, 5} \subseteq 1..Len(Path(route))
    BY <1>7 DEF UpgradeExtension
  <2> QED BY <1>7
<1>8. CASE route = "deleteInstance"
  <2> /\ Path(route)[3] = "load" /\ Path(route)[4] = "call" /\ Path(route)[5] = "commit"
      /\ {3, 4, 5} \subseteq 1..Len(Path(route))
    BY <1>8 DEF DeleteInstance
  <2> QED BY <1>8
<1>9. CASE route = "createInstance"
  <2> /\ Path(route)[4] = "load" /\ Path(route)[6] = "reload" /\ Path(route)[8] = "validate"
      /\ Path(route)[9] = "call" /\ Path(route)[10] = "commit"
      /\ {4, 6, 8, 9, 10} \subseteq 1..Len(Path(route))
    BY <1>9 DEF CreateInstance
  <2> QED BY <1>9
<1> QED
  BY <1>1, <1>2, <1>3, <1>4, <1>5, <1>6, <1>7, <1>8, <1>9 DEF Routes

(* Where a request is: at one stage of its route, and only the last one is   *)
(* the reply.                                                               *)
LEMMA Position ==
  ASSUME request.route \in Routes, NEW n \in Nat, Suffix(n)
  PROVE  /\ todo = <<>> <=> n = Len(Path(request.route))
         /\ Now \in 1..13 /\ (todo = <<>> <=> Now = 13)
         /\ todo # <<>> =>
              /\ n + 1 \in 1..Len(Path(request.route))
              /\ Head(todo) = Path(request.route)[n + 1]
              /\ Head(todo) \in Stages /\ Now = Rank[Head(todo)]
              /\ Belongs(request.route, Head(todo))
              /\ Head(todo) = "reply" <=> Now = 12
              /\ Now = 12 <=> n + 1 = Len(Path(request.route))
              /\ Tail(todo) = SubSeq(Path(request.route), n + 2, Len(Path(request.route)))
<1> DEFINE p == Path(request.route)
<1>1. Good(p, request.route)
  BY GoodPaths
<1>2. todo = SubSeq(p, n + 1, Len(p)) /\ n \in 0..Len(p)
  BY DEF Suffix
<1>3. p \in Seq(Stages) /\ Len(p) \in Nat /\ \A i \in 1..Len(p) : p[i] \in Stages
  BY <1>1 DEF Good
<1> HIDE DEF p
<1>4. /\ Len(todo) = Len(p) - n /\ todo \in Seq(Stages)
      /\ \A i \in 1..Len(todo) : todo[i] = p[n + i]
  BY <1>2, <1>3
<1>5. todo = <<>> <=> n = Len(p)
  <2>1. todo = <<>> <=> Len(todo) = 0
    BY <1>4, EmptySeq
  <2>2. Len(p) - n = 0 <=> n = Len(p)
    BY <1>3
  <2> QED BY <2>1, <2>2, <1>4
<1>6. CASE todo = <<>>
  BY <1>5, <1>6 DEF Now, p
<1>7. CASE todo # <<>>
  <2>1. n + 1 \in 1..Len(p) /\ Head(todo) = p[n + 1]
    BY <1>2, <1>3, <1>4, <1>5, <1>7
  <2>2. Now = Rank[p[n + 1]] /\ Now \in 1..12
    BY <2>1, <1>3, <1>7, Ranks DEF Now
  <2>3. Head(todo) = "reply" <=> Now = 12
    BY <2>1, <2>2, <1>3, Ranks
  <2>4. Now = 12 <=> n + 1 = Len(p)
    <3>1. Rank[p[Len(p)]] = 12 /\ Len(p) \in 1..Len(p)
      BY <1>1, <1>3, Ranks DEF Good
    <3>2. n + 1 < Len(p) => Now < 12
      BY <3>1, <2>1, <2>2, <1>1 DEF Good
    <3> QED BY <3>1, <3>2, <2>1, <2>2, <1>3
  <2>5. Tail(todo) = SubSeq(p, n + 2, Len(p))
    BY <1>2, <1>3, <1>4, <1>7
  <2>6. p[n + 1] \in Stages /\ Belongs(request.route, p[n + 1])
    BY <1>1, <1>3, <2>1 DEF Good
  <2> HIDE DEF Stages
  <2>7. /\ Head(todo) \in Stages /\ Now = Rank[Head(todo)]
        /\ Belongs(request.route, Head(todo))
    BY <2>1, <2>2, <2>6
  <2>8. Now \in 1..13 /\ Now # 13
    BY <2>2
  <2> QED
    BY <1>5, <1>7, <2>1, <2>3, <2>4, <2>5, <2>7, <2>8 DEF p
<1> QED
  BY <1>6, <1>7

LEMMA NextStage ==
  ASSUME NEW p, NEW route, Good(p, route), NEW n \in Nat, n + 1 \in 1..Len(p), n + 1 # Len(p)
  PROVE  /\ SubSeq(p, n + 2, Len(p)) # <<>> /\ Head(SubSeq(p, n + 2, Len(p))) = p[n + 2]
         /\ p[n + 2] \in Stages /\ Rank[p[n + 2]] > Rank[p[n + 1]]
         /\ \A i \in 1..Len(p) : Rank[p[i]] > Rank[p[n + 1]] => Rank[p[n + 2]] <= Rank[p[i]]
<1> DEFINE rest == SubSeq(p, n + 2, Len(p))
<1>1. p \in Seq(Stages) /\ Len(p) \in Nat
  BY DEF Good
<1> HIDE DEF Stages
<1>2. \A i \in 1..Len(p) : p[i] \in Stages /\ Rank[p[i]] \in Int
  BY <1>1, RankIsNumber
<1>3. \A i, j \in 1..Len(p) : i < j => Rank[p[i]] < Rank[p[j]]
  BY DEF Good
<1>4. n + 2 \in 1..Len(p)
  BY <1>1
<1>5. rest \in Seq(Stages) /\ Len(rest) = Len(p) - (n + 1) /\ rest[1] = p[n + 2]
  BY <1>1, <1>2, <1>4
<1>6. rest # <<>> /\ Head(rest) = p[n + 2]
  <2> HIDE DEF rest
  <2>1. Len(rest) # 0
    BY <1>1, <1>4, <1>5
  <2> QED BY <2>1, <1>5, EmptySeq
<1>7. Rank[p[n + 2]] > Rank[p[n + 1]]
  BY <1>2, <1>3, <1>4
<1>8. ASSUME NEW i \in 1..Len(p), Rank[p[i]] > Rank[p[n + 1]]
      PROVE  Rank[p[n + 2]] <= Rank[p[i]]
  <2>1. Rank[p[i]] \in Int /\ Rank[p[n + 1]] \in Int /\ Rank[p[n + 2]] \in Int
    BY <1>2, <1>4
  <2>2. CASE i < n + 1
    <3>1. Rank[p[i]] < Rank[p[n + 1]]
      BY <1>3, <2>2
    <3> QED BY <3>1, <2>1, <1>8
  <2>3. CASE i = n + 1
    BY <2>1, <2>3, <1>8
  <2>4. CASE i = n + 2
    BY <2>1, <2>4
  <2>5. CASE n + 2 < i
    <3>1. Rank[p[n + 2]] < Rank[p[i]]
      BY <1>3, <1>4, <2>5
    <3> QED BY <3>1, <2>1
  <2> QED
    BY <1>1, <2>2, <2>3, <2>4, <2>5
<1> QED
  BY <1>2, <1>4, <1>6, <1>7, <1>8

(* A stage that succeeds: no stage of the route is left out.                *)
LEMMA Proceeds ==
  ASSUME request.route \in Routes, NEW n \in Nat, Suffix(n),
         todo # <<>>, Head(todo) # "reply", todo' = Tail(todo), request' = request
  PROVE  /\ Suffix(n + 1)'
         /\ todo' # <<>> /\ Now' > Now /\ Now' \in 1..12
         /\ \A s \in Stages : Has(request.route, s) /\ Rank[s] > Now => Now' <= Rank[s]
<1> DEFINE p == Path(request.route)
<1>1. Good(p, request.route)
  BY GoodPaths
<1>2. /\ n + 1 \in 1..Len(p) /\ n + 1 # Len(p) /\ Now = Rank[p[n + 1]]
      /\ todo' = SubSeq(p, n + 2, Len(p)) /\ Len(p) \in Nat
  BY Position, <1>1 DEF Good
<1>3. Suffix(n + 1)'
  BY <1>2 DEF Suffix
<1> HIDE DEF p
<1>4. /\ todo' # <<>> /\ Head(todo') = p[n + 2] /\ p[n + 2] \in Stages
      /\ Rank[p[n + 2]] > Now
      /\ \A i \in 1..Len(p) : Rank[p[i]] > Now => Rank[p[n + 2]] <= Rank[p[i]]
  BY <1>1, <1>2, NextStage
<1>5. Now' = Rank[p[n + 2]]
  BY <1>4 DEF Now
<1>6. \A s \in Stages : Has(request.route, s) => \E i \in 1..Len(p) : p[i] = s
  BY DEF Has, p
<1>7. Now' > Now /\ Now' \in 1..12
  BY <1>4, <1>5, Ranks
<1>8. ASSUME NEW s \in Stages, Has(request.route, s), Rank[s] > Now
      PROVE  Now' <= Rank[s]
  <2> PICK i \in 1..Len(p) : p[i] = s
    BY <1>6, <1>8
  <2> QED
    BY <1>4, <1>5, <1>8
<1> QED
  BY <1>3, <1>4, <1>7, <1>8

(* A stage that fails: only the reply is left.                              *)
LEMMA Fails ==
  ASSUME request.route \in Routes, todo' = <<"reply">>, request' = request
  PROVE  (\E n \in Nat : Suffix(n)') /\ todo' # <<>> /\ Now' = 12
<1> DEFINE p == Path(request.route)
<1>1. /\ p \in Seq(Stages) /\ Len(p) \in Nat \ {0} /\ p[Len(p)] = "reply"
  BY GoodPaths DEF Good
<1>2. todo' = SubSeq(p, Len(p), Len(p))
  <2> HIDE DEF p
  <2> QED BY <1>1
<1>3. Suffix(Len(p) - 1)' /\ Len(p) - 1 \in Nat
  BY <1>1, <1>2 DEF Suffix
<1> QED
  BY <1>3, Ranks DEF Now

LEMMA ErrorTypes ==
  /\ NoError \in Errors /\ Plain \in Errors /\ Panic \in Errors
  /\ \A s \in Statuses \cup {400, 401, 404} :
       Api(s) \in Errors /\ Api(s).kind = "api" /\ Api(s).status = s
  /\ Plain.kind = "plain" /\ Panic.kind = "panic" /\ NoError.kind = "none"
  /\ \A e \in Errors : e.kind = "none" => e = NoError
  /\ \A e \in Errors : e.kind \in {"none", "plain", "panic", "api"}
  BY DEF Errors, NoError, Plain, Panic, Api

LEMMA RouteOf == Typed => request.route \in Routes
  BY DEF Typed, Request

(* Before the reply nothing has failed and nothing has been committed.      *)
LEMMA Before ==
  ASSUME IInv, NEW s \in Stages \ {"reply"}, At(s)
  PROVE  /\ todo # <<>> /\ Now = Rank[s] /\ Belongs(request.route, s)
         /\ error = NoError /\ thrown = {} /\ committed = FALSE /\ status = 0
<1>1. PICK n \in Nat : Suffix(n)
  BY DEF IInv
<1>2. todo # <<>> /\ Now = Rank[s] /\ ~(Now >= 12) /\ Belongs(request.route, s)
  BY <1>1, Position, RouteOf, Ranks DEF IInv, At
<1>3. error = NoError
  BY <1>2 DEF IInv, Facts, Failed
<1>4. thrown = {}
  BY <1>2 DEF IInv, Facts, Thrown
<1>5. committed = FALSE
  BY <1>2 DEF IInv, Typed, Facts, Kept
<1>6. status = 0
  BY <1>2 DEF IInv, Told
<1> QED
  BY <1>2, <1>3, <1>4, <1>5, <1>6

LEMMA OnProceed ==
  ASSUME IInv, NEW s \in Stages \ {"reply"}, At(s), Proceed, request' = request
  PROVE  /\ \E n \in Nat : Suffix(n)'
         /\ todo' # <<>> /\ error' = NoError /\ Now' > Rank[s] /\ Now' \in 1..12
         /\ \A t \in Stages : Has(request.route, t) /\ Rank[t] > Rank[s] => Now' <= Rank[t]
<1>1. PICK n \in Nat : Suffix(n)
  BY DEF IInv
<1>2. todo # <<>> /\ Head(todo) # "reply" /\ Now = Rank[s] /\ error = NoError
  BY Before DEF At
<1> QED
  BY <1>1, <1>2, Proceeds, RouteOf DEF IInv, Proceed

LEMMA OnFail ==
  ASSUME IInv, NEW e, Fail(e), request' = request
  PROVE  (\E n \in Nat : Suffix(n)') /\ todo' # <<>> /\ error' = e /\ Now' = 12
  BY Fails, RouteOf DEF IInv, Fail

----------------------------------------------------------------------------
(* Every action keeps the invariant.                                        *)
LEMMA Initially == Init => IInv
<1> SUFFICES ASSUME Init PROVE IInv
  OBVIOUS
<1> USE DEF Init
<1>1. Typed
  <2>1. request \in Request /\ {extension, used, checked} \subseteq Extension
    BY RepliesAssumption
  <2> QED
    BY <2>1, ErrorTypes DEF Typed
<1>2. request.route \in Routes
  BY <1>1, RouteOf
<1>3. Suffix(0) /\ 0 \in Nat
  <2> DEFINE p == Path(request.route)
  <2>1. p \in Seq(Stages) /\ Len(p) \in Nat
    BY <1>2, GoodPaths DEF Good
  <2> HIDE DEF p
  <2>2. p = SubSeq(p, 0 + 1, Len(p))
    BY <2>1
  <2> QED
    BY <2>1, <2>2 DEF Suffix, p
<1>4. todo # <<>>
  <2>1. Len(todo) >= 1
    BY <1>2, GoodPaths DEF Good
  <2> QED BY <2>1, EmptySeq
<1>5. Now \in 1..12
  BY <1>2, <1>3, <1>4, Position
<1>6. Now <= 5
  <2>1. Rank[Path(request.route)[1]] = 1
    BY <1>2, Ranks
       DEF Routes, Path, ListAvailableExtensions, ListInstalledExtensions, GetExtensionDetails,
           InstallExtension, UninstallExtension, UpgradeExtension, CreateInstance,
           ListInstances, DeleteInstance
  <2> QED BY <2>1, <1>4 DEF Now
<1>7. Facts
  BY <1>5, <1>6, ErrorTypes
     DEF Facts, Failed, Thrown, Caused, Missed, Written, Kept, Created, Verified, Validated, Same
<1>8. Told
  BY <1>4 DEF Told
<1> QED
  BY <1>1, <1>3, <1>7, <1>8 DEF IInv

(* A stage that succeeds and whose success means something must have looked *)
(* for it.                                                                  *)
LEMMA Succeeds ==
  ASSUME IInv, NEW s \in Stages \ {"load", "reload", "commit", "reply"}, At(s), Proceed,
         UNCHANGED <<input, committed, status, thrown, fault>>,
         s = "call" /\ request.route = "createInstance" => used.method.does # "returnsNull",
         s = "verify" =>
           used.find.does = "missing" \/ used.find.status = 404
             \/ (Returns(used.find) /\ ~used.instances),
         s = "validate" => Acceptable(DefinitionsOf(checked), request.values)
  PROVE  IInv'
<1> USE DEF input
<1>1. /\ error = NoError /\ thrown = {} /\ committed = FALSE /\ status = 0
      /\ Now = Rank[s] /\ Rank[s] \in 1..12 /\ request.route \in Routes
      /\ s = "define" => request.route # "uninstall"
  BY Before, RouteOf, Ranks DEF IInv, Belongs
<1>2. /\ \E n \in Nat : Suffix(n)'
      /\ todo' # <<>> /\ error' = NoError /\ Now' > Rank[s] /\ Now' \in 1..12
      /\ \A t \in Stages : Has(request.route, t) /\ Rank[t] > Rank[s] => Now' <= Rank[t]
  BY OnProceed
<1>3. Typed'
  BY <1>2, ErrorTypes DEF IInv, Typed
<1>4. Failed' /\ Thrown' /\ Caused' /\ Kept'
  BY <1>1, <1>2, ErrorTypes DEF Failed, Thrown, Caused, Kept
<1>5. Rank[s] <= 4 => Now' <= 5
  BY <1>1, <1>2, StagesOfRoutes, Ranks
<1>6. Missed' /\ Same'
  BY <1>1, <1>2, <1>5, Ranks, ErrorTypes DEF IInv, Facts, Missed, Same, Accepted, Api, NoError
<1>7. Written'
  BY <1>1, <1>2, StagesOfRoutes, Ranks DEF Written
<1>8. Created'
  <2>1. CASE s = "call"
    BY <2>1 DEF Created
  <2>2. CASE s # "call"
    BY <2>2, <1>1, <1>2, StagesOfRoutes, Ranks DEF IInv, Facts, Created, Writing
  <2> QED BY <2>1, <2>2
<1>9. Verified'
  <2>1. CASE s = "verify"
    BY <2>1 DEF Verified
  <2>2. CASE s # "verify"
    BY <2>2, <1>1, <1>2, StagesOfRoutes, Ranks DEF IInv, Facts, Verified, Returns
  <2> QED BY <2>1, <2>2
<1>10. Validated'
  <2>1. CASE s = "validate"
    BY <2>1 DEF Validated
  <2>2. CASE s # "validate"
    BY <2>2, <1>1, <1>2, StagesOfRoutes, Ranks DEF IInv, Facts, Validated
  <2> QED BY <2>1, <2>2
<1> QED
  BY <1>1, <1>2, <1>3, <1>4, <1>6, <1>7, <1>8, <1>9, <1>10 DEF IInv, Facts, Told

(* A stage that fails must fail with what the client is to be told.          *)
LEMMA FailsWith ==
  ASSUME IInv, NEW s \in Stages \ {"reply"}, At(s),
         NEW e \in Errors \ {NoError}, Fail(e),
         UNCHANGED <<input, committed, status>>,
         thrown' \subseteq Statuses, \A t \in thrown' : e = Api(t),
         e.kind = "api" => e.status \in {400, 401, 404} \cup thrown',
         fault' \in BOOLEAN, fault => fault',
         fault' \/ ~Accepted \/ Rank[s] > 5
  PROVE  IInv'
<1> USE DEF input
<1>0. Rank[s] \in 1..12
  BY Ranks
<1>1. /\ error = NoError /\ thrown = {} /\ committed = FALSE /\ status = 0
      /\ Now = Rank[s] /\ Rank[s] \in 1..12
  <2> HIDE DEF Stages
  <2> QED BY <1>0, Before
<1>2. (\E n \in Nat : Suffix(n)') /\ todo' # <<>> /\ error' = e /\ Now' = 12
  BY OnFail
<1>3. Typed'
  BY <1>2 DEF IInv, Typed
<1>4. Failed' /\ Thrown' /\ Caused' /\ Kept'
  BY <1>1, <1>2 DEF Failed, Thrown, Caused, Kept
<1>5. Missed'
  BY <1>1, <1>2, ErrorTypes DEF IInv, Facts, Missed, Accepted, Api, NoError
<1>6. Written' /\ Created' /\ Verified' /\ Validated' /\ Same'
  BY <1>1, <1>2 DEF IInv, Facts, Written, Created, Verified, Validated, Same
<1> QED
  BY <1>1, <1>2, <1>3, <1>4, <1>5, <1>6 DEF IInv, Facts, Told

LEMMA OpenStep == IInv /\ OpenDatabase => IInv'
<1> SUFFICES ASSUME IInv, OpenDatabase PROVE IInv'
  OBVIOUS
<1> USE DEF OpenDatabase
<1>1. CASE Proceed
  BY <1>1, Succeeds
<1>2. ASSUME NEW c \in {400, 401}, Fail(Api(c)), ~Accepted PROVE IInv'
  <2>1. Api(c) \in Errors \ {NoError} /\ Api(c).status = c
    BY ErrorTypes
  <2>2. thrown = {} /\ fault \in BOOLEAN
    BY Before DEF IInv, Typed
  <2> QED
    BY <1>2, <2>1, <2>2, FailsWith
<1> QED
  BY <1>1, <1>2 DEF Accepted

LEMMA DecodeStep == IInv /\ DecodeJSONBody => IInv'
<1> SUFFICES ASSUME IInv, DecodeJSONBody PROVE IInv'
  OBVIOUS
<1> USE DEF DecodeJSONBody
<1>1. CASE Proceed
  BY <1>1, Succeeds
<1>2. CASE ~request.body /\ Fail(Api(400))
  <2>1. Api(400) \in Errors \ {NoError} /\ Api(400).status = 400
    BY ErrorTypes
  <2>2. thrown = {} /\ fault \in BOOLEAN /\ ~Accepted
    BY <1>2, Before DEF IInv, Typed, Belongs, Accepted
  <2> QED
    BY <1>2, <2>1, <2>2, FailsWith
<1> QED
  BY <1>1, <1>2

LEMMA UseDatabaseStep == IInv /\ UseDatabase => IInv'
  BY Succeeds DEF UseDatabase

(* A definition is missed by the status 404 only where it is looked for.    *)
LEMMA LoadStep == IInv /\ LoadExtension => IInv'
<1> SUFFICES ASSUME IInv, LoadExtension PROVE IInv'
  OBVIOUS
<1> USE DEF LoadExtension, Load
<1>1. PICK s \in {"load", "reload"} : At(s) /\ s \in Stages \ {"reply"}
  OBVIOUS
<1>2. /\ error = NoError /\ thrown = {} /\ committed = FALSE /\ status = 0
      /\ Now = Rank[s] /\ Belongs(request.route, s) /\ request.route \in Routes
      /\ s = "load" => Now = 5
      /\ s = "reload" => Now = 7 /\ request.route = "createInstance"
  <2>1. /\ error = NoError /\ thrown = {} /\ committed = FALSE /\ status = 0
        /\ Now = Rank[s] /\ Belongs(request.route, s)
    BY <1>1, Before
  <2> QED
    BY <2>1, RouteOf, Ranks DEF IInv, Belongs
<1>3. /\ checked' = extension
      /\ s = "load" => used' = extension
      /\ s = "reload" => used' = used
  BY <1>1 DEF At
<1>4. s = "reload" /\ Accepted /\ ~fault => used.found
  BY <1>2, ErrorTypes DEF IInv, Facts, Missed, Api, NoError
<1>5. extension.found \in BOOLEAN /\ used' \in Extension /\ checked' \in Extension
  BY <1>1, <1>3 DEF IInv, Typed, Extension
<1>6. replaced # "between" => used' = checked' /\ extension' = used'
  BY <1>2, <1>3 DEF IInv, Facts, Same
<1>7. CASE extension.found /\ extension.loads /\ Proceed
  <2>1. /\ \E n \in Nat : Suffix(n)'
        /\ todo' # <<>> /\ error' = NoError /\ Now' > Rank[s] /\ Now' \in 1..12
        /\ \A t \in Stages : Has(request.route, t) /\ Rank[t] > Rank[s] => Now' <= Rank[t]
    BY <1>1, <1>7, OnProceed
  <2>2. Typed'
    BY <1>5, <2>1, ErrorTypes DEF IInv, Typed
  <2>3. Failed' /\ Thrown' /\ Caused' /\ Kept'
    BY <1>2, <2>1, ErrorTypes DEF Failed, Thrown, Caused, Kept
  <2>4. Missed' /\ Same'
    BY <1>3, <1>4, <1>6, <1>7 DEF Missed, Same, Accepted
  <2>5. Written' /\ Created' /\ Verified' /\ Validated'
    BY <1>2, <2>1, StagesOfRoutes, Ranks DEF Written, Created, Verified, Validated, Writing
  <2> QED
    BY <1>2, <2>1, <2>2, <2>3, <2>4, <2>5 DEF IInv, Facts, Told
<1>8. ASSUME ~(extension.found /\ extension.loads),
             NEW e \in Errors \ {NoError}, Fail(e), e \in {Plain, Api(404)},
             ~extension.found => e = Api(404)
      PROVE  IInv'
  <2>1. (\E n \in Nat : Suffix(n)') /\ todo' # <<>> /\ error' = e /\ Now' = 12
    BY <1>8, OnFail
  <2>2. Typed'
    BY <1>5, <2>1 DEF IInv, Typed
  <2>3. Failed' /\ Thrown' /\ Caused' /\ Kept'
    BY <1>2, <1>8, <2>1, ErrorTypes DEF Failed, Thrown, Caused, Kept
  <2>4. Missed' /\ Same'
    BY <1>3, <1>4, <1>6, <1>8, <2>1 DEF Missed, Same, Accepted
  <2>5. Written' /\ Created' /\ Verified' /\ Validated'
    BY <1>2, <1>8, <2>1 DEF Written, Created, Verified, Validated
  <2> QED
    BY <1>2, <2>1, <2>2, <2>3, <2>4, <2>5 DEF IInv, Facts, Told
<1> QED
  <2>1. Plain \in Errors \ {NoError} /\ Api(404) \in Errors \ {NoError}
    BY ErrorTypes
  <2> QED
    BY <1>7, <1>8, <2>1

(* What an extension throws, and nothing else, sets thrown.                 *)
LEMMA ThrowStep ==
  ASSUME IInv, NEW s \in Stages \ {"reply"}, At(s), Rank[s] > 5, NEW b \in Behaviour, Throw(b),
         UNCHANGED <<input, committed, status, fault>>
  PROVE  IInv'
<1>1. /\ ErrorOf(b) \in Errors \ {NoError}
      /\ b.does = "throws" => b.status \in Statuses /\ ErrorOf(b) = Api(b.status)
      /\ ErrorOf(b).kind = "api" => b.does = "throws" /\ ErrorOf(b).status = b.status
  BY ErrorTypes DEF Behaviour, Throw, Returns, ErrorOf
<1>2. thrown' = {t \in {b.status} : b.does = "throws"} /\ Fail(ErrorOf(b))
  BY DEF Throw
<1>3. /\ thrown' \subseteq Statuses /\ \A t \in thrown' : ErrorOf(b) = Api(t)
      /\ ErrorOf(b).kind = "api" => ErrorOf(b).status \in thrown'
  BY <1>1, <1>2
<1>4. fault \in BOOLEAN
  BY DEF IInv, Typed
<1> QED
  BY <1>1, <1>2, <1>3, <1>4, FailsWith

(* Where the controller itself gives up.                                    *)
LEMMA GivesUp ==
  ASSUME IInv, NEW s \in Stages \ {"reply"}, At(s), Rank[s] > 5,
         NEW e \in {Plain, Api(400)}, Fail(e),
         UNCHANGED <<input, committed, status, thrown, fault>>
  PROVE  IInv'
<1>1. e \in Errors \ {NoError} /\ (e.kind = "api" => e.status = 400)
  BY ErrorTypes
<1>2. thrown = {} /\ fault \in BOOLEAN
  BY Before DEF IInv, Typed
<1> QED
  BY <1>1, <1>2, FailsWith

LEMMA BehavioursOf ==
  ASSUME IInv
  PROVE  /\ checked.define \in Behaviour /\ used.find \in Behaviour
         /\ used.method \in Behaviour
  BY DEF IInv, Typed, Extension

LEMMA DefineStep == IInv /\ GetParameterDefinitions => IInv'
<1> SUFFICES ASSUME IInv, GetParameterDefinitions PROVE IInv'
  OBVIOUS
<1> USE DEF GetParameterDefinitions
<1>1. Rank["define"] > 5
  BY Ranks
<1>2. CASE Throw(checked.define)
  BY <1>1, <1>2, ThrowStep, BehavioursOf
<1>3. CASE Fail(Plain) /\ UNCHANGED thrown
  BY <1>1, <1>3, GivesUp
<1>4. CASE Proceed /\ UNCHANGED thrown
  BY <1>4, Succeeds
<1> QED
  BY <1>2, <1>3, <1>4

(* The validator lets pass only what the definitions accept.                *)
LEMMA Least ==
  ASSUME NEW n \in Nat, NEW T, T \subseteq 1..n, T # {}
  PROVE  \E i \in T : \A j \in T : i <= j
<1> DEFINE Up(i) == 1..i
           U == {Up(i) : i \in T}
<1>1. U \subseteq FiniteSubsetsOf(1..n) /\ U # {}
  <2>1. \A i \in T : Up(i) \in FiniteSubsetsOf(1..n)
    BY FS_Interval DEF FiniteSubsetsOf
  <2> QED
    BY <2>1
<1>2. PICK x \in U : \A y \in U : ~(<<y, x>> \in StrictSubsetOrdering(1..n))
  <2> HIDE DEF U
  <2> QED
    BY <1>1, FS_StrictSubsetOrderingWellFounded, WFMin
<1>3. PICK i \in T : x = Up(i)
  OBVIOUS
<1>4. ASSUME NEW j \in T, j < i PROVE FALSE
  <2>1. Up(j) \in U /\ Up(j) \in SUBSET (1..n) /\ x \in SUBSET (1..n)
    BY <1>3
  <2>2. Up(j) \subseteq x /\ Up(j) # x
    BY <1>3, <1>4
  <2> QED
    BY <1>2, <2>1, <2>2 DEF StrictSubsetOrdering
<1> QED
  BY <1>4

LEMMA FirstValue ==
  ASSUME NEW params \in Seq(ParameterValue), NEW id
  PROVE  Given(params, id) =
           IF FindParamValue(params, id) = Empty THEN {} ELSE {FindParamValue(params, id)}
<1> DEFINE found == {i \in DOMAIN params : params[i].name = id}
           first == CHOOSE i \in found : \A j \in found : i <= j
<1>1. /\ Len(params) \in Nat /\ DOMAIN params = 1..Len(params)
      /\ \A i \in DOMAIN params : params[i] \in ParameterValue
  OBVIOUS
<1>2. CASE found = {}
  <2>1. Given(params, id) = {}
    BY <1>2 DEF Given
  <2> QED
    BY <1>2, <2>1 DEF FindParamValue
<1>3. CASE found # {}
  <2>1. first \in found /\ \A j \in found : first <= j
    BY <1>1, <1>3, Least
  <2>2. FindParamValue(params, id) = params[first].value
    BY <1>3 DEF FindParamValue
  <2> HIDE DEF first
  <2>3. \A v \in Values : v \in Given(params, id) => v = params[first].value
    <3> SUFFICES ASSUME NEW v \in Values, NEW i \in DOMAIN params,
                        params[i] = [name |-> id, value |-> v],
                        \A j \in 1..(i - 1) : params[j].name # id
                 PROVE  v = params[first].value
      BY DEF Given
    <3>1. i \in found /\ first <= i
      BY <2>1
    <3>2. ~(first < i)
      BY <2>1, <1>1
    <3>3. i = first
      BY <3>1, <3>2, <1>1, <2>1
    <3> QED
      BY <3>3
  <2>4. params[first].value \in Values => params[first].value \in Given(params, id)
    <3>1. params[first] = [name |-> id, value |-> params[first].value]
      BY <1>1, <2>1 DEF ParameterValue
    <3>2. \A j \in 1..(first - 1) : params[j].name # id
      BY <1>1, <2>1
    <3> QED
      BY <2>1, <3>1, <3>2 DEF Given
  <2>5. params[first].value \in Values \cup {Empty}
    BY <1>1, <2>1 DEF ParameterValue
  <2>6. Given(params, id) \subseteq Values
    BY DEF Given
  <2> QED
    BY <2>2, <2>3, <2>4, <2>5, <2>6, ParameterAssumption
<1> QED
  BY <1>2, <1>3

LEMMA ValidIsAcceptable ==
  ASSUME NEW definitions \in SUBSET Definition, NEW params \in Seq(ParameterValue),
         ValidateParameters(definitions, params) = "valid"
  PROVE  Acceptable(definitions, params)
<1>1. ASSUME NEW def \in definitions
      PROVE  ValidateParameter(def, FindParamValue(params, def.id)) = "valid"
  <2>1. ValidateParameter(def, FindParamValue(params, def.id)) \in {"valid", "invalid", "failed"}
    BY DEF ValidateParameter, Definition
  <2> QED
    BY <2>1 DEF ValidateParameters
<1>2. ASSUME NEW def \in definitions
      PROVE  /\ Given(params, def.id) \subseteq def.allowed
             /\ def.required => Given(params, def.id) # {}
  BY <1>1, FirstValue DEF ValidateParameter, Definition
<1> QED
  BY <1>2 DEF Acceptable

LEMMA ValidateStep == IInv /\ Validate => IInv'
<1> SUFFICES ASSUME IInv, Validate PROVE IInv'
  OBVIOUS
<1> DEFINE verdict == ValidateParameters(DefinitionsOf(checked), request.values)
<1>1. Rank["validate"] > 5
  BY Ranks
<1>2. CASE verdict = "failed" /\ Fail(Plain)
  BY <1>1, <1>2, GivesUp DEF Validate
<1>3. CASE verdict = "invalid" /\ Fail(Api(400))
  BY <1>1, <1>3, GivesUp DEF Validate
<1>4. CASE verdict = "valid" /\ Proceed
  <2>1. DefinitionsOf(checked) \in SUBSET Definition /\ request.values \in Seq(ParameterValue)
    BY DEF IInv, Typed, Request, Extension, DefinitionsOf
  <2>2. Acceptable(DefinitionsOf(checked), request.values)
    BY <1>4, <2>1, ValidIsAcceptable
  <2> QED
    BY <1>4, <2>2, Succeeds DEF Validate
<1> QED
  BY <1>2, <1>3, <1>4 DEF Validate

LEMMA VerifyStep == IInv /\ VerifyNoInstances => IInv'
<1> SUFFICES ASSUME IInv, VerifyNoInstances PROVE IInv'
  OBVIOUS
<1> USE DEF VerifyNoInstances
<1>1. Rank["verify"] > 5
  BY Ranks
<1>2. CASE Throw(used.find)
  BY <1>1, <1>2, ThrowStep, BehavioursOf
<1>3. CASE Fail(Api(400)) /\ UNCHANGED thrown
  BY <1>1, <1>3, GivesUp
<1>4. CASE /\ Proceed /\ UNCHANGED thrown
           /\ ~SupportsListInstances \/ (Returns(used.find) /\ ~used.instances)
  BY <1>4, Succeeds DEF SupportsListInstances
<1> QED
  BY <1>2, <1>3, <1>4

LEMMA CallStep == IInv /\ CallMethod => IInv'
<1> SUFFICES ASSUME IInv, CallMethod PROVE IInv'
  OBVIOUS
<1> USE DEF CallMethod
<1>1. Rank["call"] > 5
  BY Ranks
<1>2. CASE Throw(Called)
  BY <1>1, <1>2, ThrowStep, BehavioursOf DEF Called
<1>3. CASE Fail(Plain) /\ UNCHANGED thrown
  BY <1>1, <1>3, GivesUp
<1>4. CASE /\ Proceed /\ UNCHANGED thrown
           /\ ~(request.route = "createInstance" /\ Called.does = "returnsNull")
  BY <1>4, Succeeds DEF Called
<1> QED
  BY <1>2, <1>3, <1>4

(* Only now is a change committed, after all that had to be looked for.     *)
LEMMA CommitStep == IInv /\ Commit => IInv'
<1> SUFFICES ASSUME IInv, Commit PROVE IInv'
  OBVIOUS
<1> USE DEF Commit, input
<1>1. /\ error = NoError /\ thrown = {} /\ committed = FALSE /\ status = 0
      /\ Now = Rank["commit"] /\ Now = 11 /\ fault \in BOOLEAN
  BY Before, Ranks DEF IInv, Typed
<1>2. /\ \E n \in Nat : Suffix(n)'
      /\ todo' # <<>> /\ Now' \in 1..12 /\ Now' >= 12
      /\ (error' = NoError /\ fault' = fault) \/ (error' = Plain /\ fault' = TRUE)
  <2>1. CASE Proceed /\ UNCHANGED fault
    <3>1. /\ \E n \in Nat : Suffix(n)'
          /\ todo' # <<>> /\ error' = NoError /\ Now' > Rank["commit"] /\ Now' \in 1..12
      BY <2>1, OnProceed
    <3>2. Now' >= 12
      BY <1>1, <3>1
    <3> QED
      BY <2>1, <3>1, <3>2
  <2>2. CASE Fail(Plain) /\ fault' = TRUE
    <3>1. (\E n \in Nat : Suffix(n)') /\ todo' # <<>> /\ error' = Plain /\ Now' = 12
      BY <2>2, OnFail
    <3> QED
      BY <2>2, <3>1
  <2> QED
    BY <2>1, <2>2
<1>3. Typed'
  BY <1>1, <1>2, ErrorTypes DEF IInv, Typed
<1>4. Failed' /\ Thrown' /\ Caused' /\ Kept' /\ Written'
  BY <1>1, <1>2, ErrorTypes DEF Failed, Thrown, Caused, Kept, Written
<1>5. Missed' /\ Same'
  BY <1>1, <1>2, ErrorTypes DEF IInv, Facts, Missed, Same, Accepted, Api, NoError
<1>6. Created' /\ Verified' /\ Validated'
  BY <1>1, <1>2 DEF IInv, Facts, Created, Verified, Validated, Returns
<1> QED
  BY <1>1, <1>2, <1>3, <1>4, <1>5, <1>6 DEF IInv, Facts, Told

LEMMA FaultStep == IInv /\ Fault => IInv'
<1> SUFFICES ASSUME IInv, Fault PROVE IInv'
  OBVIOUS
<1> USE DEF Fault
<1>1. PICK n \in Nat : Suffix(n)
  BY DEF IInv
<1>2. Head(todo) \in Stages \ {"reply"} /\ At(Head(todo))
  BY <1>1, Position, RouteOf DEF IInv, At
<1>3. thrown = {}
  BY <1>2, Before
<1> QED
  BY <1>2, <1>3, ErrorTypes, FailsWith

LEMMA ReplyStep == IInv /\ Reply => IInv'
<1> SUFFICES ASSUME IInv, Reply PROVE IInv'
  OBVIOUS
<1> USE DEF Reply, input
<1>1. PICK n \in Nat : Suffix(n)
  BY DEF IInv
<1>2. Now = 12
  BY <1>1, Position, RouteOf DEF IInv, At
<1>3. Now' = 13
  BY DEF Now
<1>4. \E m \in Nat : Suffix(m)'
  <2> DEFINE p == Path(request.route)
  <2>1. p \in Seq(Stages) /\ Len(p) \in Nat
    BY RouteOf, GoodPaths DEF IInv, Good
  <2> HIDE DEF p
  <2>2. SubSeq(p, Len(p) + 1, Len(p)) = <<>>
    BY <2>1, SubSeqEmpty
  <2> QED
    BY <2>1, <2>2 DEF Suffix, p
<1>5. Typed'
  BY DEF IInv, Typed
<1>6. Facts'
  BY <1>2, <1>3
     DEF IInv, Facts, Failed, Thrown, Caused, Missed, Written, Kept, Created, Verified,
         Validated, Same, Accepted, Returns
<1>7. Told'
  BY DEF Told, HandlerPanics
<1> QED
  BY <1>4, <1>5, <1>6, <1>7 DEF IInv

LEMMA AllAhead ==
  ASSUME NEW p, NEW route, Good(p, route), NEW n \in 0..Len(p),
         NEW i \in DOMAIN SubSeq(p, n + 1, Len(p))
  PROVE  /\ SubSeq(p, n + 1, Len(p)) # <<>> /\ n + 1 \in 1..Len(p)
         /\ Rank[p[n + 1]] <= Rank[SubSeq(p, n + 1, Len(p))[i]]
<1> DEFINE rest == SubSeq(p, n + 1, Len(p))
<1>1. p \in Seq(Stages) /\ Len(p) \in Nat
  BY DEF Good
<1> HIDE DEF Stages
<1>2. \A j \in 1..Len(p) : p[j] \in Stages /\ Rank[p[j]] \in Int
  BY <1>1, RankIsNumber
<1>3. \A j, k \in 1..Len(p) : j < k => Rank[p[j]] < Rank[p[k]]
  BY DEF Good
<1>4. rest \in Seq(Stages) /\ Len(rest) = Len(p) - n /\ i \in 1..Len(rest) /\ rest[i] = p[n + i]
  BY <1>1, <1>2
<1> HIDE DEF rest
<1>5. rest # <<>>
  <2>1. Len(rest) # 0
    BY <1>1, <1>4
  <2> QED
    BY <2>1, <1>4, EmptySeq
<1>6. n + i \in 1..Len(p) /\ n + 1 \in 1..Len(p) /\ (n + 1 = n + i \/ n + 1 < n + i)
  BY <1>1, <1>4
<1>7. Rank[p[n + 1]] <= Rank[p[n + i]]
  <2>1. Rank[p[n + 1]] \in Int /\ Rank[p[n + i]] \in Int
    BY <1>2, <1>6
  <2>2. CASE n + 1 = n + i
    BY <2>1, <2>2
  <2>3. CASE n + 1 < n + i
    <3>1. Rank[p[n + 1]] < Rank[p[n + i]]
      BY <1>3, <1>6, <2>3
    <3> QED
      BY <2>1, <3>1
  <2> QED
    BY <1>6, <2>2, <2>3
<1> QED
  BY <1>4, <1>5, <1>6, <1>7 DEF rest

(* A definition that is replaced once it was loaded to be called is found    *)
(* only by the second loading.                                              *)
LEMMA ReplaceStep == IInv /\ ReplaceDefinition => IInv'
<1> SUFFICES ASSUME IInv, ReplaceDefinition PROVE IInv'
  OBVIOUS
<1> USE DEF ReplaceDefinition
<1>1. PICK n \in Nat : Suffix(n)
  BY DEF IInv
<1>2. request.route \in Routes
  BY RouteOf DEF IInv
<1>3. Now' = Now /\ (\E m \in Nat : Suffix(m)') /\ Told'
  <2>1. Now' = Now
    BY DEF Now
  <2>2. Suffix(n)'
    BY <1>1 DEF Suffix
  <2>3. HandlerPanics' <=> HandlerPanics
    BY DEF HandlerPanics
  <2>4. Told'
    BY <2>3 DEF IInv, Told
  <2> QED
    BY <2>1, <2>2, <2>4
<1>4. ASSUME NEW i \in DOMAIN todo, todo[i] = "load" PROVE Now <= 5
  <2>1. /\ todo # <<>> /\ n + 1 \in 1..Len(Path(request.route))
        /\ Rank[Path(request.route)[n + 1]] <= Rank["load"]
    BY <1>1, <1>2, <1>4, GoodPaths, AllAhead DEF Suffix
  <2> QED
    BY <1>1, <1>2, <2>1, Position, Ranks
<1>5. Typed'
  BY RepliesAssumption DEF IInv, Typed
<1>6. Same'
  <2>1. used = checked
    BY DEF IInv, Facts, Same
  <2>2. CASE \E i \in DOMAIN todo : todo[i] = "load"
    <3>1. Now <= 5 /\ Now \in 1..13
      BY <1>1, <1>2, <1>4, <2>2, Position
    <3>2. ~(Now > 5)
      BY <3>1
    <3> QED
      BY <1>3, <2>1, <3>2 DEF Same
  <2>3. CASE ~\E i \in DOMAIN todo : todo[i] = "load"
    BY <2>3 DEF Same
  <2> QED
    BY <2>2, <2>3
<1>7. Facts'
  BY <1>3, <1>6
     DEF IInv, Facts, Failed, Thrown, Caused, Missed, Written, Kept, Created, Verified,
         Validated, Accepted, Returns
<1> QED
  BY <1>3, <1>5, <1>7 DEF IInv

LEMMA Stutters == IInv /\ UNCHANGED vars => IInv'
<1> SUFFICES ASSUME IInv, UNCHANGED vars PROVE IInv'
  OBVIOUS
<1> USE DEF vars, input
<1>1. Now' = Now /\ (\E n \in Nat : Suffix(n)')
  BY DEF IInv, Now, Suffix
<1>2. Typed' /\ Told'
  <2>1. HandlerPanics' <=> HandlerPanics
    BY DEF HandlerPanics
  <2> QED
    BY <2>1 DEF IInv, Typed, Told
<1>3. Facts'
  BY <1>1
     DEF IInv, Facts, Failed, Thrown, Caused, Missed, Written, Kept, Created, Verified,
         Validated, Same, Accepted, Returns
<1> QED
  BY <1>1, <1>2, <1>3 DEF IInv

LEMMA Preserved == IInv /\ [Next]_vars => IInv'
  BY OpenStep, DecodeStep, UseDatabaseStep, LoadStep, DefineStep, ValidateStep, VerifyStep,
     CallStep, CommitStep, FaultStep, ReplyStep, ReplaceStep, Stutters
     DEF Next

LEMMA Invariance == Spec => []IInv
  BY Initially, Preserved, PTL DEF Spec

----------------------------------------------------------------------------
(* A request has its type, and what is left of it is an end of its route,   *)
(* whatever extensions throw.                                               *)
THEOREM ReplyTypes == Spec => []TypeOK
<1>1. IInv => TypeOK
  <2> SUFFICES ASSUME IInv PROVE TypeOK
    OBVIOUS
  <2>1. PICK n \in Nat : Suffix(n)
    BY DEF IInv
  <2>2. status \in {0} \cup Sendable
    <3>1. \A c \in {200, 204, 500, 504} : c \in Sendable
      BY DEF Sendable
    <3>2. Success(request.route) \in {200, 204}
      BY DEF Success
    <3>3. Sent(error.status) \in Sendable
      BY <3>1 DEF Sent
    <3>4. status \in {0, 200, 204, 500, 504} \/ status = Sent(error.status)
      BY <3>2 DEF IInv, Told
    <3> QED
      BY <3>1, <3>3, <3>4
  <2> QED
    BY <2>1, <2>2 DEF IInv, Typed, TypeOK, Suffix, Errors
<1> QED
  BY <1>1, Invariance, PTL

(* What is known of the answer once there is one.                           *)
LEMMA AtTheEnd == IInv /\ Answered => Now = 13
  BY DEF Answered, Now

(* Every layer of the controller wraps errors so that UnwrapAPIError finds   *)
(* the status of the registry or of the extension.                          *)
THEOREM StatusesAreTold == Spec => []StatusIsTold
<1>1. IInv => StatusIsTold
  <2> SUFFICES ASSUME IInv, Answered PROVE StatusIsTold
    BY DEF StatusIsTold
  <2>1. ASSUME NEW s \in Sendable, error = Api(s) PROVE status = s
    BY <2>1 DEF IInv, Told, Answered, HandlerPanics, Api, Sent
  <2>2. Accepted /\ ~fault /\ ~(used.found /\ checked.found) => error = Api(404)
    BY AtTheEnd DEF IInv, Facts, Missed
  <2>3. \A s \in thrown : error = Api(s)
    BY DEF IInv, Facts, Thrown
  <2>4. 404 \in Sendable
    BY DEF Sendable
  <2> QED
    BY <2>1, <2>2, <2>3, <2>4 DEF StatusIsTold
<1> QED
  BY <1>1, Invariance, PTL

(* The transaction controller commits before it returns, so that a success   *)
(* and what the database holds agree.                                       *)
THEOREM CommitsAreTold == Spec => []CommitIsTold
<1>1. IInv => CommitIsTold
  <2> SUFFICES ASSUME IInv, Answered, request.route \in Writing PROVE CommitIsTold
    BY DEF CommitIsTold
  <2>1. error.kind = "none" => error = NoError
    BY ErrorTypes DEF IInv, Typed
  <2>2. ASSUME status \in Successful PROVE committed <=> ~ThrowsSuccess
    <3>1. CASE error.kind = "none"
      <4>1. committed
        BY <2>1, <3>1, AtTheEnd DEF IInv, Facts, Written
      <4>2. thrown = {}
        BY <3>1 DEF IInv, Facts, Thrown, Api
      <4> QED BY <4>1, <4>2 DEF ThrowsSuccess
    <3>2. CASE error.kind = "api"
      <4>1. ~committed
        BY <3>2 DEF IInv, Facts, Kept
      <4>2. status = Sent(error.status)
        BY <3>2 DEF IInv, Told, Answered, HandlerPanics
      <4>3. \A s \in {400, 401, 404} : Sent(s) \notin Successful
        BY DEF Sent, Sendable, Successful
      <4>4. error.status \in thrown
        BY <2>2, <3>2, <4>2, <4>3 DEF IInv, Facts, Caused
      <4> QED BY <2>2, <4>1, <4>2, <4>4 DEF ThrowsSuccess
    <3>3. 500 \notin Successful /\ 504 \notin Successful
      BY DEF Successful
    <3> QED
      BY <2>2, <3>1, <3>2, <3>3 DEF IInv, Told, Answered
  <2>3. ASSUME committed, ~fault
        PROVE  \/ status = Success(request.route)
               \/ request.route = "upgrade" /\ used.method.does = "returnsNull"
    <3>1. error = NoError /\ error.kind = "none"
      BY <2>3, ErrorTypes DEF IInv, Facts, Kept
    <3>2. request.route = "createInstance" => used.method.does # "returnsNull"
      BY <3>1, AtTheEnd DEF IInv, Facts, Created
    <3> QED
      BY <3>1, <3>2 DEF IInv, Told, Answered, HandlerPanics
  <2> QED
    BY <2>2, <2>3 DEF CommitIsTold
<1> QED
  BY <1>1, Invariance, PTL

(* CreateInstance validates before addInstance, with the definitions of the *)
(* extension it loads a second time; the validator lets nothing else pass.  *)
THEOREM InstancesAreAcceptable == Spec => []OnlyAcceptableInstances
<1>1. IInv => OnlyAcceptableInstances
  BY DEF IInv, Facts, Validated, Same, OnlyAcceptableInstances
<1> QED
  BY <1>1, Invariance, PTL

(* UninstallExtension looks for instances before it calls uninstall.        *)
THEOREM UninstallsAreChecked == Spec => []UninstallIsChecked
<1>1. IInv => UninstallIsChecked
  BY DEF IInv, Facts, Verified, UninstallIsChecked
<1> QED
  BY <1>1, Invariance, PTL

----------------------------------------------------------------------------
(* A definition that makes the validator fail is met: there is a value for  *)
(* it, so that it is looked into.                                           *)
Undecided(definitions, params) ==
  \E def \in definitions : def.broken /\ Given(params, def.id) # {}

(* The verdict on one definition in terms of the value that is given.       *)
LEMMA VerdictOnOne ==
  ASSUME NEW def \in Definition, NEW value, NEW given,
         given = IF value = Empty THEN {} ELSE {value}
  PROVE  /\ ValidateParameter(def, value) \in {"valid", "invalid", "failed"}
         /\ ValidateParameter(def, value) = "failed" <=> def.broken /\ given # {}
         /\ ValidateParameter(def, value) = "invalid" <=>
              /\ ~(def.broken /\ given # {})
              /\ ~(given \subseteq def.allowed /\ (def.required => given # {}))
<1>1. def.broken \in BOOLEAN /\ def.required \in BOOLEAN
  BY DEF Definition
<1>2. CASE value = Empty
  BY <1>1, <1>2 DEF ValidateParameter
<1>3. CASE value # Empty
  BY <1>1, <1>3 DEF ValidateParameter
<1> QED BY <1>2, <1>3

(* The validator is exact: it fails only when it has to look into a         *)
(* definition that is broken, and otherwise finds fault with the values if  *)
(* and only if the definitions do not accept them, for any definitions and  *)
(* any values, values given twice included.                                 *)
THEOREM ValidatorIsExact ==
  ASSUME NEW definitions \in SUBSET Definition, NEW params \in Seq(ParameterValue)
  PROVE  LET verdict == ValidateParameters(definitions, params) IN
         /\ verdict = "failed" <=> Undecided(definitions, params)
         /\ verdict = "invalid" <=> /\ ~Undecided(definitions, params)
                                    /\ ~Acceptable(definitions, params)
         /\ verdict = "valid" <=> /\ ~Undecided(definitions, params)
                                  /\ Acceptable(definitions, params)
<1> DEFINE Verdict(def) == ValidateParameter(def, FindParamValue(params, def.id))
           Good1(def) == /\ Given(params, def.id) \subseteq def.allowed
                         /\ def.required => Given(params, def.id) # {}
           verdicts == {Verdict(def) : def \in definitions}
<1>1. ASSUME NEW def \in definitions
      PROVE  /\ Verdict(def) \in {"valid", "invalid", "failed"}
             /\ Verdict(def) = "failed" <=> def.broken /\ Given(params, def.id) # {}
             /\ Verdict(def) = "invalid" <=> /\ ~(def.broken /\ Given(params, def.id) # {})
                                             /\ ~Good1(def)
  BY VerdictOnOne, FirstValue
<1>2. Acceptable(definitions, params) <=> \A def \in definitions : Good1(def)
  BY DEF Acceptable
<1>3. ValidateParameters(definitions, params) =
        CASE "failed" \in verdicts                               -> "failed"
          [] "failed" \notin verdicts /\ "invalid" \in verdicts  -> "invalid"
          [] verdicts \subseteq {"valid"}                        -> "valid"
  BY DEF ValidateParameters
<1> HIDE DEF Good1, Verdict
<1>4. "failed" \in verdicts <=> Undecided(definitions, params)
  BY <1>1 DEF Undecided
<1>5. ~Undecided(definitions, params) =>
        ("invalid" \in verdicts <=> ~Acceptable(definitions, params))
  BY <1>1, <1>2 DEF Undecided
<1>6. verdicts \subseteq {"valid", "invalid", "failed"}
  BY <1>1
<1> HIDE DEF verdicts
<1>7. verdicts \subseteq {"valid"} <=> "failed" \notin verdicts /\ "invalid" \notin verdicts
  BY <1>6
<1> QED BY <1>3, <1>4, <1>5, <1>7

----------------------------------------------------------------------------
(* Why a request may be answered with a status: an extension has thrown it, *)
(* or the request or what it asks for is as the status says.                *)
Cause(s) ==
  \/ s \in thrown
  \/ s = 401 /\ ~request.authorized
  \/ s = 404 /\ ~(used.found /\ checked.found)
  \/ /\ s = 400
     /\ \/ request.authorized /\ ~request.address
        \/ /\ request.route = "createInstance"
           /\ ~request.body \/ ~Acceptable(DefinitionsOf(checked), request.values)
        \/ request.route = "uninstall" /\ Returns(used.find) /\ used.instances

Causes ==
  /\ committed => error.kind \in {"none", "plain"}
  /\ error.kind = "api" => Cause(error.status)

(* A stage that fails must have a cause for the status it fails with.       *)
LEMMA FailsWithCause ==
  ASSUME IInv, NEW s \in Stages \ {"reply"}, At(s), NEW e, Fail(e),
         committed' = committed, e.kind = "api" => Cause(e.status)'
  PROVE  Causes'
<1>1. committed = FALSE
  BY Before
<1> QED BY <1>1 DEF Fail, Causes

(* A stage that succeeds leaves no error.                                   *)
LEMMA ProceedsWithoutCause ==
  ASSUME IInv, NEW s \in Stages \ {"reply"}, At(s), Proceed
  PROVE  Causes'
<1>1. error' = NoError
  BY Before DEF Proceed
<1> QED BY <1>1, ErrorTypes DEF Causes

(* What an extension throws is its own cause.                               *)
LEMMA ThrowsWithCause ==
  ASSUME IInv, NEW s \in Stages \ {"reply"}, At(s), NEW b \in Behaviour, Throw(b),
         committed' = committed
  PROVE  Causes'
<1>1. ErrorOf(b).kind = "api" => b.does = "throws" /\ ErrorOf(b).status = b.status
  BY DEF ErrorOf, Plain, Panic, Api
<1>2. ErrorOf(b).kind = "api" => Cause(ErrorOf(b).status)'
  BY <1>1 DEF Throw, Cause
<1> QED BY <1>2, FailsWithCause DEF Throw

(* The stages that refuse a request have looked at what they blame.         *)
LEMMA RefusesWithCause ==
  ASSUME IInv, OpenDatabase \/ DecodeJSONBody \/ LoadExtension \/ Validate
  PROVE  Causes'
<1> USE DEF input
<1>1. /\ \A c \in {400, 401, 404} : Api(c).kind = "api" /\ Api(c).status = c
      /\ Plain.kind # "api"
  BY ErrorTypes
<1>2. CASE OpenDatabase
  <2>1. ASSUME NEW c \in {400, 401}, Fail(Api(c)),
               c = 401 => ~request.authorized,
               c = 400 => request.authorized /\ ~request.address
        PROVE  Causes'
    <3>1. Cause(Api(c).status)'
      BY <1>1, <1>2, <2>1 DEF OpenDatabase, Cause
    <3> QED BY <1>2, <2>1, <3>1, FailsWithCause DEF OpenDatabase
  <2>2. CASE Proceed
    BY <1>2, <2>2, ProceedsWithoutCause DEF OpenDatabase
  <2> QED BY <1>2, <2>1, <2>2 DEF OpenDatabase
<1>3. CASE DecodeJSONBody
  <2>1. CASE ~request.body /\ Fail(Api(400))
    <3>1. request.route = "createInstance"
      BY <1>3, Before DEF DecodeJSONBody, Belongs
    <3>2. Cause(Api(400).status)'
      BY <1>1, <1>3, <2>1, <3>1 DEF DecodeJSONBody, Cause
    <3> QED BY <1>3, <2>1, <3>2, FailsWithCause DEF DecodeJSONBody
  <2>2. CASE Proceed
    BY <1>3, <2>2, ProceedsWithoutCause DEF DecodeJSONBody
  <2> QED BY <1>3, <2>1, <2>2 DEF DecodeJSONBody
<1>4. CASE LoadExtension
  <2>1. PICK s \in {"load", "reload"} : At(s) /\ s \in Stages \ {"reply"}
    BY <1>4 DEF LoadExtension, Load
  <2>2. CASE Proceed
    BY <2>1, <2>2, ProceedsWithoutCause
  <2>3. ASSUME Fail(IF extension.found THEN Plain ELSE Api(404)) PROVE Causes'
    <3>1. ~extension.found => Cause(404)'
      BY <1>4 DEF LoadExtension, Load, Cause
    <3>2. committed' = committed
      BY <1>4 DEF LoadExtension, Load
    <3> QED BY <1>1, <2>1, <2>3, <3>1, <3>2, FailsWithCause
  <2> QED BY <1>4, <2>2, <2>3 DEF LoadExtension, Load
<1>5. CASE Validate
  <2> DEFINE verdict == ValidateParameters(DefinitionsOf(checked), request.values)
  <2>1. At("validate") /\ "validate" \in Stages \ {"reply"} /\ committed' = committed
    BY <1>5 DEF Validate
  <2>2. CASE verdict = "failed" /\ Fail(Plain)
    BY <1>1, <2>1, <2>2, FailsWithCause
  <2>3. CASE verdict = "invalid" /\ Fail(Api(400))
    <3>1. DefinitionsOf(checked) \in SUBSET Definition /\ request.values \in Seq(ParameterValue)
      BY DEF IInv, Typed, Request, Extension, DefinitionsOf
    <3>2. ~Acceptable(DefinitionsOf(checked), request.values)
      BY <2>3, <3>1, ValidatorIsExact
    <3>3. request.route = "createInstance"
      BY <2>1, Before DEF Belongs
    <3>4. checked' = checked /\ request' = request
      BY <1>5 DEF Validate
    <3>5. Cause(Api(400).status)'
      BY <1>1, <3>2, <3>3, <3>4 DEF Cause, DefinitionsOf
    <3> QED BY <2>1, <2>3, <3>5, FailsWithCause
  <2>4. CASE verdict = "valid" /\ Proceed
    BY <2>1, <2>4, ProceedsWithoutCause
  <2> QED BY <1>5, <2>2, <2>3, <2>4 DEF Validate
<1> QED BY <1>2, <1>3, <1>4, <1>5

(* What the extension's functions and the database do.                      *)
LEMMA CallsWithCause ==
  ASSUME IInv,
         \/ UseDatabase \/ GetParameterDefinitions \/ VerifyNoInstances \/ CallMethod
         \/ Commit \/ Fault
  PROVE  Causes'
<1> USE DEF input
<1>1. Plain.kind = "plain" /\ Api(400).kind = "api" /\ Api(400).status = 400
  BY ErrorTypes
<1>2. CASE UseDatabase
  BY <1>2, ProceedsWithoutCause DEF UseDatabase
<1>3. CASE GetParameterDefinitions
  <2>1. At("define") /\ "define" \in Stages \ {"reply"} /\ committed' = committed
    BY <1>3 DEF GetParameterDefinitions
  <2>2. Throw(checked.define) \/ Proceed \/ Fail(Plain)
    BY <1>3 DEF GetParameterDefinitions
  <2> QED
    BY <1>1, <2>1, <2>2, BehavioursOf, ThrowsWithCause, ProceedsWithoutCause, FailsWithCause
<1>4. CASE VerifyNoInstances
  <2>1. At("verify") /\ "verify" \in Stages \ {"reply"} /\ committed' = committed
    BY <1>4 DEF VerifyNoInstances
  <2>2. ASSUME Returns(used.find), used.instances, Fail(Api(400)) PROVE Causes'
    <3>1. request.route = "uninstall"
      BY <2>1, Before DEF Belongs
    <3>2. used' = used /\ request' = request
      BY <1>4 DEF VerifyNoInstances
    <3>3. Cause(Api(400).status)'
      BY <1>1, <2>2, <3>1, <3>2 DEF Cause, Returns
    <3> QED BY <2>1, <2>2, <3>3, FailsWithCause
  <2>3. \/ Throw(used.find) \/ Proceed
        \/ Returns(used.find) /\ used.instances /\ Fail(Api(400))
    BY <1>4 DEF VerifyNoInstances
  <2> QED BY <2>1, <2>2, <2>3, BehavioursOf, ThrowsWithCause, ProceedsWithoutCause
<1>5. CASE CallMethod
  <2>1. At("call") /\ "call" \in Stages \ {"reply"} /\ committed' = committed
    BY <1>5 DEF CallMethod
  <2>2. Throw(Called) \/ Proceed \/ Fail(Plain)
    BY <1>5 DEF CallMethod
  <2>3. Called \in Behaviour
    BY BehavioursOf DEF Called
  <2> QED
    BY <1>1, <2>1, <2>2, <2>3, ThrowsWithCause, ProceedsWithoutCause, FailsWithCause
<1>6. CASE Commit
  <2>1. At("commit") /\ "commit" \in Stages \ {"reply"}
    BY <1>6 DEF Commit
  <2>2. CASE Proceed
    BY <2>1, <2>2, ProceedsWithoutCause
  <2>3. CASE Fail(Plain)
    BY <1>1, <2>3 DEF Fail, Causes
  <2> QED BY <1>6, <2>2, <2>3 DEF Commit
<1>7. CASE Fault
  <2>1. PICK n \in Nat : Suffix(n)
    BY DEF IInv
  <2>2. Head(todo) \in Stages \ {"reply"} /\ At(Head(todo))
    BY <1>7, <2>1, Position, RouteOf DEF IInv, At, Fault
  <2> QED BY <1>1, <1>7, <2>2, FailsWithCause DEF Fault
<1> QED BY <1>2, <1>3, <1>4, <1>5, <1>6, <1>7

LEMMA CausesNext == IInv /\ Causes /\ [Next]_vars => Causes'
<1> SUFFICES ASSUME IInv, Causes, [Next]_vars PROVE Causes'
  OBVIOUS
<1>1. CASE Reply \/ ReplaceDefinition \/ UNCHANGED vars
  <2>1. UNCHANGED <<request, used, checked, thrown, error, committed>>
    BY <1>1 DEF Reply, ReplaceDefinition, vars, input
  <2> QED BY <2>1 DEF Causes, Cause, DefinitionsOf, Returns
<1> QED BY <1>1, RefusesWithCause, CallsWithCause DEF Next

(* A client that is refused knows why and that nothing has been changed:    *)
(* any status but those of a success and of an internal error was thrown by *)
(* the extension, or is the handler's, the registry's or the validator's    *)
(* and says what is so, and nothing was committed.  What was committed is   *)
(* answered with a success, or with an internal error or a timeout.         *)
StatusHasCause ==
  Answered =>
    /\ status \notin {200, 204, 500, 504} => Cause(status) /\ ~committed
    /\ committed => status \in {Success(request.route), 500, 504}

(* The statuses of the refusals (handleError of restAPI and the handlers    *)
(* above it) mean what they say, unless the extension chose them.           *)
THEOREM RefusalsHaveCauses == Spec => []StatusHasCause
<1>1. Init => Causes
  BY ErrorTypes DEF Init, Causes
<1>2. IInv /\ Causes => StatusHasCause
  <2> SUFFICES ASSUME IInv, Causes, Answered PROVE StatusHasCause
    BY DEF StatusHasCause
  <2>1. \/ HandlerPanics /\ status \in {500, 504}
        \/ ~HandlerPanics /\ error.kind = "none" /\ status = Success(request.route)
        \/ error.kind = "plain" /\ status = 500
        \/ error.kind = "api" /\ status = Sent(error.status)
    BY DEF IInv, Told, Answered
  <2>2. Success(request.route) \in {200, 204}
    BY DEF Success
  <2>3. Sent(error.status) \in {error.status, 200}
    BY DEF Sent
  <2>4. ASSUME status \notin {200, 204, 500, 504} PROVE Cause(status) /\ ~committed
    <3>1. error.kind = "api" /\ status = error.status
      BY <2>1, <2>2, <2>3, <2>4
    <3> QED BY <3>1 DEF Causes
  <2>5. ASSUME committed PROVE status \in {Success(request.route), 500, 504}
    <3>1. error.kind # "api"
      BY <2>5 DEF Causes
    <3> QED BY <2>1, <3>1
  <2> QED BY <2>4, <2>5 DEF StatusHasCause
<1> QED BY <1>1, <1>2, Invariance, CausesNext, PTL DEF Spec
=============================================================================
