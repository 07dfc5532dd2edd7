------------------------- MODULE RestServer_proofs -------------------------
(***************************************************************************)
(* Proofs about RestServer for any number of goroutines, so for any number *)
(* of servers that were stopped and whose Serve has not returned yet, and  *)
(* for any number of requests at the same time.                            *)
(***************************************************************************)
EXTENDS RestServer, TLAPS

USE DEF vars

----------------------------------------------------------------------------
(* Until its goroutine creates the server there is none, and no other       *)
(* goroutine is about to create one.                                        *)
Early == {"check", "flag", "create"}
Starting ==
  \A g \in Goroutines : serve[g] \in Early =>
    /\ owner \in {"waiting", "ready"}
    /\ server = NoServer
    /\ ~closed[g]
    /\ \A h \in Goroutines : h # g => serve[h] \notin Early

(* Stop runs with a server, which it closes after it has set the flag.      *)
Owned ==
  /\ owner = "off" => server = NoServer
  /\ owner \in {"stop", "shutdown", "drain"} => server # NoServer
  /\ owner \in {"shutdown", "drain"} => stopped
  /\ server # NoServer => (closed[server] <=> owner = "drain")

(* A goroutine serves the server it has created.                            *)
OwnServer ==
  \A g \in Goroutines :
    /\ serve[g] = "serving" => runs[g] = g
    /\ serve[g] = "returned" => runs[g] \in Goroutines

(* Only the server of the owner's last start listens, and the owner goes on *)
(* when it does: unless another process is in the way.                      *)
Alone ==
  ~foreign =>
    /\ \A g \in Goroutines :
         /\ serve[g] = "listen" => server = g /\ owner = "waiting"
         /\ serve[g] = "serving" => closed[g] \/ server = g
    /\ owner \in {"ready", "stop", "shutdown"} =>
         server \in Goroutines /\ serve[server] = "serving" /\ ~closed[server]

Displaced == foreign => \A g \in Goroutines : ~Listening(g)

(* Only the owner's server has requests.                                    *)
Answered == \A s \in Goroutines : active[s] > 0 => server = s

(* When a goroutine of a stopped server sees the flag cleared, a goroutine  *)
(* that was started later has cleared it and has not ended.                 *)
Cleared ==
  \A g \in Goroutines :
    serve[g] \in {"serving", "returned"} /\ closed[runs[g]] /\ ~stopped =>
      \E h \in Goroutines : h # g /\ serve[h] \in {"create", "listen", "serving", "returned"}

Inner == Starting /\ Owned /\ OwnServer /\ Alone /\ Displaced /\ Answered /\ Cleared
IInv == TypeOK /\ Inner /\ NoPanicInTurn /\ OnlyRestartIsFatal

----------------------------------------------------------------------------
LEMMA Initially == Init => IInv
<1> SUFFICES ASSUME Init PROVE IInv
  OBVIOUS
<1> USE DEF Init
<1>1. TypeOK
  <2>1. /\ serve \in [Goroutines -> ServeLabels] /\ owner \in OwnerLabels /\ died \in Deaths
        /\ server \in Goroutines \cup {NoServer} /\ runs \in [Goroutines -> Goroutines \cup {NoServer}]
    BY DEF OwnerLabels, ServeLabels, Deaths
  <2>2. 0 \in 0..MaxActive
    BY RestServerAssumption
  <2>3. active \in [Goroutines -> 0..MaxActive]
    BY <2>2
  <2>4. closed \in [Goroutines -> BOOLEAN] /\ stopped \in BOOLEAN /\ foreign \in BOOLEAN
    OBVIOUS
  <2> QED
    BY <2>1, <2>3, <2>4 DEF TypeOK
<1>2. Inner
  BY DEF Inner, Starting, Owned, OwnServer, Alone, Displaced, Answered, Cleared, Early, Listening
<1>3. NoPanicInTurn /\ OnlyRestartIsFatal
  BY DEF NoPanicInTurn, OnlyRestartIsFatal
<1> QED
  BY <1>1, <1>2, <1>3 DEF IInv

(* The end of the process changes nothing else.                             *)
LEMMA DieKeeps ==
  ASSUME IInv, NEW cause \in Deaths, Die(cause)
  PROVE  TypeOK' /\ Inner'
<1>1. TypeOK'
  BY DEF Die, IInv, TypeOK
<1>2. Inner'
  BY DEF Die, IInv, Inner, Starting, Owned, OwnServer, Alone, Displaced, Answered, Cleared,
     Early, Listening
<1> QED
  BY <1>1, <1>2

(* A step that ends nothing.                                                *)
LEMMA LivesOn ==
  ASSUME died = "no", died' = died
  PROVE  NoPanicInTurn' /\ OnlyRestartIsFatal'
BY DEF NoPanicInTurn, OnlyRestartIsFatal

LEMMA StartStep ==
  ASSUME IInv, died = "no", NEW g \in Goroutines, StartInBackground(g)
  PROVE  IInv'
<1> USE DEF StartInBackground, Goto, IInv, Inner
<1>1. TypeOK'
  BY DEF TypeOK, OwnerLabels, ServeLabels
<1>2. server = NoServer /\ \A h \in Goroutines : serve[h] \notin Early
  BY DEF Owned, Starting
<1>3. /\ serve'[g] = "check" /\ ~closed'[g]
      /\ \A h \in Goroutines : h # g =>
           serve'[h] = serve[h] /\ closed'[h] = closed[h] /\ runs'[h] = runs[h]
  BY DEF TypeOK
<1>4. Starting' /\ Owned'
  BY <1>2, <1>3 DEF Starting, Owned, Early
<1>5. OwnServer'
  BY <1>3 DEF OwnServer
<1>6. Alone' /\ Displaced'
  BY <1>2, <1>3 DEF Alone, Displaced, Listening, OwnServer
<1>7. Answered'
  BY DEF Answered
<1>8. Cleared'
  <2> SUFFICES ASSUME NEW h \in Goroutines,
                      serve'[h] \in {"serving", "returned"}, closed'[runs'[h]], ~stopped
               PROVE  \E k \in Goroutines :
                        k # h /\ serve'[k] \in {"create", "listen", "serving", "returned"}
    BY DEF Cleared
  <2>1. h # g /\ serve[h] \in {"serving", "returned"} /\ runs'[h] = runs[h]
    BY <1>3
  <2>2. runs[h] \in Goroutines
    BY <2>1 DEF OwnServer
  <2>3. closed[runs[h]]
    BY <1>3, <2>1, <2>2
  <2>4. PICK k \in Goroutines : k # h /\ serve[k] \in {"create", "listen", "serving", "returned"}
    BY <2>1, <2>3 DEF Cleared
  <2>5. serve'[k] = serve[k]
    BY <1>3, <2>4
  <2> QED
    BY <2>4, <2>5
<1> QED
  BY <1>1, <1>4, <1>5, <1>6, <1>7, <1>8, LivesOn

----------------------------------------------------------------------------
(* The owner's other steps.                                                 *)
LEMMA RepliesStep == IInv /\ died = "no" /\ Replies => IInv'
<1> SUFFICES ASSUME IInv, died = "no", Replies PROVE IInv'
  OBVIOUS
<1> USE DEF Replies, IInv, Inner
<1>1. TypeOK'
  BY DEF TypeOK, OwnerLabels
<1>2. Starting' /\ Owned' /\ OwnServer' /\ Displaced' /\ Answered' /\ Cleared'
  BY DEF Starting, Owned, OwnServer, Displaced, Answered, Cleared, Listening, Early
<1>3. Alone'
  <2> SUFFICES ASSUME ~foreign PROVE Alone'
    BY DEF Alone
  <2>1. PICK g \in Goroutines : serve[g] = "serving" /\ ~closed[runs[g]]
    BY DEF PortTaken, Listening
  <2>2. runs[g] = g /\ server = g
    BY <2>1 DEF OwnServer, Alone
  <2> QED
    BY <2>1, <2>2 DEF Alone
<1> QED
  BY <1>1, <1>2, <1>3, LivesOn

LEMMA NoReplyStep == IInv /\ died = "no" /\ NoReplyInTime => IInv'
BY DieKeeps DEF NoReplyInTime, Die, Deaths, IInv, NoPanicInTurn, OnlyRestartIsFatal

LEMMA StopStep == IInv /\ died = "no" /\ Stop => IInv'
<1> SUFFICES ASSUME IInv, died = "no", Stop PROVE IInv'
  OBVIOUS
<1>1. CASE server = NoServer
  <2>1. foreign
    BY <1>1, RestServerAssumption DEF Stop, IInv, Inner, Alone
  <2> QED
    BY <1>1, <2>1, DieKeeps DEF Stop, Die, Deaths, IInv, NoPanicInTurn, OnlyRestartIsFatal
<1>2. CASE server # NoServer
  <2> USE <1>2 DEF Stop, IInv, Inner
  <2>1. TypeOK'
    BY DEF TypeOK, OwnerLabels
  <2>2. Starting' /\ Owned' /\ OwnServer' /\ Displaced' /\ Answered' /\ Cleared' /\ Alone'
    BY DEF Starting, Owned, OwnServer, Alone, Displaced, Answered, Cleared, Listening, Early
  <2> QED
    BY <2>1, <2>2, LivesOn
<1> QED
  BY <1>1, <1>2

LEMMA SetStoppedStep == IInv /\ died = "no" /\ SetStopped => IInv'
<1> SUFFICES ASSUME IInv, died = "no", SetStopped PROVE IInv'
  OBVIOUS
<1> USE DEF SetStopped, IInv, Inner
<1>1. TypeOK'
  BY DEF TypeOK, OwnerLabels
<1>2. Starting' /\ Owned' /\ OwnServer' /\ Displaced' /\ Answered' /\ Cleared' /\ Alone'
  BY DEF Starting, Owned, OwnServer, Alone, Displaced, Answered, Cleared, Listening, Early
<1> QED
  BY <1>1, <1>2, LivesOn

LEMMA ShutdownStep == IInv /\ died = "no" /\ Shutdown => IInv'
<1> SUFFICES ASSUME IInv, died = "no", Shutdown PROVE IInv'
  OBVIOUS
<1> USE DEF Shutdown, IInv, Inner
<1>1. server \in Goroutines /\ stopped
  BY DEF TypeOK, Owned
<1>2. TypeOK'
  BY <1>1 DEF TypeOK, OwnerLabels
<1>3. \A s \in Goroutines : closed[s] => closed'[s]
  BY <1>1 DEF TypeOK
<1>4. closed'[server]
  BY <1>1 DEF TypeOK
<1>5. Starting'
  BY DEF Starting, Early
<1>6. Owned' /\ Answered' /\ OwnServer' /\ Cleared'
  <2>1. Owned'
    BY <1>1, <1>4 DEF Owned
  <2>2. Answered' /\ OwnServer'
    BY DEF Answered, OwnServer
  <2>3. Cleared'
    BY <1>1 DEF Cleared
  <2> QED
    BY <2>1, <2>2, <2>3
<1>7. Alone'
  BY <1>3 DEF Alone
<1>8. Displaced'
  BY <1>3 DEF Displaced, Listening, OwnServer
<1> QED
  BY <1>2, <1>5, <1>6, <1>7, <1>8, LivesOn

LEMMA DrainedStep == IInv /\ died = "no" /\ Drained => IInv'
<1> SUFFICES ASSUME IInv, died = "no", Drained PROVE IInv'
  OBVIOUS
<1> USE DEF Drained, IInv, Inner
<1>1. server \in Goroutines
  BY DEF TypeOK, Owned
<1>2. TypeOK'
  BY DEF TypeOK, OwnerLabels
<1>3. Starting' /\ Owned' /\ OwnServer' /\ Displaced' /\ Cleared'
  BY DEF Starting, Owned, OwnServer, Displaced, Cleared, Listening, Early
<1>4. Answered'
  <2> SUFFICES ASSUME NEW s \in Goroutines PROVE ~(active[s] > 0)
    BY DEF Answered
  <2>1. active[s] > 0 => active[server] > 0
    BY DEF Answered
  <2> QED
    BY <2>1
<1>5. Alone'
  <2> SUFFICES ASSUME ~foreign, NEW g \in Goroutines
               PROVE  serve[g] # "listen" /\ (serve[g] = "serving" => closed[g])
    BY DEF Alone
  <2>1. closed[server]
    BY <1>1, RestServerAssumption DEF Owned
  <2> QED
    BY <2>1 DEF Alone
<1> QED
  BY <1>2, <1>3, <1>4, <1>5, LivesOn

----------------------------------------------------------------------------
(* The steps of Serve.                                                      *)
LEMMA CheckStep ==
  ASSUME IInv, died = "no", NEW g \in Goroutines, CheckNotRunning(g)
  PROVE  IInv'
<1> USE DEF CheckNotRunning, Goto, IInv, Inner
<1>1. server = NoServer
  BY DEF Starting, Early
<1>2. serve' = [serve EXCEPT ![g] = "flag"] /\ UNCHANGED <<owner, server, runs, stopped, closed, active, foreign, died>>
  BY <1>1
<1>3. TypeOK'
  BY <1>2 DEF TypeOK, ServeLabels
<1>4. Starting' /\ Owned' /\ OwnServer' /\ Displaced' /\ Answered' /\ Cleared' /\ Alone'
  <2>1. Starting' /\ Owned' /\ OwnServer' /\ Answered'
    BY <1>2 DEF Starting, Owned, OwnServer, Answered, Early, TypeOK
  <2>2. Displaced' /\ Cleared' /\ Alone'
    BY <1>2 DEF Displaced, Cleared, Alone, Listening, TypeOK
  <2> QED
    BY <2>1, <2>2
<1> QED
  BY <1>2, <1>3, <1>4, LivesOn

LEMMA ClearStoppedStep ==
  ASSUME IInv, died = "no", NEW g \in Goroutines, ClearStopped(g)
  PROVE  IInv'
<1> USE DEF ClearStopped, Goto, IInv, Inner
<1>1. serve'[g] = "create" /\ \A h \in Goroutines : h # g => serve'[h] = serve[h]
  BY DEF TypeOK
<1>2. owner \in {"waiting", "ready"} /\ server = NoServer
  BY DEF Starting, Early
<1>3. TypeOK'
  BY DEF TypeOK, ServeLabels
<1>4. Starting' /\ Owned' /\ OwnServer' /\ Answered'
  BY <1>1, <1>2 DEF Starting, Owned, OwnServer, Answered, Early
<1>5. Displaced' /\ Alone'
  BY <1>1 DEF Displaced, Alone, Listening
<1>6. Cleared'
  BY <1>1 DEF Cleared
<1> QED
  BY <1>3, <1>4, <1>5, <1>6, LivesOn

LEMMA CreateServerStep ==
  ASSUME IInv, died = "no", NEW g \in Goroutines, CreateServer(g)
  PROVE  IInv'
<1> USE DEF CreateServer, Goto, IInv, Inner
<1>1. serve'[g] = "listen" /\ \A h \in Goroutines : h # g => serve'[h] = serve[h]
  BY DEF TypeOK
<1>2. /\ owner \in {"waiting", "ready"} /\ server = NoServer /\ ~closed[g]
      /\ \A h \in Goroutines : h # g => serve[h] \notin Early
  BY DEF Starting, Early
<1>3. TypeOK'
  BY DEF TypeOK, ServeLabels
<1>4. Starting' /\ OwnServer' /\ Answered'
  BY <1>1, <1>2, RestServerAssumption DEF Starting, OwnServer, Answered, Early
<1>5. Owned'
  BY <1>2 DEF Owned
<1>6. Displaced'
  BY <1>1 DEF Displaced, Listening
<1>7. Alone'
  BY <1>1, <1>2, RestServerAssumption DEF Alone
<1>8. Cleared'
  BY <1>1 DEF Cleared
<1> QED
  BY <1>3, <1>4, <1>5, <1>6, <1>7, <1>8, LivesOn

LEMMA ListenStep ==
  ASSUME IInv, died = "no", NEW g \in Goroutines, ListenAndServe(g)
  PROVE  IInv'
<1> USE DEF ListenAndServe, Goto
<1>1. CASE server = NoServer
  <2>1. foreign
    BY <1>1, RestServerAssumption DEF IInv, Inner, Alone
  <2> QED
    BY <1>1, <2>1, DieKeeps DEF Die, Deaths, IInv, NoPanicInTurn, OnlyRestartIsFatal
<1>2. CASE server # NoServer
  <2> USE <1>2 DEF IInv, Inner
  <2>1. /\ server \in Goroutines
        /\ runs'[g] = server /\ serve'[g] = IF closed[server] \/ PortTaken THEN "returned" ELSE "serving"
        /\ \A h \in Goroutines : h # g => serve'[h] = serve[h] /\ runs'[h] = runs[h]
        /\ UNCHANGED <<owner, server, stopped, closed, active, foreign, died>>
    BY DEF TypeOK
  <2>2. TypeOK'
    BY DEF TypeOK, ServeLabels
  <2>3. ~foreign => server = g /\ serve'[g] = "serving"
    <3> SUFFICES ASSUME ~foreign PROVE server = g /\ serve'[g] = "serving"
      OBVIOUS
    <3>1. server = g /\ owner = "waiting"
      BY DEF Alone
    <3>2. ~closed[server]
      BY <3>1 DEF Owned
    <3>3. ~PortTaken
      BY <3>1 DEF PortTaken, Listening, OwnServer, Alone
    <3> QED
      BY <2>1, <3>1, <3>2, <3>3
  <2>4. foreign => serve'[g] = "returned"
    BY <2>1 DEF PortTaken
  <2>5. Starting' /\ Owned' /\ OwnServer' /\ Answered'
    BY <2>1, <2>3, <2>4 DEF Starting, Owned, OwnServer, Answered, Early
  <2>6. Displaced' /\ Alone'
    BY <2>1, <2>3, <2>4 DEF Displaced, Alone, Listening
  <2>7. Cleared'
    BY <2>1 DEF Cleared, Owned
  <2> QED
    BY <2>1, <2>2, <2>5, <2>6, <2>7, LivesOn
<1> QED
  BY <1>1, <1>2

LEMMA ReturnsStep ==
  ASSUME IInv, died = "no", NEW g \in Goroutines, ListenAndServeReturns(g)
  PROVE  IInv'
<1> USE DEF ListenAndServeReturns, Goto, IInv, Inner
<1>1. serve'[g] = "returned" /\ \A h \in Goroutines : h # g => serve'[h] = serve[h]
  BY DEF TypeOK
<1>2. runs[g] = g /\ closed[g]
  BY DEF OwnServer
<1>3. TypeOK'
  BY DEF TypeOK, ServeLabels
<1>4. Starting' /\ Owned' /\ OwnServer' /\ Answered'
  BY <1>1, <1>2 DEF Starting, Owned, OwnServer, Answered, Early
<1>5. Displaced'
  BY <1>1 DEF Displaced, Listening
<1>6. Alone'
  BY <1>1, <1>2 DEF Alone
<1>7. Cleared'
  BY <1>1 DEF Cleared
<1> QED
  BY <1>3, <1>4, <1>5, <1>6, <1>7, LivesOn

LEMMA EndServeStep ==
  ASSUME IInv, died = "no", NEW g \in Goroutines, EndServe(g)
  PROVE  IInv'
<1> USE DEF EndServe, Goto
<1>1. CASE ~stopped
  <2>1. TypeOK' /\ Inner'
    BY <1>1, DieKeeps DEF Deaths
  <2>2. NoPanicInTurn'
    BY <1>1 DEF Die, NoPanicInTurn
  <2>3. OnlyRestartIsFatal'
    <3> SUFFICES ASSUME closed[runs[g]] PROVE OnlyRestartIsFatal'
      BY <1>1 DEF Die, OnlyRestartIsFatal
    <3>1. PICK h \in Goroutines : h # g /\ serve[h] \in {"create", "listen", "serving", "returned"}
      BY <1>1 DEF IInv, Inner, Cleared
    <3> QED
      BY <1>1, <3>1 DEF Die, OnlyRestartIsFatal
  <2> QED
    BY <2>1, <2>2, <2>3 DEF IInv
<1>2. CASE stopped
  <2> USE <1>2 DEF IInv, Inner
  <2>1. serve'[g] = "none" /\ \A h \in Goroutines : h # g => serve'[h] = serve[h]
    BY DEF TypeOK
  <2>2. TypeOK'
    BY DEF TypeOK, ServeLabels
  <2>3. Starting' /\ Owned' /\ OwnServer' /\ Answered'
    BY <2>1 DEF Starting, Owned, OwnServer, Answered, Early
  <2>4. Displaced' /\ Alone' /\ Cleared'
    BY <2>1 DEF Displaced, Alone, Cleared, Listening
  <2> QED
    BY <2>2, <2>3, <2>4, LivesOn
<1> QED
  BY <1>1, <1>2

----------------------------------------------------------------------------
(* Requests and other processes.                                            *)
LEMMA AcceptStep ==
  ASSUME IInv, died = "no", NEW g \in Goroutines, Accept(g)
  PROVE  IInv'
<1> USE DEF Accept, IInv, Inner
<1>1. serve[g] = "serving" /\ runs[g] = g /\ ~closed[g] /\ ~foreign
  BY DEF Listening, OwnServer, Displaced
<1>2. server = g
  BY <1>1 DEF Alone
<1>3. TypeOK'
  <2>1. active[g] + 1 \in 0..MaxActive
    BY <1>1, RestServerAssumption DEF TypeOK
  <2>2. active' = [active EXCEPT ![g] = active[g] + 1]
    BY <1>1
  <2>3. active' \in [Goroutines -> 0..MaxActive]
    BY <2>1, <2>2 DEF TypeOK
  <2> QED
    BY <2>3 DEF TypeOK
<1>4. Answered'
  BY <1>1, <1>2 DEF Answered, TypeOK
<1>5. Starting' /\ Owned' /\ OwnServer' /\ Displaced' /\ Alone' /\ Cleared'
  BY DEF Starting, Owned, OwnServer, Displaced, Alone, Cleared, Listening
<1> QED
  BY <1>3, <1>4, <1>5, LivesOn

LEMMA HandlerEndsStep ==
  ASSUME IInv, died = "no", NEW s \in Goroutines, HandlerEnds(s)
  PROVE  IInv'
<1> USE DEF HandlerEnds, IInv, Inner
<1>1. TypeOK'
  <2>1. active[s] - 1 \in 0..MaxActive
    BY RestServerAssumption DEF TypeOK
  <2>2. active' \in [Goroutines -> 0..MaxActive]
    BY <2>1 DEF TypeOK
  <2> QED
    BY <2>2 DEF TypeOK
<1>2. Answered'
  <2>1. \A t \in Goroutines : active'[t] > 0 => active[t] > 0
    BY DEF TypeOK
  <2> QED
    BY <2>1 DEF Answered
<1>3. Starting' /\ Owned' /\ OwnServer' /\ Displaced' /\ Alone' /\ Cleared'
  BY DEF Starting, Owned, OwnServer, Displaced, Alone, Cleared, Listening
<1> QED
  BY <1>1, <1>2, <1>3, LivesOn

LEMMA OtherProcessStep == IInv /\ died = "no" /\ OtherProcess => IInv'
<1> SUFFICES ASSUME IInv, died = "no", OtherProcess PROVE IInv'
  OBVIOUS
<1> USE DEF OtherProcess, IInv, Inner
<1>1. TypeOK'
  BY DEF TypeOK
<1>2. Displaced' /\ Alone'
  BY DEF Displaced, Alone, PortTaken, Listening
<1>3. Starting' /\ Owned' /\ OwnServer' /\ Answered' /\ Cleared'
  BY DEF Starting, Owned, OwnServer, Answered, Cleared
<1> QED
  BY <1>1, <1>2, <1>3, LivesOn

LEMMA Stutters == IInv /\ UNCHANGED vars => IInv'
BY DEF IInv, TypeOK, Inner, Starting, Owned, OwnServer, Alone, Displaced, Answered, Cleared,
   Listening, NoPanicInTurn, OnlyRestartIsFatal

LEMMA Preserved == IInv /\ [Next]_vars => IInv'
<1> SUFFICES ASSUME IInv, [Next]_vars PROVE IInv'
  OBVIOUS
<1>1. ASSUME died = "no", NEW g \in Goroutines, Serve(g) PROVE IInv'
  BY <1>1, CheckStep, ClearStoppedStep, CreateServerStep, ListenStep, ReturnsStep, EndServeStep
  DEF Serve
<1> QED
  BY <1>1, StartStep, AcceptStep, HandlerEndsStep, RepliesStep, NoReplyStep, StopStep,
     SetStoppedStep, ShutdownStep, DrainedStep, OtherProcessStep, Stutters DEF Next, Stopping

LEMMA Invariance == SafeSpec => []IInv
BY Initially, Preserved, PTL DEF SafeSpec

----------------------------------------------------------------------------
(* The variables of the server's lifecycle have their types.                *)
THEOREM ServerTypes == SafeSpec => []TypeOK
<1>1. IInv => TypeOK
  BY DEF IInv
<1> QED
  BY <1>1, Invariance, PTL

(* Starting and stopping in turn never meets the panics of Serve and Stop   *)
(* ("server already running", "cant stop server since it's not running"),   *)
(* as long as no other process takes the address.                           *)
THEOREM TurnsDoNotPanic == SafeSpec => []NoPanicInTurn
<1>1. IInv => NoPanicInTurn
  BY DEF IInv
<1> QED
  BY <1>1, Invariance, PTL

(* A stopped server ends the process only when it is started again before   *)
(* its Serve has returned: StartInBackground clears the flag.               *)
THEOREM OnlyRestartsAreFatal == SafeSpec => []OnlyRestartIsFatal
<1>1. IInv => OnlyRestartIsFatal
  BY DEF IInv
<1> QED
  BY <1>1, Invariance, PTL

(* When StartInBackground has returned the server listens, unless another   *)
(* process has the address.                                                 *)
THEOREM ReadyIsListening == SafeSpec => []ReadyMeansListening
<1>1. IInv => ReadyMeansListening
  BY DEF IInv, Inner, Alone, OwnServer, ReadyMeansListening, Listening
<1> QED
  BY <1>1, Invariance, PTL

(* When Stop has returned no request is in progress.                        *)
THEOREM StoppedIsIdle == SafeSpec => []StoppedMeansIdle
<1>1. ASSUME IInv, owner = "off", NEW s \in Goroutines PROVE active[s] = 0
  <2>1. ~(active[s] > 0)
    BY <1>1, RestServerAssumption DEF IInv, Inner, Owned, Answered
  <2>2. active[s] \in Nat
    BY <1>1, RestServerAssumption DEF IInv, TypeOK
  <2> QED
    BY <2>1, <2>2
<1>2. IInv => StoppedMeansIdle
  BY <1>1 DEF StoppedMeansIdle
<1> QED
  BY <1>2, Invariance, PTL

----------------------------------------------------------------------------
(* Who answers at the address is the server api.server points to, the one   *)
(* that Stop will shut down; nobody does after Shutdown has closed it, and  *)
(* while StartInBackground polls for the new server the previous one does   *)
(* not answer in its place, although its Serve may still be returning.      *)
OnlyTheServerListens ==
  /\ \A g \in Goroutines : Listening(g) => runs[g] = server
  /\ \A g, h \in Goroutines : Listening(g) /\ Listening(h) => g = h
  /\ foreign \/ owner \in {"off", "drain"} => \A g \in Goroutines : ~Listening(g)
  /\ foreign \/ \A g \in Goroutines : serve[g] \in Early => ~PortTaken

(* Once Shutdown has closed the listener no request is accepted any more    *)
(* until the server is started again, so Stop waits for requests that       *)
(* existed when it began and for no others.                                 *)
NoRequestJoins ==
  owner \in {"off", "drain"} => \A s \in Goroutines : active'[s] <= active[s]

(* What is left of a Stop: its own steps, and while it drains one step for  *)
(* each request in progress.                                                *)
StopLeft ==
  CASE owner = "stop" -> MaxActive + 3
    [] owner = "shutdown" -> MaxActive + 2
    [] owner = "drain" -> active[server] + 1
    [] OTHER -> 0

(* Stop gets closer to its end with every step of its own, and with every   *)
(* request that is answered while it drains; nothing takes it back, neither *)
(* new requests nor the goroutines of this server and of previous ones.     *)
StopAdvances ==
  owner \in {"stop", "shutdown", "drain"} =>
    /\ StopLeft \in 1..MaxActive + 3
    /\ StopLeft' <= StopLeft
    /\ Stopping => StopLeft' < StopLeft
    /\ owner = "drain" /\ (\E s \in Goroutines : HandlerEnds(s)) => StopLeft' < StopLeft

(* What is left of a Serve.                                                 *)
ServeLeft(g) ==
  CASE serve[g] = "check" -> 6
    [] serve[g] = "flag" -> 5
    [] serve[g] = "create" -> 4
    [] serve[g] = "listen" -> 3
    [] serve[g] = "serving" -> 2
    [] serve[g] = "returned" -> 1
    [] OTHER -> 0

(* A goroutine goes through Serve once: each step of its own gets it closer *)
(* to the end or ends the process, and nobody else's step touches it.       *)
ServeAdvances ==
  \A g \in Goroutines : serve[g] # "none" =>
    /\ Serve(g) => ServeLeft(g)' < ServeLeft(g) \/ died' # "no"
    /\ ~Serve(g) => serve'[g] = serve[g]

(* The server of the owner is the one that listens, in every reachable      *)
(* state: Stop shuts down what clients reach.                               *)
LEMMA ListenersAreKnown ==
  ASSUME IInv, NEW g \in Goroutines, Listening(g)
  PROVE  runs[g] = g /\ server = g /\ ~closed[g] /\ ~foreign /\ owner \notin {"off", "drain"}
<1> USE DEF IInv, Inner
<1>1. runs[g] = g /\ ~closed[g] /\ ~foreign
  BY DEF Listening, OwnServer, Displaced
<1>2. server = g
  BY <1>1 DEF Listening, Alone
<1>3. g # NoServer
  BY RestServerAssumption
<1> QED
  BY <1>1, <1>2, <1>3 DEF Owned

(* At every moment at most one server of this process listens, the one      *)
(* api.server points to and Stop will shut down.                            *)
THEOREM OneServerListens == SafeSpec => []OnlyTheServerListens
<1>1. ASSUME IInv PROVE OnlyTheServerListens
  <2>1. \A g \in Goroutines : Listening(g) => runs[g] = server
    BY <1>1, ListenersAreKnown
  <2>2. \A g, h \in Goroutines : Listening(g) /\ Listening(h) => g = h
    BY <1>1, ListenersAreKnown
  <2>3. foreign \/ owner \in {"off", "drain"} => \A g \in Goroutines : ~Listening(g)
    BY <1>1, ListenersAreKnown
  <2>4. ASSUME NEW g \in Goroutines, serve[g] \in Early, ~foreign PROVE ~PortTaken
    <3>1. server = NoServer
      BY <1>1, <2>4 DEF IInv, Inner, Starting
    <3>2. \A h \in Goroutines : ~Listening(h)
      BY <1>1, <3>1, ListenersAreKnown, RestServerAssumption
    <3> QED
      BY <2>4, <3>2 DEF PortTaken
  <2> QED
    BY <2>1, <2>2, <2>3, <2>4 DEF OnlyTheServerListens
<1> QED
  BY <1>1, Invariance, PTL

LEMMA NumbersOfRequests ==
  ASSUME IInv
  PROVE  MaxActive \in Nat /\ \A s \in Goroutines : active[s] \in 0..MaxActive
BY RestServerAssumption DEF IInv, TypeOK

(* A handler that ends, ends for the server of the owner.                   *)
LEMMA HandlersAreTheServers ==
  ASSUME IInv, NEW s \in Goroutines, HandlerEnds(s)
  PROVE  s = server /\ active'[s] = active[s] - 1 /\ \A t \in Goroutines : active'[t] <= active[t]
<1>1. s = server
  BY DEF HandlerEnds, IInv, Inner, Answered
<1>2. active' = [active EXCEPT ![s] = active[s] - 1] /\ active \in [Goroutines -> 0..MaxActive]
  BY DEF HandlerEnds, IInv, TypeOK
<1>3. active'[s] = active[s] - 1 /\ \A t \in Goroutines : t # s => active'[t] = active[t]
  BY <1>2
<1>4. \A t \in Goroutines : active[t] \in Nat
  BY NumbersOfRequests
<1> QED
  BY <1>1, <1>3, <1>4

(* Only Accept and HandlerEnds change the number of requests.               *)
LEMMA RequestsChange ==
  ASSUME Next, \A g \in Goroutines : ~Accept(g) /\ ~HandlerEnds(g)
  PROVE  active' = active
BY DEF Next, StartInBackground, Serve, CheckNotRunning, ClearStopped, CreateServer, ListenAndServe,
   ListenAndServeReturns, EndServe, Replies, NoReplyInTime, Stop, Stopping, SetStopped, Shutdown,
   Drained, OtherProcess, Die

LEMMA NobodyJoins == IInv /\ Next => NoRequestJoins
<1> SUFFICES ASSUME IInv, Next, owner \in {"off", "drain"}, NEW s \in Goroutines
             PROVE  active'[s] <= active[s]
  BY DEF NoRequestJoins
<1>1. active[s] \in Nat
  BY NumbersOfRequests
<1>2. \A g \in Goroutines : ~Accept(g)
  BY ListenersAreKnown DEF Accept
<1>3. CASE \E g \in Goroutines : HandlerEnds(g)
  BY <1>3, HandlersAreTheServers
<1>4. CASE \A g \in Goroutines : ~HandlerEnds(g)
  BY <1>1, <1>2, <1>4, RequestsChange
<1> QED
  BY <1>3, <1>4

(* After Shutdown has closed the listener no request is accepted until the  *)
(* server is started again.                                                 *)
THEOREM NoRequestJoinsAStop == SafeSpec => [][NoRequestJoins]_vars
BY Invariance, NobodyJoins, PTL DEF SafeSpec

LEMMA StopIsFar ==
  ASSUME IInv, owner \in {"stop", "shutdown", "drain"}
  PROVE  StopLeft \in 1..MaxActive + 3 /\ (owner = "drain" => StopLeft <= MaxActive + 1)
<1>1. server \in Goroutines
  BY DEF IInv, Inner, Owned, TypeOK
<1>2. MaxActive \in Nat /\ active[server] \in 0..MaxActive
  BY <1>1, NumbersOfRequests
<1> QED
  BY <1>2 DEF StopLeft

(* A step of neither Stop nor, while it drains, a handler leaves what Stop  *)
(* has left.                                                                *)
LEMMA OthersLeaveStop ==
  ASSUME IInv, Next, owner \in {"stop", "shutdown", "drain"}, ~Stopping,
         owner = "drain" => \A s \in Goroutines : ~HandlerEnds(s)
  PROVE  StopLeft' = StopLeft
<1>1. owner' = owner
  BY DEF Next, StartInBackground, Serve, CheckNotRunning, ClearStopped, CreateServer, ListenAndServe,
     ListenAndServeReturns, EndServe, Replies, NoReplyInTime, Stop, OtherProcess, Die, Accept,
     HandlerEnds
<1>2. server' = server
  <2>1. \A g \in Goroutines : ~CreateServer(g)
    BY DEF CreateServer, IInv, Inner, Starting, Early
  <2> QED
    BY <2>1 DEF Next, StartInBackground, Serve, CheckNotRunning, ClearStopped, ListenAndServe,
       ListenAndServeReturns, EndServe, Replies, NoReplyInTime, Stop, OtherProcess, Die, Accept,
       HandlerEnds
<1>3. owner = "drain" => active' = active
  <2> SUFFICES ASSUME owner = "drain" PROVE active' = active
    OBVIOUS
  <2>1. \A g \in Goroutines : ~Accept(g)
    BY ListenersAreKnown DEF Accept
  <2> QED
    BY <2>1, RequestsChange
<1> QED
  BY <1>1, <1>2, <1>3 DEF StopLeft

LEMMA StopsAdvance == IInv /\ IInv' /\ Next => StopAdvances
<1> SUFFICES ASSUME IInv, IInv', Next, owner \in {"stop", "shutdown", "drain"}
             PROVE  /\ StopLeft \in 1..MaxActive + 3
                    /\ StopLeft' <= StopLeft
                    /\ Stopping => StopLeft' < StopLeft
                    /\ owner = "drain" /\ (\E s \in Goroutines : HandlerEnds(s))
                         => StopLeft' < StopLeft
  BY DEF StopAdvances
<1>1. StopLeft \in 1..MaxActive + 3 /\ MaxActive \in Nat
  BY StopIsFar, NumbersOfRequests
<1>2. Stopping => StopLeft' < StopLeft
  <2>1. CASE SetStopped
    BY <2>1, <1>1 DEF SetStopped, StopLeft
  <2>2. CASE Shutdown
    <3>1. /\ owner = "shutdown" /\ owner' = "drain"
          /\ server' = server /\ active' = active
      BY <2>2 DEF Shutdown
    <3>2. server \in Goroutines
      BY <3>1 DEF IInv, Inner, Owned, TypeOK
    <3>3. StopLeft = MaxActive + 2 /\ StopLeft' = active[server] + 1
      BY <3>1 DEF StopLeft
    <3>4. active[server] \in 0..MaxActive
      BY <3>2, NumbersOfRequests
    <3> QED
      BY <3>3, <3>4, <1>1
  <2>3. CASE Drained
    <3>1. StopLeft' = 0
      BY <2>3 DEF Drained, StopLeft
    <3> QED
      BY <3>1, <1>1
  <2> QED
    BY <2>1, <2>2, <2>3 DEF Stopping
<1>3. owner = "drain" /\ (\E s \in Goroutines : HandlerEnds(s)) => StopLeft' < StopLeft
  <2> SUFFICES ASSUME owner = "drain", NEW s \in Goroutines, HandlerEnds(s)
               PROVE  StopLeft' < StopLeft
    OBVIOUS
  <2>1. s = server /\ active'[s] = active[s] - 1 /\ active[s] \in Nat
    BY HandlersAreTheServers, NumbersOfRequests
  <2>2. owner' = "drain" /\ server' = server
    BY DEF HandlerEnds
  <2>3. StopLeft = active[s] + 1 /\ StopLeft' = active'[s] + 1
    BY <2>1, <2>2 DEF StopLeft
  <2> QED
    BY <2>1, <2>3
<1>4. StopLeft' <= StopLeft
  <2>1. ASSUME ~Stopping, owner = "drain" => \A s \in Goroutines : ~HandlerEnds(s)
        PROVE  StopLeft' = StopLeft
    BY <2>1, OthersLeaveStop
  <2>2. StopLeft' \in Nat
    <3>1. owner' = "drain" => server' \in Goroutines
      BY DEF IInv, Inner, Owned, TypeOK
    <3>2. \A s \in Goroutines : active'[s] \in Nat
      BY <1>1 DEF IInv, TypeOK
    <3> QED
      BY <3>1, <3>2, <1>1 DEF StopLeft
  <2> QED
    BY <1>1, <1>2, <1>3, <2>1, <2>2
<1> QED
  BY <1>1, <1>2, <1>3, <1>4

(* Stop comes to its end: it has at most MaxActive + 3 steps left, its own  *)
(* and those of the requests in progress, and nothing makes them more.      *)
THEOREM StopsComeToAnEnd == SafeSpec => [][StopAdvances]_vars
BY Invariance, StopsAdvance, PTL DEF SafeSpec

LEMMA ServesAdvance == IInv /\ Next => ServeAdvances
<1> SUFFICES ASSUME IInv, Next, NEW g \in Goroutines, serve[g] # "none"
             PROVE  /\ Serve(g) => ServeLeft(g)' < ServeLeft(g) \/ died' # "no"
                    /\ ~Serve(g) => serve'[g] = serve[g]
  BY DEF ServeAdvances
<1>0. serve \in [Goroutines -> ServeLabels]
  BY DEF IInv, TypeOK
<1>1. ASSUME Serve(g), died' = "no" PROVE ServeLeft(g)' < ServeLeft(g)
  <2> USE DEF Goto, ServeLeft
  <2>1. CASE CheckNotRunning(g)
    <3>1. serve'[g] = "flag"
      BY <1>0, <1>1, <2>1 DEF CheckNotRunning, Die
    <3> QED
      BY <2>1, <3>1 DEF CheckNotRunning
  <2>2. CASE ClearStopped(g)
    <3>1. serve'[g] = "create"
      BY <1>0, <2>2 DEF ClearStopped
    <3> QED
      BY <2>2, <3>1 DEF ClearStopped
  <2>3. CASE CreateServer(g)
    <3>1. serve'[g] = "listen"
      BY <1>0, <2>3 DEF CreateServer
    <3> QED
      BY <2>3, <3>1 DEF CreateServer
  <2>4. CASE ListenAndServe(g)
    <3>1. serve'[g] \in {"returned", "serving"}
      BY <1>0, <1>1, <2>4 DEF ListenAndServe, Die
    <3> QED
      BY <2>4, <3>1 DEF ListenAndServe
  <2>5. CASE ListenAndServeReturns(g)
    <3>1. serve'[g] = "returned"
      BY <1>0, <2>5 DEF ListenAndServeReturns
    <3> QED
      BY <2>5, <3>1 DEF ListenAndServeReturns
  <2>6. CASE EndServe(g)
    <3>1. serve'[g] = "none"
      BY <1>0, <1>1, <2>6 DEF EndServe, Die
    <3> QED
      BY <2>6, <3>1 DEF EndServe
  <2> QED
    BY <1>1, <2>1, <2>2, <2>3, <2>4, <2>5, <2>6 DEF Serve
<1>2. ASSUME ~Serve(g) PROVE serve'[g] = serve[g]
  <2>1. ASSUME NEW h \in Goroutines, h # g, Serve(h) PROVE serve'[g] = serve[g]
    BY <1>0, <2>1 DEF Serve, CheckNotRunning, ClearStopped, CreateServer, ListenAndServe,
       ListenAndServeReturns, EndServe, Die, Goto
  <2>2. ASSUME NEW h \in Goroutines, StartInBackground(h) PROVE serve'[g] = serve[g]
    BY <1>0, <2>2 DEF StartInBackground, Goto
  <2> QED
    BY <1>2, <2>1, <2>2 DEF Next, Accept, HandlerEnds, Replies, NoReplyInTime, Stop, Stopping,
       SetStopped, Shutdown, Drained, OtherProcess, Die
<1>3. /\ Serve(g) => ServeLeft(g)' < ServeLeft(g) \/ died' # "no"
  BY <1>1
<1> QED
  BY <1>2, <1>3

(* A goroutine of Serve has at most six steps, and no one else takes them.  *)
THEOREM ServesComeToAnEnd == SafeSpec => [][ServeAdvances]_vars
BY Invariance, ServesAdvance, PTL DEF SafeSpec
=============================================================================
