----------------------------- MODULE RestServer -----------------------------
(***************************************************************************)
(* The lifecycle of the REST server (restApi.go): StartInBackground starts *)
(* a goroutine that runs Serve and polls the server's address until it     *)
(* answers, Stop ends the server.  The owner calls them in turn.  The      *)
(* goroutine and the owner share api.server without a lock and             *)
(* api.stopped under one.                                                  *)
(*                                                                         *)
(* A panic in a goroutine and log.Fatalf both end the process.             *)
(***************************************************************************)
EXTENDS Naturals

CONSTANTS
  Goroutines,   \* goroutines that can run Serve at the same time
  MaxActive,    \* bound: requests a server handles at the same time
  NoServer      \* api.server is nil

ASSUME RestServerAssumption ==
  /\ MaxActive \in Nat \ {0}
  /\ NoServer \notin Goroutines

VARIABLES
  owner,    \* where the calls of the owner are
  serve,    \* where a goroutine is in Serve
  server,   \* api.server; a server is known by the goroutine that created it
  runs,     \* the server whose ListenAndServe a goroutine has called
  stopped,  \* api.stopped
  closed,   \* Shutdown was called for a server
  active,   \* requests a server handles
  foreign,  \* another process has taken the address
  died      \* what has ended the process

vars == <<owner, serve, server, runs, stopped, closed, active, foreign, died>>

OwnerLabels == {"off", "waiting", "ready", "stop", "shutdown", "drain"}
ServeLabels == {"none", "check", "flag", "create", "listen", "serving", "returned"}
Deaths == {"no", "panic", "noReply", "listenFailed", "stoppedServer"}

Init ==
  /\ owner = "off"
  /\ serve = [g \in Goroutines |-> "none"]
  /\ server = NoServer
  /\ runs = [g \in Goroutines |-> NoServer]
  /\ stopped = FALSE
  /\ closed = [g \in Goroutines |-> FALSE]
  /\ active = [g \in Goroutines |-> 0]
  /\ foreign = FALSE
  /\ died = "no"

----------------------------------------------------------------------------
Listening(g) == serve[g] = "serving" /\ ~closed[runs[g]]
PortTaken == foreign \/ \E g \in Goroutines : Listening(g)

Goto(g, label) == serve' = [serve EXCEPT ![g] = label]

Die(cause) ==
  /\ died' = cause
  /\ UNCHANGED <<owner, serve, server, runs, stopped, closed, active, foreign>>

(* StartInBackground: start the goroutine, then wait for a reply.           *)
StartInBackground(g) ==
  /\ owner = "off"
  /\ serve[g] = "none"
  /\ owner' = "waiting"
  /\ Goto(g, "check")
  /\ closed' = [closed EXCEPT ![g] = FALSE]
  /\ runs' = [runs EXCEPT ![g] = NoServer]
  /\ UNCHANGED <<server, stopped, active, foreign, died>>

(* Faulty variant: StartInBackground does not wait.                         *)
ReturnAtOnce ==
  /\ owner = "waiting"
  /\ owner' = "ready"
  /\ UNCHANGED <<serve, server, runs, stopped, closed, active, foreign, died>>

(* Any server that answers at the address satisfies waitUntilServerReplies. *)
Replies ==
  /\ owner = "waiting"
  /\ PortTaken
  /\ owner' = "ready"
  /\ UNCHANGED <<serve, server, runs, stopped, closed, active, foreign, died>>

NoReplyInTime ==
  /\ owner = "waiting"
  /\ ~PortTaken
  /\ Die("noReply")

----------------------------------------------------------------------------
(* The steps of Serve.                                                      *)
CheckNotRunning(g) ==
  /\ serve[g] = "check"
  /\ IF server # NoServer
       THEN Die("panic")
       ELSE /\ Goto(g, "flag")
            /\ UNCHANGED <<owner, server, runs, stopped, closed, active, foreign, died>>

ClearStopped(g) ==
  /\ serve[g] = "flag"
  /\ stopped' = FALSE
  /\ Goto(g, "create")
  /\ UNCHANGED <<owner, server, runs, closed, active, foreign, died>>

CreateServer(g) ==
  /\ serve[g] = "create"
  /\ server' = g
  /\ Goto(g, "listen")
  /\ UNCHANGED <<owner, runs, stopped, closed, active, foreign, died>>

(* ListenAndServe of whatever api.server is now.  It returns at once when   *)
(* the port is taken or the server was shut down before.                    *)
ListenAndServe(g) ==
  /\ serve[g] = "listen"
  /\ IF server = NoServer
       THEN Die("panic")
       ELSE /\ runs' = [runs EXCEPT ![g] = server]
            /\ Goto(g, IF closed[server] \/ PortTaken THEN "returned" ELSE "serving")
            /\ UNCHANGED <<owner, server, stopped, closed, active, foreign, died>>

ListenAndServeReturns(g) ==
  /\ serve[g] = "serving"
  /\ closed[runs[g]]
  /\ Goto(g, "returned")
  /\ UNCHANGED <<owner, server, runs, stopped, closed, active, foreign, died>>

(* An error of ListenAndServe is fatal unless the server was stopped.       *)
EndServe(g) ==
  /\ serve[g] = "returned"
  /\ IF ~stopped
       THEN Die(IF closed[runs[g]] THEN "stoppedServer" ELSE "listenFailed")
       ELSE /\ Goto(g, "none")
            /\ UNCHANGED <<owner, server, runs, stopped, closed, active, foreign, died>>

----------------------------------------------------------------------------
(* The steps of Stop.                                                       *)
Stop ==
  /\ owner = "ready"
  /\ IF server = NoServer
       THEN Die("panic")
       ELSE /\ owner' = "stop"
            /\ UNCHANGED <<serve, server, runs, stopped, closed, active, foreign, died>>

(* Faulty variants: the flag is left out; Serve holds the lock of the flag  *)
(* while the server runs.                                                   *)
LeaveFlag ==
  /\ owner = "stop"
  /\ owner' = "shutdown"
  /\ UNCHANGED <<serve, server, runs, stopped, closed, active, foreign, died>>

WaitForLock ==
  /\ owner = "stop"
  /\ \A g \in Goroutines : serve[g] # "serving"
  /\ stopped' = TRUE
  /\ owner' = "shutdown"
  /\ UNCHANGED <<serve, server, runs, closed, active, foreign, died>>

SetStopped ==
  /\ owner = "stop"
  /\ stopped' = TRUE
  /\ owner' = "shutdown"
  /\ UNCHANGED <<serve, server, runs, closed, active, foreign, died>>

(* Shutdown closes the listener first ...                                   *)
Shutdown ==
  /\ owner = "shutdown"
  /\ closed' = [closed EXCEPT ![server] = TRUE]
  /\ owner' = "drain"
  /\ UNCHANGED <<serve, server, runs, stopped, active, foreign, died>>

(* Faulty variants: Stop does not wait for the requests in progress; it     *)
(* leaves api.server as it is.                                              *)
CloseAtOnce ==
  /\ owner = "drain"
  /\ server' = NoServer
  /\ owner' = "off"
  /\ UNCHANGED <<serve, runs, stopped, closed, active, foreign, died>>

KeepServer ==
  /\ owner = "drain"
  /\ active[server] = 0
  /\ owner' = "off"
  /\ UNCHANGED <<serve, server, runs, stopped, closed, active, foreign, died>>

(* ... and then waits until the requests in progress are answered.          *)
Drained ==
  /\ owner = "drain"
  /\ active[server] = 0
  /\ server' = NoServer
  /\ owner' = "off"
  /\ UNCHANGED <<serve, runs, stopped, closed, active, foreign, died>>

----------------------------------------------------------------------------
(* A request arrives; its handler ends.                                     *)
Accept(g) ==
  /\ Listening(g)
  /\ active[runs[g]] < MaxActive
  /\ active' = [active EXCEPT ![runs[g]] = @ + 1]
  /\ UNCHANGED <<owner, serve, server, runs, stopped, closed, foreign, died>>

(* Faulty variant: the end of a handler is counted twice.                   *)
CountTwice(s) ==
  /\ active[s] > 0
  /\ active' = [active EXCEPT ![s] = @ - 2]
  /\ UNCHANGED <<owner, serve, server, runs, stopped, closed, foreign, died>>

HandlerEnds(s) ==
  /\ active[s] > 0
  /\ active' = [active EXCEPT ![s] = @ - 1]
  /\ UNCHANGED <<owner, serve, server, runs, stopped, closed, foreign, died>>

(* Another process, for instance a manager started twice, takes the address *)
(* while nobody listens there, and keeps it.                                *)
OtherProcess ==
  /\ ~PortTaken
  /\ foreign' = TRUE
  /\ UNCHANGED <<owner, serve, server, runs, stopped, closed, active, died>>

----------------------------------------------------------------------------
Serve(g) ==
  \/ CheckNotRunning(g) \/ ClearStopped(g) \/ CreateServer(g)
  \/ ListenAndServe(g) \/ ListenAndServeReturns(g) \/ EndServe(g)

Stopping == SetStopped \/ Shutdown \/ Drained

Next ==
  /\ died = "no"
  /\ \/ \E g \in Goroutines :
          StartInBackground(g) \/ Serve(g) \/ Accept(g) \/ HandlerEnds(g)
     \/ Replies \/ NoReplyInTime \/ Stop \/ Stopping \/ OtherProcess

SafeSpec == Init /\ [][Next]_vars

(* Goroutines that can run do run, and handlers end; nothing makes the      *)
(* owner call Stop or a client send a request.                              *)
Running(A) == died = "no" /\ A
Spec ==
  /\ SafeSpec
  /\ WF_vars(Running(Stopping)) /\ WF_vars(Running(Replies))
  /\ \A g \in Goroutines :
       WF_vars(Running(Serve(g))) /\ WF_vars(Running(HandlerEnds(g)))

----------------------------------------------------------------------------
TypeOK ==
  /\ owner \in OwnerLabels
  /\ serve \in [Goroutines -> ServeLabels]
  /\ server \in Goroutines \cup {NoServer}
  /\ runs \in [Goroutines -> Goroutines \cup {NoServer}]
  /\ stopped \in BOOLEAN
  /\ closed \in [Goroutines -> BOOLEAN]
  /\ active \in [Goroutines -> 0..MaxActive]
  /\ foreign \in BOOLEAN
  /\ died \in Deaths

(* Calling StartInBackground and Stop in turn never meets the guards of     *)
(* Serve and Stop, nor a server that is nil: api.server is set before the   *)
(* server can reply and cleared before Stop returns.  Another process that  *)
(* replies at the address spoils the first half.                            *)
NoPanicInTurn == ~foreign => died # "panic"

(* "Serve starts the server. This method blocks until the server is stopped *)
(* or fails." (restApi.go): stopping a server does not end the process.     *)
StoppingIsNotFatal == died # "stoppedServer"

(* The only way for a server that was stopped to end the process is that it *)
(* was started again before the goroutine of its Serve had returned.        *)
OnlyRestartIsFatal ==
  died = "stoppedServer" =>
    \E g, h \in Goroutines : g # h /\ serve[g] = "returned" /\ serve[h] # "none"

(* "StartInBackground ... blocks until it is ready, i.e. reacts to HTTP     *)
(* requests" (restApi.go): when it returns, the server listens, unless it   *)
(* was another process that replied.                                        *)
ReadyMeansListening ==
  owner = "ready" /\ ~foreign => \E g \in Goroutines : Listening(g)

(* When Stop returns every request has been answered.                       *)
StoppedMeansIdle ==
  owner = "off" => \A s \in Goroutines : active[s] = 0

(* Stop returns and the goroutine of the stopped server ends, as long as    *)
(* the handlers do.                                                         *)
StopEndsServer ==
  \A g \in Goroutines :
    owner = "stop" /\ runs[g] = server ~>
      died # "no" \/ (serve[g] = "none" /\ owner # "drain")
=============================================================================
