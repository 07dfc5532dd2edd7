-------------------------- MODULE AtomicOperations --------------------------
(***************************************************************************)
(* What the controller promises its clients: an operation either takes its *)
(* whole effect in one step or leaves the database as it was, a success is *)
(* reported only for an operation that took effect, and an operation that  *)
(* only reads has no effect.  An error or a lost reply says nothing about  *)
(* the effect: the commit may have succeeded before the failure.           *)
(*                                                                         *)
(* "success" and "error" are what the controller returns to the handler.   *)
(* The status that the client gets for an error is in Replies: an error    *)
(* whose status the extension has chosen can look like a success there.    *)
(***************************************************************************)
EXTENDS Operations

CONSTANT Clients

VARIABLES
  db,      \* the committed content of the database
  op,      \* the operation of a client's current request
  phase,   \* how far a client's request has come
  reply    \* how the controller answered a client's last request

vars == <<db, op, phase, reply>>

Phases == {"idle", "pending", "applied"}
Replies == {"none", "success", "error", "lost"}

Init ==
  /\ db = EmptyDatabase
  /\ op = [c \in Clients |-> AnyOperation]
  /\ phase = [c \in Clients |-> "idle"]
  /\ reply = [c \in Clients |-> "none"]

Receive(c, o) ==
  /\ phase[c] = "idle"
  /\ phase' = [phase EXCEPT ![c] = "pending"]
  /\ op' = [op EXCEPT ![c] = o]
  /\ reply' = [reply EXCEPT ![c] = "none"]
  /\ UNCHANGED db

TakeEffect(c) ==
  /\ phase[c] = "pending"
  /\ phase' = [phase EXCEPT ![c] = "applied"]
  /\ op[c].kind \in WriteKinds
  /\ Serializable => Permitted(op[c], db)
  /\ db' = Overlay(Effect(op[c]), db)
  /\ UNCHANGED <<op, reply>>

Answer(c, r) ==
  /\ phase[c] # "idle"
  /\ phase' = [phase EXCEPT ![c] = "idle"]
  /\ r = "success" => phase[c] = "applied" \/ op[c].kind \in ReadKinds
  /\ reply' = [reply EXCEPT ![c] = r]
  /\ op' = [op EXCEPT ![c] = AnyOperation]
  /\ UNCHANGED db

Next ==
  \E c \in Clients :
    \/ \E o \in Requested : Receive(c, o)
    \/ TakeEffect(c)
    \/ \E r \in {"success", "error", "lost"} : Answer(c, r)

SafeSpec == Init /\ [][Next]_vars

(* A client waits for no answer forever.                                    *)
Answered(c) == []<>(phase[c] = "idle")

Spec == SafeSpec /\ \A c \in Clients : Answered(c)

----------------------------------------------------------------------------
TypeOK ==
  /\ db \in Database
  /\ op \in [Clients -> Requested]
  /\ phase \in [Clients -> Phases]
  /\ reply \in [Clients -> Replies]

(* An installed extension is whole: its objects all exist in one version or *)
(* none exists.  The all-or-nothing transactions of transactionController.go *)
(* are what keeps it so.                                                    *)
WholeInstallations ==
  \A e \in Extensions : \A k, l \in PartKeys(e) : db[k] = db[l]

(* No instance outlives the objects of its extension, for extensions that   *)
(* can list their instances (verifyNoInstances in controller.go).           *)
NoOrphanInstances ==
  \A e \in Listing : HasInstances(db, e) => Installed(db, e)
=============================================================================
