-------------------------- MODULE PublishedRegistry --------------------------
(***************************************************************************)
(* What managers are promised of the registry they ask: they are served an *)
(* edition of the index that its developers approved for publication, and  *)
(* never an older one after a newer one.  RegistryUpload implements this;  *)
(* HttpRegistry's environment behaves like it.                             *)
(***************************************************************************)
EXTENDS Naturals

CONSTANTS
  Editions,   \* editions of the index, a set of numbers
  NoIndex     \* nothing has been published yet

VARIABLES
  edition,    \* the edition that is served
  approved    \* the editions that may be served

Init ==
  /\ edition \in Editions \cup {NoIndex}
  /\ approved = {edition} \cap Editions

Approve(e) ==
  /\ approved' = approved \cup {e}
  /\ UNCHANGED edition

Show(e) ==
  /\ e \in approved
  /\ edition = NoIndex \/ e > edition
  /\ edition' = e
  /\ UNCHANGED approved

Next == \E e \in Editions : Approve(e) \/ Show(e)

Spec == Init /\ [][Next]_<<edition, approved>>
=============================================================================
