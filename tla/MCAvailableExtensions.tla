----------------------- MODULE MCAvailableExtensions -----------------------
(* A small tree and registry for TLC: a file of the same name in the base    *)
(* directory and in a container, another one in a subdirectory.              *)
EXTENDS AvailableExtensions, TLC

CONSTANTS root, sub, box, shut, top, inSub, inBox, jar, zip, ext1, ext2

MCDirectories == {root, sub, box, shut}
MCParent == sub :> root @@ box :> root @@ shut :> root
              @@ top :> root @@ inSub :> sub @@ inBox :> box
MCName == top :> jar @@ inSub :> zip @@ inBox :> jar
MCKind == root :> "plain" @@ sub :> "plain" @@ box :> "container" @@ shut :> "locked"
MCTrees ==
  {top :> s @@ inSub :> t @@ inBox :> u :
     s \in {0, 1, Gone}, t \in {1, Gone}, u \in {0, Gone}}

Required(n, s) == [name |-> n, size |-> s]
MCRequirements == {{Required(jar, 0)}, {Required(jar, -1), Required(zip, 1)}}

Has(x, y) == ext1 :> x @@ ext2 :> y
None(s) == [state |-> s, requires |-> {}]
Loads(R) == [state |-> "loads", requires |-> R]
MCRegistries ==
  {Has(x, None("absent")) : x \in {Loads({Required(jar, 0)}), None("absent")}}
    \cup {Has(Loads({Required(jar, 0)}), x) :
             x \in {None("unusable"), Loads({Required(jar, -1), Required(zip, 1)})}}
=============================================================================
