------------------------------ MODULE MCReplies ------------------------------
(***************************************************************************)
(* Requests and extensions for TLC: every route, and extensions that       *)
(* depart from a good one in the functions a route calls.                  *)
(***************************************************************************)
EXTENDS Replies

CONSTANTS p1, p2, good, bad

MCParameters == {p1, p2}
MCValues == {good, bad}

(* Of a client's error, of a success, informational, and not of HTTP.       *)
MCStatuses == {400, 404, 412, 200, 204, 102, 42, 0}

Given1(v) == <<[name |-> p1, value |-> v]>>
MCInputs ==
  {<<>>} \cup {Given1(v) : v \in {good, bad, Empty}}
    \cup {Given1(v) \o Given1(w) : v, w \in {good, bad}}

GoodRequest == [route |-> "listAvailable", authorized |-> TRUE, address |-> TRUE,
                body |-> TRUE, values |-> Given1(good)]
MCRequests ==
  {[GoodRequest EXCEPT !.route = r] : r \in Routes}
    \cup {[GoodRequest EXCEPT !.authorized = a, !.address = ~a] : a \in BOOLEAN}
    \cup {[GoodRequest EXCEPT !.route = "createInstance", !.body = FALSE]}
    \cup {[GoodRequest EXCEPT !.route = "createInstance", !.values = vs] : vs \in MCInputs}

Does(d) == [does |-> d, status |-> 0]
Def(id, required, broken) ==
  [id |-> id, required |-> required, allowed |-> {good}, broken |-> broken]
Optional == Def(p1, FALSE, FALSE)

GoodExtension ==
  [found |-> TRUE, loads |-> TRUE, define |-> Does("returns"), convertible |-> TRUE,
   definitions |-> {Optional}, find |-> Does("returns"), instances |-> FALSE,
   method |-> Does("returns")]

MCExtensions ==
  {[GoodExtension EXCEPT !.found = f, !.loads = ~f] : f \in BOOLEAN}
    \cup {[GoodExtension EXCEPT !.convertible = c] : c \in BOOLEAN}
    \cup {[GoodExtension EXCEPT !.define = b, !.definitions = {Def(p1, TRUE, FALSE)}] :
            b \in Behaviour}
    \cup {[GoodExtension EXCEPT !.find = b, !.instances = i, !.method = m] :
            b \in Behaviour, i \in BOOLEAN, m \in {Does("returns"), Does("throwsOther")}}
    \cup {[GoodExtension EXCEPT !.method = b] : b \in Behaviour}
    \cup {[GoodExtension EXCEPT !.definitions = {Def(p1, r, FALSE), Def(p2, q, b)}] :
            r, q, b \in BOOLEAN}
    \cup {[GoodExtension EXCEPT !.definitions = {Def(p1, r, TRUE)}] : r \in BOOLEAN}

MCReplacements ==
  {[GoodExtension EXCEPT !.definitions = {Def(p1, TRUE, FALSE)}, !.method = Does("returnsNull")],
   [GoodExtension EXCEPT !.found = FALSE],
   [GoodExtension EXCEPT !.definitions = {Def(p2, TRUE, FALSE)}, !.find = Does("missing")]}
=============================================================================
