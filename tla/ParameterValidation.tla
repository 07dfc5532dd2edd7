------------------------ MODULE ParameterValidation ------------------------
(***************************************************************************)
(* The validation of the parameters of an instance (parameterValidator):   *)
(* the definitions come from the extension, the values from the request.   *)
(* Of a value matters only which definitions allow it: a string allows     *)
(* what matches its regular expression, a select its options, a boolean    *)
(* "true" and "false", and a type the validator does not know nothing.     *)
(***************************************************************************)
EXTENDS Sequences, Naturals

CONSTANTS
  Parameters,   \* ids of parameters
  Values,       \* values that are not empty
  Empty         \* the empty value

ASSUME ParameterAssumption == Empty \notin Values

(* "broken": a definition that makes the validator fail, a select without   *)
(* options or a string with a regular expression that is none.              *)
Definition ==
  [id : Parameters, required : BOOLEAN, allowed : SUBSET Values, broken : BOOLEAN]

ParameterValue == [name : Parameters, value : Values \cup {Empty}]

(* The first value of that name; a missing one counts as empty.             *)
FindParamValue(params, id) ==
  LET found == {i \in DOMAIN params : params[i].name = id} IN
  IF found = {} THEN Empty
  ELSE params[CHOOSE i \in found : \A j \in found : i <= j].value

(* The definition is looked into only for a value that is there.            *)
ValidateParameter(def, value) ==
  CASE value = Empty -> IF def.required THEN "invalid" ELSE "valid"
    [] value # Empty /\ def.broken -> "failed"
    [] value # Empty /\ ~def.broken -> IF value \in def.allowed THEN "valid" ELSE "invalid"

(* The validator fails as a whole when it fails for one definition.         *)
ValidateParameters(definitions, params) ==
  LET verdicts == {ValidateParameter(def, FindParamValue(params, def.id)) : def \in definitions}
  IN CASE "failed" \in verdicts                          -> "failed"
       [] "failed" \notin verdicts /\ "invalid" \in verdicts -> "invalid"
       [] verdicts \subseteq {"valid"}                   -> "valid"

(* What the validation is for, said without it: the value an extension finds *)
(* under the id of a definition is one the definition allows, and a required *)
(* parameter has one.                                                        *)
Given(params, id) ==
  {v \in Values : \E i \in DOMAIN params :
     /\ params[i] = [name |-> id, value |-> v]
     /\ \A j \in 1..(i - 1) : params[j].name # id}

Acceptable(definitions, params) ==
  \A def \in definitions :
    /\ Given(params, def.id) \subseteq def.allowed
    /\ def.required => Given(params, def.id) # {}
=============================================================================
