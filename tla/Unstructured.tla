---------------------------- MODULE Unstructured ----------------------------
(***************************************************************************)
(* The unstructured view of a cluster object that every awaiter reads.     *)
(*                                                                         *)
(* The dynamic client hands the awaiters an *unstructured.Unstructured, a  *)
(* map[string]interface{} decoded from JSON, and the awaiters read its     *)
(* fields with openapi.Pluck and Go type assertions.  A Go interface{}     *)
(* value is modelled as the pair of its dynamic type and its value, so    *)
(* that TLA+ equality of two such pairs is exactly Go's == on two          *)
(* interface values (equal dynamic types and equal values), and a type     *)
(* assertion v.(T) succeeds exactly when TypeOf(v) = T.                    *)
(*                                                                         *)
(* An object is a function from field paths to values; a field the JSON    *)
(* does not carry has the value Nil, which is what Pluck returns for it.   *)
(***************************************************************************)
EXTENDS Naturals

\* The dynamic types a decoded JSON object can hold, and v1.ResourceList,
\* the typed map that the ResourceQuota awaiter asserts ("[]interface"
\* stands for []interface{}, "map[string]interface" for
\* map[string]interface{}).
GoTypes == {"nil", "int64", "string", "[]interface",
            "map[string]interface", "v1.ResourceList"}

\* The empty Go string "", as a label distinct from every other string the
\* model uses.
EmptyString == "empty"

\* The nil interface value.
Nil == <<"nil", "nil">>

\* A JSON number, a JSON string, a JSON array (abstracted to its length) and
\* a JSON object (abstracted to a name for its contents), as decoded.
Int64(n)  == <<"int64", n>>
String(s) == <<"string", s>>
Slice(n)  == <<"[]interface", n>>
Map(m)    == <<"map[string]interface", m>>

\* The dynamic type and the value of an interface value.
TypeOf(v) == v[1]
ValueOf(v) == v[2]

\* The type assertion v.(T), in its two-result form: does it succeed?
IsType(v, T) == TypeOf(v) = T

\* The field paths the awaiters pluck.
SpecReplicas      == <<"spec", "replicas">>
StatusAvailable   == <<"status", "availableReplicas">>
StatusPhase       == <<"status", "phase">>
SpecHard          == <<"spec", "hard">>
StatusHard        == <<"status", "hard">>
SpecType          == <<"spec", "type">>
StatusLBIngress   == <<"status", "loadBalancer", "ingress">>
Secrets           == <<"secrets">>

Paths == {SpecReplicas, StatusAvailable, StatusPhase, SpecHard, StatusHard,
          SpecType, StatusLBIngress, Secrets}

\* openapi.Pluck(obj, path...): the value at path and whether it exists;
\* a missing field yields (nil, false).
Pluck(obj, path) == IF obj[path] # Nil THEN <<obj[path], TRUE>>
                                      ELSE <<Nil, FALSE>>

\* fmt.Sprintf("%v", v) for the values the awaiters format this way.
SprintV(v) == IF v = Nil THEN "<nil>" ELSE ValueOf(v)
=============================================================================
