--------------------------- MODULE PolicyConditions ---------------------------
(***************************************************************************)
(* The conditions of a policy rule, in packages/policy-core: the value a   *)
(* dot path finds in a tool call's input, one condition on that value, and *)
(* the all and any groups.                                                 *)
(*                                                                         *)
(* A JSON value is a record of one shape for every type: its typeof (with  *)
(* "null", "nan" and "array" told apart), its number, its text (what       *)
(* String() makes of it, a sequence of characters) and its own properties. *)
(***************************************************************************)
EXTENDS Integers, Sequences

Json(type, number, text, props) ==
    [type |-> type, number |-> number, text |-> text, props |-> props]

NoProps        == [name \in {} |-> 0]
Undefined      == Json("undefined", 0, <<"undefined">>, NoProps)
Null           == Json("null", 0, <<"null">>, NoProps)
NaN            == Json("nan", 0, <<"NaN">>, NoProps)
Number(n, txt) == Json("number", n, txt, NoProps)
Text(txt)      == Json("string", 0, txt, NoProps)
Boolean(b)     == Json("boolean", IF b THEN 1 ELSE 0, <<IF b THEN "true" ELSE "false">>, NoProps)
Array(txt)     == Json("array", 0, txt, NoProps)
Object(props)  == Json("object", 0, <<"object">>, props)

IsRecord(value) == value.type = "object"

(* getPathValue: path is the condition's field split at the dots, and value  *)
(* what is found after each of its segments.  A path names a property of    *)
(* args or context; only own properties of plain objects are followed, and  *)
(* a path that leaves them finds undefined.                                 *)
GetPathValue(input, path) ==
    LET root == CASE path[1] = "args" -> input.args
                  [] path[1] = "context" -> input.context
                  [] OTHER -> Undefined
        follow(current, segment) ==
            IF IsRecord(current) /\ segment \in DOMAIN current.props
            THEN current.props[segment]
            ELSE Undefined
        value[n \in 1 .. Len(path)] ==
            IF n = 1 THEN root ELSE follow(value[n - 1], path[n])
    IN  IF Len(path) = 1 THEN Undefined ELSE value[Len(path)]

StrictlyEqual(a, b) == a = b /\ a.type # "nan"      \* ===, where b is a primitive

(* compareNumbers: both must be numbers, and NaN is not one.               *)
BothNumbers(a, b) == a.type = "number" /\ b.type = "number"

Includes(text, part) ==
    \E i \in 0 .. Len(text) - Len(part) : SubSeq(text, i + 1, i + Len(part)) = part

(* evaluateCondition: an undefined value fails every operator, the         *)
(* negative ones included.                                                 *)
EvaluateCondition(condition, actual) ==
    LET expected == condition.value
    IN  /\ actual.type # "undefined"
        /\ CASE condition.operator = "eq"  -> StrictlyEqual(actual, expected)
             [] condition.operator = "neq" -> ~StrictlyEqual(actual, expected)
             [] condition.operator = "gt"  -> BothNumbers(actual, expected) /\ actual.number > expected.number
             [] condition.operator = "gte" -> BothNumbers(actual, expected) /\ actual.number >= expected.number
             [] condition.operator = "lt"  -> BothNumbers(actual, expected) /\ actual.number < expected.number
             [] condition.operator = "lte" -> BothNumbers(actual, expected) /\ actual.number <= expected.number
             [] condition.operator = "contains" ->
                    actual.type = "string" /\ Includes(actual.text, expected.text)
             [] condition.operator = "not_contains" ->
                    actual.type = "string" /\ ~Includes(actual.text, expected.text)

\* A neq that is decided before a missing value is.
ConditionPassesNegating(condition, input) ==
    LET actual == GetPathValue(input, condition.field)
    IN  IF condition.operator = "neq" THEN ~StrictlyEqual(actual, condition.value)
        ELSE EvaluateCondition(condition, actual)

ConditionPasses(condition, input) ==
    EvaluateCondition(condition, GetPathValue(input, condition.field))

(* traceConditions and traceConditionGroup.  A flat list of conditions is   *)
(* an all group; a group that is absent is the empty set, which no policy   *)
(* file can write.  Both groups must pass.                                  *)
ConditionsPass(conditions, input) ==
    /\ \A condition \in conditions.all : ConditionPasses(condition, input)
    /\ \/ conditions.any = {}
       \/ \E condition \in conditions.any : ConditionPasses(condition, input)

NoConditions == [all |-> {}, any |-> {}]

=============================================================================
