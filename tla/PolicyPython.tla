----------------------------- MODULE PolicyPython -----------------------------
(***************************************************************************)
(* packages/sdk-python, policy.py: the same policy language evaluated by   *)
(* the Python SDK.  The tool calls and rules are those of PolicyRules, as  *)
(* Python holds them: null and what is missing are both None, a boolean    *)
(* is a kind of int, and str() of a boolean is capitalised.                *)
(***************************************************************************)
EXTENDS PolicyRules

IsNone(value) == value.type \in {"undefined", "null"}

Numeric(value) == value.type \in {"number", "boolean"}     \* isinstance(value, int) or float

(* _get_path_value: None where the path leaves the dicts, where a key is   *)
(* missing, and where the value found is null.                             *)
PythonPathValue(call, path) ==
    LET root == CASE path[1] = "args" -> call.args
                  [] path[1] = "context" -> call.context
                  [] OTHER -> Null
        follow(current, segment) ==
            IF current.type = "object" /\ segment \in DOMAIN current.props
            THEN current.props[segment]
            ELSE Null
        value[n \in 1 .. Len(path)] ==
            IF n = 1 THEN root ELSE follow(value[n - 1], path[n])
    IN  IF Len(path) = 1 THEN Null ELSE value[Len(path)]

(* ==: True equals 1, False equals 0, NaN equals nothing.                  *)
PythonEqual(a, b) ==
    IF Numeric(a) /\ Numeric(b) THEN a.number = b.number ELSE a = b /\ a.type # "nan"

(* str(value) of a condition's value; a number's is taken to be Node's.    *)
PythonText(value) ==
    IF value.type # "boolean" THEN value.text
    ELSE IF value.number = 1 THEN <<"True">> ELSE <<"False">>

\* An evaluation in which None is a value like any other.
PythonEvaluateConditionNone(condition, actual) ==
    LET expected == condition.value
    IN  CASE condition.operator = "eq"  -> PythonEqual(actual, expected)
          [] condition.operator = "neq" -> ~PythonEqual(actual, expected)
          [] condition.operator = "gt"  -> BothNumbers(actual, expected) /\ actual.number > expected.number
          [] condition.operator = "gte" -> BothNumbers(actual, expected) /\ actual.number >= expected.number
          [] condition.operator = "lt"  -> BothNumbers(actual, expected) /\ actual.number < expected.number
          [] condition.operator = "lte" -> BothNumbers(actual, expected) /\ actual.number <= expected.number
          [] condition.operator = "contains" ->
                 actual.type = "string" /\ Includes(actual.text, PythonText(expected))
          [] condition.operator = "not_contains" ->
                 actual.type = "string" /\ ~Includes(actual.text, PythonText(expected))

(* _evaluate_condition and _compare_numbers, in which a boolean is not a   *)
(* number: None fails every operator.                                      *)
PythonEvaluateCondition(condition, actual) ==
    LET expected == condition.value
    IN  /\ ~IsNone(actual)
        /\ CASE condition.operator = "eq"  -> PythonEqual(actual, expected)
             [] condition.operator = "neq" -> ~PythonEqual(actual, expected)
             [] condition.operator = "gt"  -> BothNumbers(actual, expected) /\ actual.number > expected.number
             [] condition.operator = "gte" -> BothNumbers(actual, expected) /\ actual.number >= expected.number
             [] condition.operator = "lt"  -> BothNumbers(actual, expected) /\ actual.number < expected.number
             [] condition.operator = "lte" -> BothNumbers(actual, expected) /\ actual.number <= expected.number
             [] condition.operator = "contains" ->
                    actual.type = "string" /\ Includes(actual.text, PythonText(expected))
             [] condition.operator = "not_contains" ->
                    actual.type = "string" /\ ~Includes(actual.text, PythonText(expected))

(* _conditions_match.                                                      *)
PythonConditionsMatch(conditions, call) ==
    LET passes(c) == PythonEvaluateCondition(c, PythonPathValue(call, c.field))
    IN  /\ \A c \in conditions.all : passes(c)
        /\ conditions.any = {} \/ \E c \in conditions.any : passes(c)

(* _policy_matches.                                                        *)
PythonPolicyMatches(rule, call) ==
    /\ rule.agent # Unset => rule.agent = call.agent
    /\ rule.tool \notin {Unset, "*"} => rule.tool = call.tool
    /\ PythonConditionsMatch(rule.conditions, call)

(* The sort key of _get_policies_in_evaluation_order, compared field by    *)
(* field: no priority, the priority, the position in the file.             *)
PythonBefore(policies, q, r) ==
    LET key(i) == <<IF policies[i].priority = NoPriority THEN 1 ELSE 0, policies[i].priority, i>>
    IN  \E n \in 1 .. 3 : /\ key(q)[n] < key(r)[n]
                          /\ \A m \in 1 .. n - 1 : key(q)[m] = key(r)[m]

(* evaluate_policy: the first rule of the sorted ones that matches.        *)
PythonEvaluatePolicy(f, call) ==
    LET matching == {r \in DOMAIN f.policies : PythonPolicyMatches(f.policies[r], call)}
        matched == IF matching = {} THEN 0
                   ELSE CHOOSE r \in matching :
                           \A q \in matching \ {r} : PythonBefore(f.policies, r, q)
        observed == IF matched # 0 THEN f.policies[matched].decision
                    ELSE IF f.default # NoDecision THEN f.default
                    ELSE "block"
        observing == f.mode = "observe" \/ f.observeOnly
    IN  [matched  |-> matched,
         observed |-> observed,
         decision |-> IF observing /\ observed \in {"block", "require_approval"}
                      THEN "allow" ELSE observed]

-----------------------------------------------------------------------------
(* Where the two SDKs are meant to agree, and do.  A condition is portable *)
(* on a call unless it finds a null there, compares a boolean with a       *)
(* number, or looks for the text of a boolean or of a number.              *)
Portable(condition, call) ==
    LET actual == GetPathValue(call, condition.field)
    IN  /\ actual.type # "null"
        /\ (condition.operator \in {"eq", "neq"} /\ Numeric(actual) /\ Numeric(condition.value)) =>
              actual.type = condition.value.type
        /\ condition.operator \in {"contains", "not_contains"} => condition.value.type = "string"

PortableCall(f, call) ==
    \A r \in DOMAIN f.policies :
        \A c \in f.policies[r].conditions.all \cup f.policies[r].conditions.any : Portable(c, call)

=============================================================================
