---------------------------- MODULE PolicyDocument ----------------------------
(***************************************************************************)
(* A policy file as it is read: a JSON value, before either SDK has looked *)
(* at it.  What the zod schemas of packages/policy-core accept, what       *)
(* parse_policy_yaml of packages/sdk-python accepts, and the policy file   *)
(* (as PolicyRules has it) that both make of a document they accept.       *)
(***************************************************************************)
EXTENDS PolicyPython

List(items) == Json("array", 0, <<"list">>, items)      \* props holds the elements
Float(n)    == Json("float", n, <<"float">>, NoProps)   \* an integer written with .0, as a
                                                        \* version or a priority

Get(object, key) == IF key \in DOMAIN object.props THEN object.props[key] ELSE Undefined

Items(list) == {list.props[i] : i \in DOMAIN list.props}

Missing(value)        == value.type = "undefined"
NonEmptyText(value)   == value.type = "string" /\ value.text # <<>>
IsWord(value, words)  == NonEmptyText(value) /\ value.text[1] \in words
NonEmptyList(value)   == value.type = "array" /\ DOMAIN value.props # {}
Operator              == {"eq", "neq", "gt", "gte", "lt", "lte", "contains", "not_contains"}

-----------------------------------------------------------------------------
(* policy-core.  A key a strict schema does not name is an error, and so is *)
(* null where a field is optional; a condition's unknown keys are dropped.  *)

OnlyKeys(object, keys) == object.type = "object" /\ DOMAIN object.props \subseteq keys

NodeCondition(c) ==
    /\ c.type = "object"
    /\ NonEmptyText(Get(c, "field"))
    /\ IsWord(Get(c, "operator"), Operator)
    /\ Get(c, "value").type \in {"string", "number", "boolean"}

NodeConditionList(list) == NonEmptyList(list) /\ \A c \in Items(list) : NodeCondition(c)

NodeConditions(conditions) ==
    \/ NodeConditionList(conditions)
    \/ /\ OnlyKeys(conditions, {"all", "any"})
       /\ DOMAIN conditions.props # {}
       /\ \A group \in DOMAIN conditions.props : NodeConditionList(conditions.props[group])

\* A rule schema without .strict() on it and on match.
NodeRuleLoose(rule) ==
    LET match == Get(rule, "match")
    IN  /\ rule.type = "object"
        /\ NonEmptyText(Get(rule, "id"))
        /\ match.type = "object"
        /\ Missing(Get(match, "agent")) \/ NonEmptyText(Get(match, "agent"))
        /\ Missing(Get(match, "tool")) \/ NonEmptyText(Get(match, "tool"))
        /\ Missing(Get(rule, "conditions")) \/ NodeConditions(Get(rule, "conditions"))
        /\ IsWord(Get(rule, "decision"), Decision)

(* policyRuleSchema: an integer written 1.0 is an integer to JavaScript.   *)
NodeRule(rule) ==
    LET match == Get(rule, "match")
        priority == Get(rule, "priority")
    IN  /\ OnlyKeys(rule, {"id", "description", "priority", "match", "conditions", "decision"})
        /\ NonEmptyText(Get(rule, "id"))
        /\ Get(rule, "description").type \in {"undefined", "string"}
        /\ Missing(priority) \/ (priority.type \in {"number", "float"} /\ priority.number > 0)
        /\ OnlyKeys(match, {"agent", "tool"})
        /\ \A key \in DOMAIN match.props : NonEmptyText(match.props[key])
        /\ Missing(Get(rule, "conditions")) \/ NodeConditions(Get(rule, "conditions"))
        /\ IsWord(Get(rule, "decision"), Decision)
        /\ DOMAIN match.props # {} \/ ~Missing(Get(rule, "conditions"))

NodeAccepts(doc) ==
    LET defaults == Get(doc, "defaults")
    IN  /\ OnlyKeys(doc, {"version", "mode", "observe_only", "defaults", "policies"})
        /\ Get(doc, "version").type \in {"number", "float"} /\ Get(doc, "version").number = 1
        /\ Missing(Get(doc, "mode")) \/ IsWord(Get(doc, "mode"), Mode)
        /\ Get(doc, "observe_only").type \in {"undefined", "boolean"}
        /\ \/ Missing(defaults)
           \/ /\ OnlyKeys(defaults, {"decision"})
              /\ \A key \in DOMAIN defaults.props : IsWord(defaults.props[key], Decision)
        /\ Get(doc, "policies").type = "array"
        /\ \A rule \in Items(Get(doc, "policies")) : NodeRule(rule)

-----------------------------------------------------------------------------
(* sdk-python.  Fields are looked up one by one, so unknown keys pass; a    *)
(* null is a field that is not there; True is an int that equals 1.         *)

PythonInt(value) == value.type \in {"number", "boolean"}

PythonCondition(c) ==
    /\ c.type = "object"
    /\ NonEmptyText(Get(c, "field"))
    /\ IsWord(Get(c, "operator"), Operator)
    /\ Get(c, "value").type \in {"string", "number", "nan", "boolean"}

PythonConditionList(list) == NonEmptyList(list) /\ \A c \in Items(list) : PythonCondition(c)

(* _parse_conditions: a group's key that is there must hold a list.        *)
PythonConditions(conditions) ==
    \/ IsNone(conditions)
    \/ PythonConditionList(conditions)
    \/ /\ conditions.type = "object"
       /\ DOMAIN conditions.props \cap {"all", "any"} # {}
       /\ \A group \in DOMAIN conditions.props \cap {"all", "any"} :
             PythonConditionList(conditions.props[group])

(* _parse_policy_rule.                                                     *)
PythonRule(rule) ==
    LET match == Get(rule, "match")
        priority == Get(rule, "priority")
        named(key) == ~IsNone(Get(match, key))
    IN  /\ rule.type = "object"
        /\ NonEmptyText(Get(rule, "id"))
        /\ match.type = "object"
        /\ \A key \in {"agent", "tool"} : named(key) => NonEmptyText(Get(match, key))
        /\ named("agent") \/ named("tool") \/ ~IsNone(Get(rule, "conditions"))
        /\ IsWord(Get(rule, "decision"), Decision)
        /\ IsNone(priority) \/ (PythonInt(priority) /\ priority.number > 0)
        /\ Get(rule, "description").type \in {"undefined", "null", "string"}
        /\ PythonConditions(Get(rule, "conditions"))

(* parse_policy_yaml.                                                      *)
PythonAccepts(doc) ==
    LET defaults == Get(doc, "defaults")
    IN  /\ doc.type = "object"
        /\ Get(doc, "version").type \in {"number", "float", "boolean"} /\ Get(doc, "version").number = 1
        /\ Get(doc, "policies").type = "array"
        /\ \/ IsNone(defaults)
           \/ /\ defaults.type = "object"
              /\ IsNone(Get(defaults, "decision")) \/ IsWord(Get(defaults, "decision"), Decision)
        /\ IsNone(Get(doc, "mode")) \/ IsWord(Get(doc, "mode"), Mode)
        /\ Get(doc, "observe_only").type \in {"undefined", "boolean"}
        /\ \A rule \in Items(Get(doc, "policies")) : PythonRule(rule)

-----------------------------------------------------------------------------
(* The policy file of a document that was accepted.                        *)

WordOr(value, default) == IF IsNone(value) THEN default ELSE value.text[1]

(* A condition of PolicyRules has its field as a path and its value.       *)
LoadCondition(c) ==
    [field |-> Get(c, "field").text, operator |-> Get(c, "operator").text[1], value |-> Get(c, "value")]

LoadConditions(conditions) ==
    LET group(key) == IF IsNone(Get(conditions, key)) THEN {}
                      ELSE {LoadCondition(c) : c \in Items(Get(conditions, key))}
    IN  CASE IsNone(conditions) -> NoConditions
          [] conditions.type = "array" ->
                [all |-> {LoadCondition(c) : c \in Items(conditions)}, any |-> {}]
          [] conditions.type = "object" -> [all |-> group("all"), any |-> group("any")]

LoadRule(rule) ==
    [id         |-> WordOr(Get(rule, "id"), Unset),
     priority   |-> IF IsNone(Get(rule, "priority")) THEN NoPriority ELSE Get(rule, "priority").number,
     agent      |-> WordOr(Get(Get(rule, "match"), "agent"), Unset),
     tool       |-> WordOr(Get(Get(rule, "match"), "tool"), Unset),
     conditions |-> LoadConditions(Get(rule, "conditions")),
     decision   |-> Get(rule, "decision").text[1]]

LoadPolicy(doc) ==
    LET rules == Get(doc, "policies").props
    IN  [mode        |-> WordOr(Get(doc, "mode"), "enforce"),
         observeOnly |-> Get(doc, "observe_only") = Boolean(TRUE),
         default     |-> IF IsNone(Get(doc, "defaults")) THEN NoDecision
                         ELSE WordOr(Get(Get(doc, "defaults"), "decision"), NoDecision),
         policies    |-> [i \in DOMAIN rules |-> LoadRule(rules[i])]]

=============================================================================
