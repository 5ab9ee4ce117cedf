------------------------------ MODULE PolicyRules ------------------------------
(***************************************************************************)
(* packages/policy-core: how one rule matches a tool call, the order in    *)
(* which the rules of a policy file are tried, and evaluatePolicy, which   *)
(* finds the first rule that matches.  A policy file is a record of its    *)
(* mode, observeOnly, default decision and rules, in file order.           *)
(***************************************************************************)
EXTENDS PolicyConditions, PolicyDecision

CONSTANT NoDecision     \* defaults.decision where the file has none

Unset == "unset"        \* match.agent or match.tool where the rule has none
NoPriority == 0         \* priority where the rule has none: a priority is positive

(* traceMatchChecks, traceConditions: the rule's matched flag.             *)
RuleMatches(rule, call) ==
    /\ rule.agent \in {Unset, call.agent}
    /\ rule.tool \in {Unset, "*", call.tool}
    /\ ConditionsPass(rule.conditions, call)

(* The comparator of getPoliciesInEvaluationOrder, on positions in the     *)
(* file: negative where the left rule comes first.                         *)
CompareRules(policies, left, right) ==
    LET l == policies[left].priority
        r == policies[right].priority
    IN  IF l # NoPriority /\ r # NoPriority
        THEN IF l = r THEN left - right ELSE l - r
        ELSE IF l # NoPriority THEN -1
        ELSE IF r # NoPriority THEN 1
        ELSE left - right

\* The comparator without its first case: file order inside a class.
BeforeByClass(policies, left, right) ==
    LET l == policies[left].priority
        r == policies[right].priority
    IN  \/ l # NoPriority /\ r = NoPriority
        \/ (l = NoPriority <=> r = NoPriority) /\ left < right

Before(policies, left, right) == CompareRules(policies, left, right) < 0

EnforcementMode(f) == IF f.mode = "observe" \/ f.observeOnly THEN "observe" ELSE "enforce"

(* The decision of the matched rule, or the default one.                   *)
ObservedDecision(f, rule) ==
    IF rule # 0 THEN f.policies[rule].decision
    ELSE IF f.default # NoDecision THEN f.default
    ELSE "block"

Evaluation(f, rule) ==
    [matched  |-> rule,
     observed |-> ObservedDecision(f, rule),
     decision |-> EffectiveDecision(EnforcementMode(f), ObservedDecision(f, rule))]

Matching(f, call) == {r \in DOMAIN f.policies : RuleMatches(f.policies[r], call)}

(* evaluatePolicy: find over the rules in evaluation order.                *)
EvaluatePolicy(f, call) ==
    Evaluation(f,
        IF Matching(f, call) = {} THEN 0
        ELSE CHOOSE r \in Matching(f, call) :
                \A q \in Matching(f, call) \ {r} : Before(f.policies, r, q))

=============================================================================
