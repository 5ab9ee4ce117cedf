------------------------------ MODULE PolicyCore ------------------------------
(***************************************************************************)
(* packages/policy-core: the evaluation of a policy file for one tool      *)
(* call, with a trace.  The state machine is the loop of                   *)
(* evaluatePolicyWithTrace over the rules in evaluation order.             *)
(***************************************************************************)
EXTENDS PolicyRules

CONSTANTS
    PolicyFiles,    \* the policy files that may be loaded
    Inputs,         \* the tool calls that may be made
    NoResult        \* the result before the evaluation has ended

(* What parsing a policy file guarantees of it, as far as the proofs need. *)
ASSUME PolicyFilesAssumption ==
    \A f \in PolicyFiles :
        /\ {"mode", "observeOnly", "default", "policies"} \subseteq DOMAIN f
        /\ Len(f.policies) \in Nat
        /\ DOMAIN f.policies = 1 .. Len(f.policies)
        /\ \A i \in DOMAIN f.policies :
              /\ f.policies[i].priority \in Nat
              /\ f.policies[i].decision \in Decision
        /\ f.default \in Decision \cup {NoDecision}

VARIABLES
    file,       \* the policy file
    input,      \* the tool call
    traced,     \* the rules traced so far, by position in the file, in order
    matched,    \* the rule that matched, or 0
    result      \* what evaluatePolicyWithTrace returned

vars == <<file, input, traced, matched, result>>

-----------------------------------------------------------------------------
(* evaluatePolicyWithTrace, one rule a step.                               *)

Untraced == DOMAIN file.policies \ {traced[i] : i \in DOMAIN traced}

Init ==
    /\ file \in PolicyFiles
    /\ input \in Inputs
    /\ traced = <<>>
    /\ matched = 0
    /\ result = NoResult

\* A loop without its break: a later match replaces an earlier one.
TraceRuleToTheEnd(r) ==
    /\ result = NoResult
    /\ r \in Untraced
    /\ \A q \in Untraced \ {r} : Before(file.policies, r, q)
    /\ traced' = Append(traced, r)
    /\ matched' = IF RuleMatches(file.policies[r], input) THEN r ELSE matched
    /\ UNCHANGED <<file, input, result>>

(* The next rule in evaluation order is traced; a match ends the loop.     *)
TraceRule(r) ==
    /\ result = NoResult
    /\ matched = 0
    /\ r \in Untraced
    /\ \A q \in Untraced \ {r} : Before(file.policies, r, q)
    /\ traced' = Append(traced, r)
    /\ matched' = IF RuleMatches(file.policies[r], input) THEN r ELSE 0
    /\ UNCHANGED <<file, input, result>>

\* A default that lets an unmatched call through.
TracedDecisionOpen(rule) ==
    IF rule # 0 THEN file.policies[rule].decision
    ELSE IF file.default # NoDecision THEN file.default
    ELSE "allow"

\* A lookup that forgets that a file may have no defaults.
TracedDecisionNoFallback(rule) ==
    IF rule # 0 THEN file.policies[rule].decision ELSE file.default

(* The decision of the matched rule, or the default one; this and the next *)
(* are evaluatePolicyWithTrace's own, beside those of evaluatePolicy.      *)
TracedDecision(rule) ==
    IF rule # 0 THEN file.policies[rule].decision
    ELSE IF file.default # NoDecision THEN file.default
    ELSE "block"

\* A copy that was made before files had observe_only.
AppliedDecisionOfMode(observed) ==
    IF file.mode = "observe" /\ observed \in {"block", "require_approval"} THEN "allow" ELSE observed

(* What is applied of it: a file that only observes refuses nothing.       *)
AppliedDecision(observed) ==
    IF (file.mode = "observe" \/ file.observeOnly) /\ observed \in {"block", "require_approval"}
    THEN "allow"
    ELSE observed

(* The loop has ended; the decision is computed.                           *)
Decide ==
    /\ result = NoResult
    /\ matched # 0 \/ Untraced = {}
    /\ result' = [matched  |-> matched,
                  observed |-> TracedDecision(matched),
                  decision |-> AppliedDecision(TracedDecision(matched))]
    /\ UNCHANGED <<file, input, traced, matched>>

Next == Decide \/ \E r \in DOMAIN file.policies : TraceRule(r)

Spec == Init /\ [][Next]_vars

-----------------------------------------------------------------------------
(* The order docs/policy-language.md gives, in its words: prioritised      *)
(* rules before the others, lower numbers first, and file order otherwise. *)
DocumentedOrder(policies, q, r) ==
    LET pq == policies[q].priority
        pr == policies[r].priority
    IN  \/ pq > 0 /\ pr = 0
        \/ pq > 0 /\ pr > 0 /\ pq < pr
        \/ pq = pr /\ q < r

(* The type of the state.                                                  *)
TypeOK ==
    /\ file \in PolicyFiles
    /\ input \in Inputs
    /\ traced \in Seq(DOMAIN file.policies)
    /\ matched \in DOMAIN file.policies \cup {0}
    /\ result \in [matched: DOMAIN file.policies \cup {0}, observed: Decision, decision: Decision]
                  \cup {NoResult}

(* First matching policy wins: the rule that decided matches, no rule that *)
(* matches comes before it in the documented order, and the default        *)
(* decides only where no rule matches.                                     *)
FirstMatchWins ==
    result # NoResult =>
        /\ result.matched # 0 => result.matched \in Matching(file, input)
        /\ \A q \in Matching(file, input) :
              /\ result.matched # 0
              /\ ~DocumentedOrder(file.policies, q, result.matched)

(* The trace shows exactly the rules the decision depends on, each once:   *)
(* the rules in the documented order, leaving none out, up to the one that *)
(* matched, none of the others matching.                                   *)
TraceStopsAtTheMatch ==
    /\ \A i, j \in DOMAIN traced :
          i < j => DocumentedOrder(file.policies, traced[i], traced[j])
    /\ \A i \in DOMAIN traced, r \in Untraced :
          DocumentedOrder(file.policies, traced[i], r)
    /\ \A i \in DOMAIN traced :
          RuleMatches(file.policies[traced[i]], input) <=> traced[i] = matched

(* Tracing does not change the decision: evaluatePolicyWithTrace and       *)
(* evaluatePolicy agree on every policy file and tool call.                *)
TraceAgreesWithEvaluate ==
    result # NoResult => result = EvaluatePolicy(file, input)

(* A call nobody wrote a rule for is refused, unless the file says         *)
(* otherwise or only observes; and observe mode never refuses, yet keeps   *)
(* the decision it did not apply.                                          *)
UnmatchedCallsAreRefused ==
    result # NoResult =>
        /\ (Matching(file, input) = {} /\ file.default = NoDecision) => result.observed = "block"
        /\ EnforcementMode(file) = "enforce" => result.decision = result.observed
        /\ EnforcementMode(file) = "observe" =>
              /\ result.decision \in Permits
              /\ result.observed \in Permits => result.decision = result.observed

(* A value its operator can be asked about: there is one, and it is of the *)
(* type the operator compares; NaN is not a number.                        *)
OfItsType(c, call) ==
    LET type == GetPathValue(call, c.field).type
    IN  /\ type # "undefined"
        /\ c.operator \in {"gt", "gte", "lt", "lte"} => type = "number"
        /\ c.operator \in {"contains", "not_contains"} => type = "string"

(* A condition on a field the call does not have, or has with a value of   *)
(* another type, never helps a rule to match, negative operators included: *)
(* the rule that matched has no such condition in its all group, and its   *)
(* any group holds without those that are.                                 *)
MissingFieldsNeverMatch ==
    matched # 0 =>
        LET conditions == file.policies[matched].conditions
        IN  /\ \A c \in conditions.all : OfItsType(c, input)
            /\ conditions.any # {} =>
                  \E c \in conditions.any : OfItsType(c, input) /\ ConditionPasses(c, input)

(* With priorities that all differ, the order of the rules in the file     *)
(* makes no difference to the decision.                                    *)
PrioritiesFixTheOrder ==
    LET n == Len(file.policies)
        distinct == /\ \A i \in 1 .. n : file.policies[i].priority # NoPriority
                    /\ \A i, j \in 1 .. n : file.policies[i].priority = file.policies[j].priority => i = j
        shuffled(p) == [file EXCEPT !.policies = [i \in 1 .. n |-> file.policies[p[i]]]]
        bijections == {p \in [1 .. n -> 1 .. n] : \A i, j \in 1 .. n : p[i] = p[j] => i = j}
    IN  (result # NoResult /\ distinct) =>
            \A p \in bijections : EvaluatePolicy(shuffled(p), input).decision = result.decision

=============================================================================
