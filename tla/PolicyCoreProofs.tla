--------------------------- MODULE PolicyCoreProofs ---------------------------
(***************************************************************************)
(* Theorems about PolicyCore, for every set of policy files of any length, *)
(* any priorities and any tool calls.                                      *)
(*                                                                         *)
(* The comparator is shown to be the documented order and a strict total   *)
(* order; LoopInv says what the evaluation loop knows after every rule;    *)
(* what the decision is follows from the two.                              *)
(*                                                                         *)
(* That the Python SDK decides alike is shown of one file and one call:    *)
(* along a path both find the same values (by the least segment where they *)
(* would not), so a portable condition holds for both or for neither, the  *)
(* same rules match, and the same one comes first.                         *)
(***************************************************************************)
EXTENDS PolicyParity, SequenceTheorems, WellFoundedInduction, TLAPS

(* The library's facts about finite sets, under a name of their own.       *)
FS == INSTANCE FiniteSetTheorems

-----------------------------------------------------------------------------
(* The evaluation order.                                                   *)

Prioritised(policies) == \A i \in DOMAIN policies : policies[i].priority \in Nat

(* The comparator orders rules as docs/policy-language.md says.            *)
LEMMA ComparatorIsDocumented ==
    ASSUME NEW policies, Prioritised(policies), DOMAIN policies \subseteq Nat,
           NEW q \in DOMAIN policies, NEW r \in DOMAIN policies
    PROVE  Before(policies, q, r) <=> DocumentedOrder(policies, q, r)
  BY DEF Prioritised, Before, CompareRules, NoPriority, DocumentedOrder

(* It is a strict total order: no rule comes before itself, two different  *)
(* rules have an order, and the order does not run in circles.  So sorting *)
(* with it has one outcome.                                                *)
THEOREM EvaluationOrderIsTotal ==
    ASSUME NEW policies, Prioritised(policies), DOMAIN policies \subseteq Nat,
           NEW p \in DOMAIN policies, NEW q \in DOMAIN policies, NEW r \in DOMAIN policies
    PROVE  /\ ~Before(policies, p, p)
           /\ p # q => (Before(policies, p, q) <=> ~Before(policies, q, p))
           /\ Before(policies, p, q) /\ Before(policies, q, r) => Before(policies, p, r)
  BY DEF Prioritised, Before, CompareRules, NoPriority

-----------------------------------------------------------------------------
(* The type of the state.                                                  *)

(* What a parsed policy file guarantees.                                   *)
LEMMA FileFacts ==
    ASSUME NEW f \in PolicyFiles
    PROVE  /\ Prioritised(f.policies)
           /\ DOMAIN f.policies \subseteq Nat \ {0}
           /\ \A r \in DOMAIN f.policies \cup {0} : ObservedDecision(f, r) \in Decision
  <1>1. Prioritised(f.policies)
    BY PolicyFilesAssumption DEF Prioritised
  <1>2. DOMAIN f.policies \subseteq Nat \ {0}
    BY PolicyFilesAssumption
  <1>3. ASSUME NEW r \in DOMAIN f.policies \cup {0}
        PROVE  ObservedDecision(f, r) \in Decision
    BY PolicyFilesAssumption, <1>2 DEF ObservedDecision, Decision
  <1> QED
    BY <1>1, <1>2, <1>3

(* An evaluation is a rule, or none, and two decisions.                    *)
LEMMA EvaluationType ==
    ASSUME NEW f \in PolicyFiles, NEW r \in DOMAIN f.policies \cup {0}
    PROVE  Evaluation(f, r) \in
               [matched: DOMAIN f.policies \cup {0}, observed: Decision, decision: Decision]
  <1>1. ObservedDecision(f, r) \in Decision
    BY FileFacts
  <1>2. EffectiveDecision(EnforcementMode(f), ObservedDecision(f, r)) \in Decision
    BY <1>1 DEF EffectiveDecision, Decision
  <1> QED
    BY <1>1, <1>2 DEF Evaluation

(* The decision evaluatePolicyWithTrace computes is the one evaluatePolicy *)
(* computes of the same rule.                                              *)
LEMMA DecideEvaluates == Decide => result' = Evaluation(file, matched)
  BY DEF Decide, TracedDecision, AppliedDecision,
         Evaluation, ObservedDecision, EffectiveDecision, EnforcementMode

(* The initial states have their type.                                     *)
LEMMA InitType == Init => TypeOK
  <1> SUFFICES ASSUME Init PROVE TypeOK
    OBVIOUS
  <1>1. <<>> \in Seq(DOMAIN file.policies)
    BY EmptySeq
  <1> QED
    BY <1>1 DEF Init, TypeOK

(* Every step keeps the type.                                              *)
LEMMA TypeStep == TypeOK /\ [Next]_vars => TypeOK'
  <1> SUFFICES ASSUME TypeOK, [Next]_vars PROVE TypeOK'
    OBVIOUS
  <1>1. CASE Decide
    <2>1. result' \in [matched: DOMAIN file.policies \cup {0}, observed: Decision, decision: Decision]
      BY <1>1, DecideEvaluates, EvaluationType DEF TypeOK
    <2> QED
      BY <1>1, <2>1 DEF Decide, TypeOK
  <1>2. ASSUME NEW r \in DOMAIN file.policies, TraceRule(r)
        PROVE  TypeOK'
    <2>1. traced' \in Seq(DOMAIN file.policies)
      BY <1>2, AppendProperties DEF TraceRule, TypeOK
    <2> QED
      BY <1>2, <2>1 DEF TraceRule, TypeOK
  <1>3. CASE UNCHANGED vars
    BY <1>3 DEF vars, TypeOK
  <1> QED
    BY <1>1, <1>2, <1>3 DEF Next

(* The state always has its type: in particular every evaluation gives one *)
(* of the four decisions, with or without a default in the file.           *)
THEOREM TypeCorrect == Spec => []TypeOK
  BY InitType, TypeStep, PTL DEF Spec

-----------------------------------------------------------------------------
(* The evaluation loop.                                                    *)

Traced == {traced[i] : i \in DOMAIN traced}

(* After every rule: the traced rules are in order and come before all the *)
(* others; none of them matches but the one that ended the loop; and the   *)
(* decision is taken from that rule, or from no rule when all were traced. *)
LoopInv ==
    /\ \A i, j \in DOMAIN traced : i < j => Before(file.policies, traced[i], traced[j])
    /\ \A r \in Traced, q \in Untraced : Before(file.policies, r, q)
    /\ \A r \in Traced : RuleMatches(file.policies[r], input) <=> r = matched
    /\ matched # 0 => matched \in Traced
    /\ result # NoResult =>
          /\ result = Evaluation(file, matched)
          /\ matched # 0 \/ Untraced = {}

(* Before the first rule, nothing is traced.                               *)
LEMMA LoopInit == Init => LoopInv
  BY DEF Init, LoopInv, Traced

(* Every step keeps LoopInv.                                               *)
LEMMA LoopStep == TypeOK /\ LoopInv /\ [Next]_vars => LoopInv'
  <1> SUFFICES ASSUME TypeOK, LoopInv, [Next]_vars PROVE LoopInv'
    OBVIOUS
  <1>1. CASE Decide
    BY <1>1, DecideEvaluates DEF Decide, LoopInv, Traced, Untraced
  <1>2. ASSUME NEW r \in DOMAIN file.policies, TraceRule(r)
        PROVE  LoopInv'
    <2>1. /\ result = NoResult /\ result' = result
          /\ matched = 0
          /\ r \in Untraced
          /\ \A q \in Untraced \ {r} : Before(file.policies, r, q)
          /\ traced' = Append(traced, r)
          /\ matched' = IF RuleMatches(file.policies[r], input) THEN r ELSE 0
          /\ UNCHANGED <<file, input>>
      BY <1>2 DEF TraceRule
    <2>2. r # 0
      BY FileFacts DEF TypeOK
    <2>3. /\ DOMAIN traced = 1 .. Len(traced)
          /\ DOMAIN traced' = 1 .. Len(traced) + 1
          /\ \A i \in 1 .. Len(traced) : traced'[i] = traced[i]
          /\ traced'[Len(traced) + 1] = r
          /\ Len(traced) \in Nat
      <3>1. traced \in Seq(DOMAIN file.policies)
        BY DEF TypeOK
      <3> QED
        BY <2>1, <3>1, AppendProperties, LenProperties
    <2>4. Traced' = Traced \cup {r}
      BY <2>3 DEF Traced
    <2>5. Untraced' = Untraced \ {r}
      BY <2>1, <2>4 DEF Untraced, Traced
    <2>6. \A t \in Traced' : \A q \in Untraced' : Before(file.policies, t, q)
      BY <2>1, <2>4, <2>5 DEF LoopInv
    <2>7. Traced \subseteq DOMAIN file.policies /\ 0 \notin Traced
      <3>1. traced \in [1 .. Len(traced) -> DOMAIN file.policies]
        BY LenProperties DEF TypeOK
      <3>2. 0 \notin DOMAIN file.policies
        BY FileFacts DEF TypeOK
      <3> QED
        BY <3>1, <3>2 DEF Traced
    <2>8. r \notin Traced
      BY <2>1 DEF Untraced, Traced
    <2>9. \A t \in Traced' : RuleMatches(file.policies[t], input) <=> t = matched'
      BY <2>1, <2>2, <2>4, <2>7, <2>8 DEF LoopInv
    <2>10. matched' # 0 => matched' \in Traced'
      BY <2>1, <2>4
    <2>11. ASSUME NEW i \in DOMAIN traced', NEW j \in DOMAIN traced', i < j
           PROVE  Before(file.policies, traced'[i], traced'[j])
      <3>1. i \in DOMAIN traced /\ traced'[i] = traced[i] /\ traced[i] \in Traced
        BY <2>3, <2>11 DEF Traced
      <3>2. CASE j \in DOMAIN traced
        BY <2>3, <2>11, <3>1, <3>2 DEF LoopInv
      <3>3. CASE j \notin DOMAIN traced
        <4>1. traced'[j] = r
          BY <2>3, <3>3
        <4> QED
          BY <2>1, <3>1, <4>1 DEF LoopInv
      <3> QED
        BY <3>2, <3>3
    <2> QED
      BY <2>1, <2>6, <2>9, <2>10, <2>11 DEF LoopInv
  <1>3. CASE UNCHANGED vars
    BY <1>3 DEF vars, LoopInv, Traced, Untraced
  <1> QED
    BY <1>1, <1>2, <1>3 DEF Next

(* LoopInv is an invariant.                                                *)
LEMMA LoopInvariant == Spec => [](TypeOK /\ LoopInv)
  <1>1. Init => TypeOK /\ LoopInv
    BY InitType, LoopInit
  <1>2. TypeOK /\ LoopInv /\ [Next]_vars => (TypeOK /\ LoopInv)'
    BY TypeStep, LoopStep
  <1> QED
    BY <1>1, <1>2, PTL DEF Spec

(* What the loop has found when it ends: the only rule that matches and    *)
(* comes before every other rule that matches, or that no rule matches.    *)
LEMMA Outcome ==
    ASSUME TypeOK, LoopInv, result # NoResult
    PROVE  /\ matched # 0 =>
                 /\ matched \in Matching(file, input)
                 /\ \A q \in Matching(file, input) \ {matched} : Before(file.policies, matched, q)
           /\ matched = 0 => Matching(file, input) = {}
  <1>1. \A q \in DOMAIN file.policies : q \in Traced \/ q \in Untraced
    BY DEF Traced, Untraced
  <1>2. 0 \notin DOMAIN file.policies
    BY FileFacts DEF TypeOK
  <1>3. ASSUME NEW q \in Matching(file, input)
        PROVE  q = matched \/ (matched # 0 /\ Before(file.policies, matched, q))
    BY <1>1, <1>3 DEF Matching, LoopInv
  <1>4. matched # 0 => matched \in Matching(file, input)
    BY DEF Matching, LoopInv, TypeOK
  <1>5. 0 \notin Matching(file, input)
    BY <1>2 DEF Matching
  <1> QED
    BY <1>3, <1>4, <1>5

(* First matching policy wins, in the documented order, for policy files   *)
(* of any length and any priorities, ties and missing priorities included. *)
THEOREM FirstMatchDecides == Spec => []FirstMatchWins
  <1>1. ASSUME TypeOK, LoopInv, result # NoResult
        PROVE  FirstMatchWins
    <2>1. result.matched = matched
      BY <1>1 DEF LoopInv, Evaluation
    <2>2. /\ Prioritised(file.policies)
          /\ DOMAIN file.policies \subseteq Nat
      BY <1>1, FileFacts DEF TypeOK
    <2>3. ASSUME NEW q \in Matching(file, input), matched # 0
          PROVE  ~DocumentedOrder(file.policies, q, matched)
      <3>1. q \in DOMAIN file.policies /\ matched \in DOMAIN file.policies
        BY <1>1, <2>3 DEF Matching, TypeOK
      <3>2. ~Before(file.policies, q, matched)
        BY <1>1, <2>2, <2>3, <3>1, Outcome, EvaluationOrderIsTotal
      <3> QED
        BY <2>2, <3>1, <3>2, ComparatorIsDocumented
    <2> QED
      BY <1>1, <2>1, <2>3, Outcome DEF FirstMatchWins
  <1>2. TypeOK /\ LoopInv => FirstMatchWins
    BY <1>1 DEF FirstMatchWins
  <1> QED
    BY <1>2, LoopInvariant, PTL

(* The first rule in a file is the one evaluatePolicy chooses.             *)
LEMMA TheFirstDecides ==
    ASSUME NEW f, NEW call, Prioritised(f.policies), DOMAIN f.policies \subseteq Nat,
           NEW r \in Matching(f, call),
           \A q \in Matching(f, call) \ {r} : Before(f.policies, r, q)
    PROVE  EvaluatePolicy(f, call) = Evaluation(f, r)
  <1> DEFINE First(q) == /\ q \in Matching(f, call)
                         /\ \A p \in Matching(f, call) \ {q} : Before(f.policies, q, p)
  <1>1. First(r)
    OBVIOUS
  <1>2. ASSUME NEW q, First(q)
        PROVE  q = r
    <2>1. q \in DOMAIN f.policies /\ r \in DOMAIN f.policies
      BY <1>2 DEF Matching
    <2> QED
      BY <1>2, <2>1, EvaluationOrderIsTotal
  <1>3. (CHOOSE q \in Matching(f, call) :
            \A p \in Matching(f, call) \ {q} : Before(f.policies, q, p)) = r
    BY <1>1, <1>2
  <1> QED
    BY <1>1, <1>3 DEF EvaluatePolicy

(* Tracing does not change the decision: evaluatePolicyWithTrace returns   *)
(* what evaluatePolicy returns.                                            *)
THEOREM TraceIsFaithful == Spec => []TraceAgreesWithEvaluate
  <1>1. ASSUME TypeOK, LoopInv, result # NoResult
        PROVE  result = EvaluatePolicy(file, input)
    <2>1. result = Evaluation(file, matched)
      BY <1>1 DEF LoopInv
    <2>2. CASE matched = 0
      BY <1>1, <2>1, <2>2, Outcome DEF EvaluatePolicy
    <2>3. CASE matched # 0
      <3>1. /\ matched \in Matching(file, input)
            /\ \A q \in Matching(file, input) \ {matched} : Before(file.policies, matched, q)
        BY <1>1, <2>3, Outcome
      <3>2. Prioritised(file.policies) /\ DOMAIN file.policies \subseteq Nat
        BY <1>1, FileFacts DEF TypeOK
      <3> QED
        BY <2>1, <3>1, <3>2, TheFirstDecides
    <2> QED
      BY <2>2, <2>3
  <1>2. TypeOK /\ LoopInv => TraceAgreesWithEvaluate
    BY <1>1 DEF TraceAgreesWithEvaluate
  <1> QED
    BY <1>2, LoopInvariant, PTL

(* A call no rule matches is refused unless the file has a default or only *)
(* observes; enforce mode applies what it observed; observe mode never     *)
(* refuses and keeps what it observed.                                     *)
THEOREM RefusedByDefault == Spec => []UnmatchedCallsAreRefused
  <1>1. ASSUME TypeOK, LoopInv, result # NoResult
        PROVE  UnmatchedCallsAreRefused
    <2>1. result = Evaluation(file, matched)
      BY <1>1 DEF LoopInv
    <2>2. ObservedDecision(file, matched) \in Decision
      BY <1>1, FileFacts DEF TypeOK
    <2>3. Matching(file, input) = {} => matched = 0
      BY <1>1, Outcome
    <2>4. (Matching(file, input) = {} /\ file.default = NoDecision) => result.observed = "block"
      BY <2>1, <2>3 DEF Evaluation, ObservedDecision
    <2>5. EnforcementMode(file) = "enforce" => result.decision = result.observed
      BY <2>1 DEF Evaluation, EffectiveDecision
    <2>6. EnforcementMode(file) = "observe" =>
              /\ result.decision \in Permits
              /\ result.observed \in Permits => result.decision = result.observed
      BY <2>1, <2>2 DEF Evaluation, EffectiveDecision, Decision, Permits
    <2> QED
      BY <2>4, <2>5, <2>6 DEF UnmatchedCallsAreRefused
  <1>2. TypeOK /\ LoopInv => UnmatchedCallsAreRefused
    BY <1>1 DEF UnmatchedCallsAreRefused
  <1> QED
    BY <1>2, LoopInvariant, PTL

(* A condition on a field the call does not have, or not with a value its  *)
(* operator compares, never helps a rule to match: an any group holds      *)
(* without it.                                                             *)
THEOREM MissingFieldsNeverHelp == Spec => []MissingFieldsNeverMatch
  <1>1. ASSUME TypeOK, LoopInv, matched # 0
        PROVE  MissingFieldsNeverMatch
    <2>1. RuleMatches(file.policies[matched], input)
      BY <1>1 DEF LoopInv
    <2>2. ConditionsPass(file.policies[matched].conditions, input)
      BY <2>1 DEF RuleMatches
    <2>3. ASSUME NEW c, ConditionPasses(c, input)
          PROVE  OfItsType(c, input)
      <3>1. PICK actual : actual = GetPathValue(input, c.field)
        OBVIOUS
      <3>2. EvaluateCondition(c, actual)
        BY <2>3, <3>1 DEF ConditionPasses
      <3>3. actual.type # "undefined"
        BY <3>2 DEF EvaluateCondition
      <3>4. c.operator \in {"gt", "gte", "lt", "lte"} => actual.type = "number"
        BY <3>2 DEF EvaluateCondition, BothNumbers
      <3>5. c.operator \in {"contains", "not_contains"} => actual.type = "string"
        BY <3>2 DEF EvaluateCondition
      <3> QED
        BY <3>1, <3>3, <3>4, <3>5 DEF OfItsType
    <2> QED
      BY <2>2, <2>3 DEF ConditionsPass, MissingFieldsNeverMatch
  <1>2. TypeOK /\ LoopInv => MissingFieldsNeverMatch
    BY <1>1 DEF MissingFieldsNeverMatch
  <1> QED
    BY <1>2, LoopInvariant, PTL

(* The trace shows the rules in the documented order up to the one that    *)
(* matched, for files of any length.                                       *)
THEOREM TracesAreExact == Spec => []TraceStopsAtTheMatch
  <1>1. ASSUME TypeOK, LoopInv
        PROVE  TraceStopsAtTheMatch
    <2>1. /\ Prioritised(file.policies)
          /\ DOMAIN file.policies \subseteq Nat
      BY <1>1, FileFacts DEF TypeOK
    <2>2. \A i \in DOMAIN traced : traced[i] \in Traced /\ traced[i] \in DOMAIN file.policies
      <3>1. traced \in [1 .. Len(traced) -> DOMAIN file.policies]
        BY <1>1, LenProperties DEF TypeOK
      <3> QED
        BY <3>1 DEF Traced
    <2>3. \A i, j \in DOMAIN traced : i < j => DocumentedOrder(file.policies, traced[i], traced[j])
      BY <1>1, <2>1, <2>2, ComparatorIsDocumented DEF LoopInv
    <2>4. \A i \in DOMAIN traced, r \in Untraced : DocumentedOrder(file.policies, traced[i], r)
      BY <1>1, <2>1, <2>2, ComparatorIsDocumented DEF LoopInv, Untraced
    <2>5. \A i \in DOMAIN traced : RuleMatches(file.policies[traced[i]], input) <=> traced[i] = matched
      BY <1>1, <2>2 DEF LoopInv
    <2> QED
      BY <2>3, <2>4, <2>5 DEF TraceStopsAtTheMatch
  <1>2. TypeOK /\ LoopInv => TraceStopsAtTheMatch
    BY <1>1
  <1> QED
    BY <1>2, LoopInvariant, PTL

(* A function that takes different values on 1 .. n reaches all of 1 .. n. *)
LEMMA Shuffles ==
    ASSUME NEW n \in Nat, NEW p \in [1 .. n -> 1 .. n],
           \A i, j \in 1 .. n : p[i] = p[j] => i = j
    PROVE  \A r \in 1 .. n : \E i \in 1 .. n : p[i] = r
  <1>1. p \in FS!Injection(1 .. n, 1 .. n)
    BY DEF FS!Injection, FS!IsInjective
  <1>2. FS!IsFiniteSet(1 .. n)
    BY FS!FS_Interval
  <1>3. p \in FS!Surjection(1 .. n, 1 .. n)
    BY <1>1, <1>2, FS!FS_Injection
  <1> QED
    BY <1>3 DEF FS!Surjection

(* With priorities that all differ, the decision does not depend on the    *)
(* order in which the file lists the rules.                                *)
THEOREM FileOrderIsIrrelevant == Spec => []PrioritiesFixTheOrder
  <1>1. ASSUME TypeOK, LoopInv, result # NoResult,
               \A i \in 1 .. Len(file.policies) : file.policies[i].priority # NoPriority,
               \A i, j \in 1 .. Len(file.policies) :
                   file.policies[i].priority = file.policies[j].priority => i = j,
               NEW p \in [1 .. Len(file.policies) -> 1 .. Len(file.policies)],
               \A i, j \in 1 .. Len(file.policies) : p[i] = p[j] => i = j
        PROVE  EvaluatePolicy([file EXCEPT !.policies =
                                  [i \in 1 .. Len(file.policies) |-> file.policies[p[i]]]], input).decision
                   = result.decision
    <2> DEFINE n == Len(file.policies)
               f == [file EXCEPT !.policies = [i \in 1 .. n |-> file.policies[p[i]]]]
    <2>1. /\ n \in Nat
          /\ DOMAIN file.policies = 1 .. n
          /\ \A i \in 1 .. n : file.policies[i].priority \in Nat
      BY <1>1, PolicyFilesAssumption DEF TypeOK
    <2>2. /\ f.policies = [i \in 1 .. n |-> file.policies[p[i]]]
          /\ f.default = file.default
          /\ EnforcementMode(f) = EnforcementMode(file)
      BY <1>1, PolicyFilesAssumption DEF TypeOK, EnforcementMode
    <2>3. /\ DOMAIN f.policies = 1 .. n
          /\ \A i \in 1 .. n : f.policies[i] = file.policies[p[i]] /\ p[i] \in 1 .. n
      BY <1>1, <2>2
    <2>4. Prioritised(f.policies) /\ DOMAIN f.policies \subseteq Nat
      BY <2>1, <2>3 DEF Prioritised
    <2> SUFFICES EvaluatePolicy(f, input).decision = result.decision
      OBVIOUS
    <2> HIDE DEF f
    <2>5. \A i \in 1 .. n : i \in Matching(f, input) <=> p[i] \in Matching(file, input)
      BY <2>1, <2>3 DEF Matching
    <2>6. result = Evaluation(file, matched)
      BY <1>1 DEF LoopInv
    <2>7. CASE matched = 0
      <3>1. Matching(f, input) = {}
        BY <1>1, <2>3, <2>5, <2>7, Outcome DEF Matching
      <3>2. EvaluatePolicy(f, input) = Evaluation(f, 0)
        BY <3>1 DEF EvaluatePolicy
      <3> QED
        BY <2>2, <2>6, <2>7, <3>2 DEF Evaluation, ObservedDecision
    <2>8. CASE matched # 0
      <3>1. /\ matched \in 1 .. n
            /\ matched \in Matching(file, input)
            /\ \A q \in Matching(file, input) \ {matched} : Before(file.policies, matched, q)
        BY <1>1, <2>1, <2>8, Outcome DEF Matching
      <3>2. PICK i \in 1 .. n : p[i] = matched
        <4>1. /\ n \in Nat
              /\ p \in [1 .. n -> 1 .. n]
              /\ \A i, j \in 1 .. n : p[i] = p[j] => i = j
          BY <1>1, <2>1
        <4> HIDE DEF n
        <4>2. \A r \in 1 .. n : \E i \in 1 .. n : p[i] = r
          BY <4>1, Shuffles
        <4> QED
          BY <3>1, <4>2
      <3>3. i \in Matching(f, input)
        BY <2>5, <3>1, <3>2
      <3>4. ASSUME NEW q \in Matching(f, input) \ {i}
            PROVE  Before(f.policies, i, q)
        <4>1. q \in 1 .. n /\ p[q] \in Matching(file, input) \ {matched} /\ p[q] \in 1 .. n
          BY <1>1, <2>3, <2>5, <3>2, <3>4 DEF Matching
        <4>2. /\ file.policies[matched].priority # NoPriority
              /\ file.policies[p[q]].priority # NoPriority
              /\ file.policies[matched].priority # file.policies[p[q]].priority
          BY <1>1, <3>1, <4>1
        <4>3. Before(file.policies, matched, p[q])
          BY <3>1, <4>1
        <4>4. f.policies[i] = file.policies[matched] /\ f.policies[q] = file.policies[p[q]]
          BY <2>3, <3>2, <4>1
        <4> QED
          BY <4>2, <4>3, <4>4 DEF Before, CompareRules
      <3>5. EvaluatePolicy(f, input) = Evaluation(f, i)
        BY <2>4, <3>3, <3>4, TheFirstDecides
      <3>6. f.policies[i].decision = file.policies[matched].decision /\ i # 0
        BY <2>3, <3>2
      <3> QED
        BY <2>2, <2>6, <2>8, <3>5, <3>6 DEF Evaluation, ObservedDecision
    <2> QED
      BY <2>7, <2>8
  <1>2. TypeOK /\ LoopInv => PrioritiesFixTheOrder
    BY <1>1 DEF PrioritiesFixTheOrder
  <1> QED
    BY <1>2, LoopInvariant, PTL

-----------------------------------------------------------------------------
(* The Python SDK.                                                         *)

(* A set of natural numbers has a least one.                               *)
LEMMA Least ==
    ASSUME NEW S \in SUBSET Nat, S # {}
    PROVE  \E m \in S : \A k \in S : m <= k
  <1> DEFINE R == OpToRel(<, Nat)
  <1>1. \A i, j \in Nat : <<i, j>> \in R <=> i < j
    BY DEF OpToRel
  <1>2. IsWellFoundedOn(R, Nat)
    BY NatLessThanWellFounded
  <1> HIDE DEF R
  <1>3. PICK m \in S : \A k \in S : ~ (<<k, m>> \in R)
    BY <1>2, WFMin
  <1>4. \A k \in S : k \in Nat
    OBVIOUS
  <1>5. \A k \in S : ~(k < m)
    BY <1>1, <1>3, <1>4, Zenon
  <1>6. m \in S /\ \A k \in S : m <= k
    BY <1>4, <1>5
  <1> QED
    BY <1>6

(* What is found after n segments of a path, where g holds what was found  *)
(* before, and missing is found where the path leaves the objects.         *)
Follows(call, path, missing, g, n) ==
    IF n = 1
    THEN CASE path[1] = "args" -> call.args
           [] path[1] = "context" -> call.context
           [] OTHER -> missing
    ELSE IF IsRecord(g[n - 1]) /\ path[n] \in DOMAIN g[n - 1].props
         THEN g[n - 1].props[path[n]]
         ELSE missing

(* All of them, up to a length.                                            *)
Following(call, path, missing, length, g) ==
    [n \in 1 .. length |-> Follows(call, path, missing, g, n)]

(* The values along a path exist, for a path of any length.                *)
LEMMA ValuesExist ==
    ASSUME NEW call, NEW path, NEW missing, NEW length \in Nat
    PROVE  \E g : g = Following(call, path, missing, length, g)
  <1> DEFINE Bad == {m \in Nat : ~ \E g : g = [n \in 1 .. m |-> Follows(call, path, missing, g, n)]}
  <1>1. ASSUME Bad # {}
        PROVE  FALSE
    <2>1. PICK m \in Bad : \A k \in Bad : m <= k
      BY <1>1, Least
    <2>2. m # 0
      <3>1. \A g : [n \in 1 .. 0 |-> Follows(call, path, missing, g, n)] = << >>
        OBVIOUS
      <3> QED
        BY <3>1
    <2>3. PICK g : g = [n \in 1 .. m - 1 |-> Follows(call, path, missing, g, n)]
      BY <2>1, <2>2
    <2> DEFINE h == [n \in 1 .. m |-> Follows(call, path, missing, g, n)]
    <2>4. \A n \in 1 .. m - 1 : h[n] = g[n]
      BY <2>3
    <2>5. ASSUME NEW n \in 1 .. m
          PROVE  Follows(call, path, missing, g, n) = Follows(call, path, missing, h, n)
      <3> HIDE DEF h
      <3>1. n # 1 => n - 1 \in 1 .. m - 1
        BY <2>1
      <3> QED
        BY <2>4, <3>1 DEF Follows
    <2>6. h = [n \in 1 .. m |-> Follows(call, path, missing, h, n)]
      BY <2>5
    <2> QED
      BY <2>1, <2>6
  <1> QED
    BY <1>1 DEF Following

(* getPathValue finds the last of them.                                    *)
LEMMA NodeValues ==
    ASSUME NEW call, NEW path, Len(path) \in Nat, Len(path) # 1
    PROVE  \E g : /\ \A n \in 1 .. Len(path) : g[n] = Follows(call, path, Undefined, g, n)
                  /\ GetPathValue(call, path) = g[Len(path)]
  <1> DEFINE value == CHOOSE g : g = Following(call, path, Undefined, Len(path), g)
  <1>1. value = Following(call, path, Undefined, Len(path), value)
    BY ValuesExist
  <1>2. GetPathValue(call, path) = value[Len(path)]
    BY DEF GetPathValue, Following, Follows
  <1> HIDE DEF value
  <1> QED
    BY <1>1, <1>2 DEF Following

(* So does _get_path_value, which finds None where the path leaves.        *)
LEMMA PythonValues ==
    ASSUME NEW call, NEW path, Len(path) \in Nat, Len(path) # 1
    PROVE  \E g : /\ \A n \in 1 .. Len(path) : g[n] = Follows(call, path, Null, g, n)
                  /\ PythonPathValue(call, path) = g[Len(path)]
  <1> DEFINE value == CHOOSE g : g = Following(call, path, Null, Len(path), g)
  <1>1. value = Following(call, path, Null, Len(path), value)
    BY ValuesExist
  <1>2. PythonPathValue(call, path) = value[Len(path)]
    BY DEF PythonPathValue, Following, Follows, IsRecord
  <1> HIDE DEF value
  <1> QED
    BY <1>1, <1>2 DEF Following

(* What Python has where Node has a value.                                 *)
Corresponds(node, python) ==
    node = python \/ (node.type = "undefined" /\ python = Null)

(* The two SDKs find the same value, or None where Node finds undefined.   *)
LEMMA PathsCorrespond ==
    ASSUME NEW call, NEW path, Len(path) \in Nat \ {0}
    PROVE  Corresponds(GetPathValue(call, path), PythonPathValue(call, path))
  <1>1. CASE Len(path) = 1
    BY <1>1 DEF GetPathValue, PythonPathValue, Corresponds, Undefined, Json
  <1>2. CASE Len(path) # 1
    <2>1. PICK g : /\ \A n \in 1 .. Len(path) : g[n] = Follows(call, path, Undefined, g, n)
                   /\ GetPathValue(call, path) = g[Len(path)]
      BY <1>2, NodeValues
    <2>2. PICK h : /\ \A n \in 1 .. Len(path) : h[n] = Follows(call, path, Null, h, n)
                   /\ PythonPathValue(call, path) = h[Len(path)]
      BY <1>2, PythonValues
    <2> DEFINE Bad == {n \in 1 .. Len(path) : ~ Corresponds(g[n], h[n])}
    <2>3. ASSUME Bad # {}
          PROVE  FALSE
      <3>1. Bad \in SUBSET Nat
        OBVIOUS
      <3>2. PICK m \in Bad : \A k \in Bad : m <= k
        BY <2>3, <3>1, Least
      <3>3. /\ m \in 1 .. Len(path)
            /\ ~ Corresponds(g[m], h[m])
            /\ m # 1 => m - 1 \in 1 .. Len(path) /\ Corresponds(g[m - 1], h[m - 1])
        BY <3>2
      <3>4. g[m] = Follows(call, path, Undefined, g, m) /\ h[m] = Follows(call, path, Null, h, m)
        BY <2>1, <2>2, <3>3
      <3>5. CASE m = 1
        BY <3>3, <3>4, <3>5 DEF Follows, Corresponds, Undefined, Json
      <3>6. CASE m # 1
        BY <3>3, <3>4, <3>6 DEF Follows, Corresponds, Undefined, Null, Json, IsRecord
      <3> QED
        BY <3>5, <3>6
    <2> QED
      BY <2>1, <2>2, <2>3
  <1> QED
    BY <1>1, <1>2

(* Where a condition is portable, both SDKs say the same of it.            *)
LEMMA PortableConditions ==
    ASSUME NEW f, NEW call, Comparable(f, call), PortableCall(f, call),
           NEW r \in DOMAIN f.policies,
           NEW c \in f.policies[r].conditions.all \cup f.policies[r].conditions.any
    PROVE  PythonEvaluateCondition(c, PythonPathValue(call, c.field)) <=> ConditionPasses(c, call)
  <1> DEFINE node == GetPathValue(call, c.field)
             python == PythonPathValue(call, c.field)
  <1>1. /\ Len(c.field) \in Nat \ {0}
        /\ c.operator \in {"eq", "neq", "gt", "gte", "lt", "lte", "contains", "not_contains"}
        /\ (Numeric(node) /\ node.type = c.value.type /\ node.number = c.value.number) => node = c.value
    BY DEF Comparable
  <1>2. Portable(c, call)
    BY DEF PortableCall
  <1>3. Corresponds(node, python)
    BY <1>1, PathsCorrespond
  <1>4. /\ node.type # "null"
        /\ (c.operator \in {"eq", "neq"} /\ Numeric(node) /\ Numeric(c.value)) => node.type = c.value.type
        /\ c.operator \in {"contains", "not_contains"} => c.value.type = "string"
    BY <1>2 DEF Portable
  <1> SUFFICES PythonEvaluateCondition(c, python) <=> EvaluateCondition(c, node)
    BY DEF ConditionPasses
  <1> HIDE DEF node, python
  <1>5. CASE node.type = "undefined"
    <2>1. IsNone(python)
      BY <1>3, <1>5 DEF Corresponds, IsNone, Null, Json
    <2> QED
      BY <1>5, <2>1 DEF PythonEvaluateCondition, EvaluateCondition
  <1>6. CASE node.type # "undefined"
    <2>1. python = node /\ ~IsNone(node)
      BY <1>3, <1>4, <1>6 DEF Corresponds, IsNone
    <2>2. c.operator \in {"eq", "neq"} => (PythonEqual(node, c.value) <=> StrictlyEqual(node, c.value))
      BY <1>1, <1>4 DEF PythonEqual, StrictlyEqual, Numeric
    <2>3. c.operator \in {"contains", "not_contains"} => PythonText(c.value) = c.value.text
      BY <1>4 DEF PythonText
    <2> QED
      BY <1>1, <1>6, <2>1, <2>2, <2>3 DEF PythonEvaluateCondition, EvaluateCondition
  <1> QED
    BY <1>5, <1>6

(* So both match the same rules,                                           *)
LEMMA SameRulesMatch ==
    ASSUME NEW f, NEW call, Comparable(f, call), PortableCall(f, call)
    PROVE  {r \in DOMAIN f.policies : PythonPolicyMatches(f.policies[r], call)} = Matching(f, call)
  <1>1. ASSUME NEW r \in DOMAIN f.policies
        PROVE  PythonPolicyMatches(f.policies[r], call) <=> RuleMatches(f.policies[r], call)
    <2>1. \A c \in f.policies[r].conditions.all \cup f.policies[r].conditions.any :
             PythonEvaluateCondition(c, PythonPathValue(call, c.field)) <=> ConditionPasses(c, call)
      BY PortableConditions
    <2>2. PythonConditionsMatch(f.policies[r].conditions, call) <=> ConditionsPass(f.policies[r].conditions, call)
      BY <2>1 DEF PythonConditionsMatch, ConditionsPass
    <2> QED
      BY <2>2 DEF PythonPolicyMatches, RuleMatches
  <1> QED
    BY <1>1 DEF Matching

(* and try them in the same order.                                         *)
LEMMA SameOrder ==
    ASSUME NEW policies, Prioritised(policies), DOMAIN policies \subseteq Nat,
           NEW q \in DOMAIN policies, NEW r \in DOMAIN policies
    PROVE  PythonBefore(policies, q, r) <=> Before(policies, q, r)
  <1> DEFINE key(i) == <<IF policies[i].priority = NoPriority THEN 1 ELSE 0, policies[i].priority, i>>
  <1>1. PythonBefore(policies, q, r) <=>
            \/ key(q)[1] < key(r)[1]
            \/ key(q)[1] = key(r)[1] /\ key(q)[2] < key(r)[2]
            \/ key(q)[1] = key(r)[1] /\ key(q)[2] = key(r)[2] /\ key(q)[3] < key(r)[3]
    <2> DEFINE P(n) == /\ key(q)[n] < key(r)[n]
                       /\ \A m \in 1 .. n - 1 : key(q)[m] = key(r)[m]
    <2>1. PythonBefore(policies, q, r) <=> \E n \in 1 .. 3 : P(n)
      BY DEF PythonBefore
    <2>2. /\ P(1) <=> key(q)[1] < key(r)[1]
          /\ P(2) <=> key(q)[1] = key(r)[1] /\ key(q)[2] < key(r)[2]
          /\ P(3) <=> key(q)[1] = key(r)[1] /\ key(q)[2] = key(r)[2] /\ key(q)[3] < key(r)[3]
      <3> HIDE DEF key
      <3>1. 1 .. 1 - 1 = {} /\ 1 .. 2 - 1 = {1} /\ 1 .. 3 - 1 = {1, 2}
        OBVIOUS
      <3> QED
        BY <3>1
    <2>3. 1 .. 3 = {1, 2, 3}
      OBVIOUS
    <2> HIDE DEF P
    <2> QED
      BY <2>1, <2>2, <2>3
  <1> QED
    BY <1>1 DEF Prioritised, Before, CompareRules, NoPriority

(* So both find the same rule, and decide alike.                           *)
LEMMA EvaluationsAgree ==
    ASSUME NEW f, NEW call, Comparable(f, call), PortableCall(f, call),
           Prioritised(f.policies), DOMAIN f.policies \subseteq Nat
    PROVE  PythonEvaluatePolicy(f, call) = EvaluatePolicy(f, call)
  <1> DEFINE matching == {r \in DOMAIN f.policies : PythonPolicyMatches(f.policies[r], call)}
             M == Matching(f, call)
             First(r, S) == \A q \in S \ {r} : PythonBefore(f.policies, r, q)
             Earliest(r) == \A q \in M \ {r} : Before(f.policies, r, q)
             first(S) == CHOOSE r \in S : First(r, S)
             earliest == CHOOSE r \in M : Earliest(r)
             python(S) == IF S = {} THEN 0 ELSE first(S)
             node == IF M = {} THEN 0 ELSE earliest
             evaluation(rule) ==
                 LET observed == IF rule # 0 THEN f.policies[rule].decision
                                 ELSE IF f.default # NoDecision THEN f.default
                                 ELSE "block"
                     observing == f.mode = "observe" \/ f.observeOnly
                 IN  [matched  |-> rule,
                      observed |-> observed,
                      decision |-> IF observing /\ observed \in {"block", "require_approval"}
                                   THEN "allow" ELSE observed]
  <1>1. matching = M
    BY SameRulesMatch
  <1>2. \A r \in M : First(r, M) <=> Earliest(r)
    BY SameOrder DEF Matching
  <1>3. python(M) = node
    <2>1. first(M) = earliest
      <3> HIDE DEF M, First, Earliest
      <3> QED
        BY <1>2
    <2> HIDE DEF M, first, earliest
    <2> QED
      BY <2>1
  <1>4. PythonEvaluatePolicy(f, call) = evaluation(python(matching))
    BY DEF PythonEvaluatePolicy
  <1>5. EvaluatePolicy(f, call) = Evaluation(f, node)
    BY DEF EvaluatePolicy
  <1>6. \A rule : Evaluation(f, rule) = evaluation(rule)
    BY DEF Evaluation, ObservedDecision, EffectiveDecision, EnforcementMode
  <1> HIDE DEF python, node, evaluation, M, matching
  <1> QED
    BY <1>1, <1>3, <1>4, <1>5, <1>6

(* The Python SDK decides every portable call as Node does, by the same    *)
(* rule, for policy files of any length and paths of any depth.            *)
THEOREM SdksDecideAlike == Spec => []PythonDecidesAlike
  <1>1. ASSUME TypeOK, TraceAgreesWithEvaluate, result # NoResult, PortableCall(file, input)
        PROVE  result = PythonEvaluatePolicy(file, input)
    <2>1. Comparable(file, input)
      BY <1>1, PolicyParityAssumption DEF TypeOK
    <2>2. Prioritised(file.policies) /\ DOMAIN file.policies \subseteq Nat
      BY <1>1, FileFacts DEF TypeOK
    <2>3. PythonEvaluatePolicy(file, input) = EvaluatePolicy(file, input)
      BY <1>1, <2>1, <2>2, EvaluationsAgree
    <2> QED
      BY <1>1, <2>3 DEF TraceAgreesWithEvaluate
  <1>2. TypeOK /\ TraceAgreesWithEvaluate => PythonDecidesAlike
    BY <1>1 DEF PythonDecidesAlike
  <1> QED
    BY <1>2, TypeCorrect, TraceIsFaithful, PTL

=============================================================================
