---------------------------- MODULE CliFilesProofs ----------------------------
(***************************************************************************)
(* Theorems about CliFiles, for every set of processes, and whatever       *)
(* policies and cases users save.                                          *)
(*                                                                         *)
(* InitInv says what an enforra init knows of the files that were there    *)
(* when it started; DocumentInv, which documents are on disk and in the    *)
(* hands of enforra test. That the two SDKs accept the same policies is    *)
(* shown of one document, rule by rule, in both directions; that a tested  *)
(* policy decides alike in Python, from DocumentInv and from what          *)
(* PolicyCoreProofs has about the two evaluations of one file.             *)
(***************************************************************************)
EXTENDS CliFiles, TLAPS

-----------------------------------------------------------------------------
(* What enforra init overwrites.                                           *)

Pc == {"idle", "check_policy", "check_cases", "open_policy", "write_policy", "open_cases", "write_cases",
       "created", "refused", "dead"}

Progress == [pc : Pc, force : BOOLEAN, found : BOOLEAN, had : SUBSET File]

(* A file that is there stays there; an init without --force that has      *)
(* passed its checks was started when neither file was there.              *)
InitInv ==
    /\ DOMAIN disk = File
    /\ init \in [Process -> Progress]
    /\ \A p \in Process :
          /\ \A file \in init[p].had : pathExists(file)
          /\ (init[p].pc = "check_cases" /\ "policy" \in init[p].had) => init[p].found
          /\ init[p].pc \in {"open_policy", "write_policy", "open_cases", "write_cases"} => init[p].had = {}

(* Whatever is written to a file is a document.                            *)
LEMMA DocumentsExist ==
    /\ Null # Undefined /\ Word("unparsable") # Undefined
    /\ \A file \in File :
          /\ Starter[file] # Undefined
          /\ \A cut \in Cuts(file) : cut # Undefined
    /\ \A doc \in UserPolicies \cup UserCases : doc # Undefined
  <1>1. /\ Undefined.type = "undefined" /\ Null.type = "null"
        /\ \A props : Object(props).type = "object"
        /\ \A word : Word(word).type = "string"
    BY DEF Undefined, Null, Object, Word, Text, Json
  <1>2. starterPolicy.type = "object" /\ starterCases.type = "object"
    BY <1>1 DEF starterPolicy, starterCases
  <1>3. ASSUME NEW file \in File PROVE Starter[file].type = "object"
    BY <1>2 DEF Starter, File
  <1>4. ASSUME NEW file \in File, NEW cut \in Cuts(file) PROVE cut.type # "undefined"
    BY <1>1 DEF Cuts
  <1> QED
    BY <1>1, <1>3, <1>4, CliFilesAssumption

(* The files stay documents, and none disappears.                          *)
LEMMA FilesStay ==
    ASSUME InitInv, [Next]_vars
    PROVE  /\ DOMAIN disk' = File
           /\ \A file \in File : pathExists(file) => pathExists(file)'
  <1> USE DocumentsExist
  <1>1. CASE disk' = disk
    BY <1>1 DEF InitInv, pathExists
  <1>2. CASE \E file \in File : \E doc : doc # Undefined /\ disk' = [disk EXCEPT ![file] = doc]
    BY <1>2 DEF InitInv, pathExists
  <1>3. ASSUME NEW p \in Process, NEW file \in File, OpenFile(p, file) \/ WriteFile(p, file)
        PROVE  \E doc : doc # Undefined /\ disk' = [disk EXCEPT ![file] = doc]
    BY <1>3 DEF OpenFile, WriteFile
  <1>4. ASSUME NEW p \in Process, InitDies(p), disk' # disk
        PROVE  \E file \in File : \E doc : doc # Undefined /\ disk' = [disk EXCEPT ![file] = doc]
    BY <1>4 DEF InitDies
  <1>5. ASSUME NEW file \in File, UserSaves(file)
        PROVE  \E doc : doc # Undefined /\ disk' = [disk EXCEPT ![file] = doc]
    BY <1>5 DEF UserSaves
  <1>6. ASSUME NEW p \in Process, (\E force \in BOOLEAN : RunInit(p, force)) \/ CheckPolicy(p) \/ CheckCases(p)
        PROVE  disk' = disk
    BY <1>6 DEF RunInit, CheckPolicy, CheckCases
  <1>7. ASSUME (\E file \in File : ReadFile(file)) \/ TestFails \/ RunTests \/ UNCHANGED vars
        PROVE  disk' = disk
    BY <1>7 DEF ReadFile, TestFails, RunTests, vars
  <1> QED
    BY <1>1, <1>2, <1>3, <1>4, <1>5, <1>6, <1>7 DEF Next

(* The initial states satisfy InitInv.                                     *)
LEMMA InitInvHolds == Init => InitInv
  BY DEF Init, InitInv, NotStarted, File, Progress, Pc

(* Every step keeps it.                                                    *)
LEMMA InitInvKept ==
    ASSUME InitInv, [Next]_vars
    PROVE  InitInv'
  <1>1. DOMAIN disk' = File /\ \A file \in File : pathExists(file) => pathExists(file)'
    BY FilesStay
  <1>2. CASE init' = init
    <2>1. \A q \in Process : init[q].had \subseteq File
      BY DEF InitInv, Progress
    <2> QED
      BY <1>1, <1>2, <2>1 DEF InitInv
  <1>3. ASSUME NEW p \in Process, NEW to \in Progress,
               init' = [init EXCEPT ![p] = to],
               \A file \in to.had : pathExists(file),
               (to.pc = "check_cases" /\ "policy" \in to.had) => to.found,
               to.pc \in {"open_policy", "write_policy", "open_cases", "write_cases"} => to.had = {}
        PROVE  InitInv'
    <2>1. init' \in [Process -> Progress]
      BY <1>3 DEF InitInv
    <2>2. ASSUME NEW q \in Process
          PROVE  /\ \A file \in init'[q].had : pathExists(file)'
                 /\ (init'[q].pc = "check_cases" /\ "policy" \in init'[q].had) => init'[q].found
                 /\ init'[q].pc \in {"open_policy", "write_policy", "open_cases", "write_cases"} => init'[q].had = {}
      <3>1. CASE q = p
        <4>1. init'[q] = to /\ to.had \subseteq File
          BY <1>3, <3>1 DEF InitInv, Progress
        <4> QED
          BY <1>1, <1>3, <4>1
      <3>2. CASE q # p
        <4>1. init'[q] = init[q] /\ init[q].had \subseteq File
          BY <1>3, <3>2 DEF InitInv, Progress
        <4> QED
          BY <1>1, <4>1 DEF InitInv
      <3> QED
        BY <3>1, <3>2
    <2> QED
      BY <1>1, <2>1, <2>2 DEF InitInv
  <1>4. ASSUME NEW p \in Process, NEW pc \in Pc, pc \in {"refused", "created", "dead"}, End(p, pc) PROVE InitInv'
    <2>1. /\ [NotStarted EXCEPT !.pc = pc] \in Progress
          /\ [NotStarted EXCEPT !.pc = pc].pc = pc /\ [NotStarted EXCEPT !.pc = pc].had = {}
      BY <1>4 DEF NotStarted, Progress, Pc
    <2> QED
      BY <1>3, <1>4, <2>1 DEF End
  <1>5. ASSUME NEW p \in Process, NEW pc \in Pc, Goto(p, pc),
               init[p].had = {}
        PROVE  InitInv'
    <2>1. [init[p] EXCEPT !.pc = pc] \in Progress
      BY DEF InitInv, Progress, Pc
    <2>2. [init[p] EXCEPT !.pc = pc].had = {}
      BY <1>5 DEF InitInv, Progress
    <2>3. init' = [init EXCEPT ![p] = [init[p] EXCEPT !.pc = pc]]
      BY <1>5 DEF Goto
    <2> QED
      BY <1>3, <2>1, <2>2, <2>3
  <1>6. ASSUME NEW p \in Process, NEW force \in BOOLEAN, RunInit(p, force) PROVE InitInv'
    <2> DEFINE to == [pc    |-> IF force THEN "open_policy" ELSE "check_policy",
                      force |-> force,
                      found |-> FALSE,
                      had   |-> IF force THEN {} ELSE {file \in File : pathExists(file)}]
    <2>1. init' = [init EXCEPT ![p] = to]
      BY <1>6 DEF RunInit
    <2>2. to \in Progress
      BY DEF Progress, Pc
    <2>3. /\ \A file \in to.had : pathExists(file)
          /\ to.pc \in {"open_policy", "write_policy", "open_cases", "write_cases"} => to.had = {}
          /\ to.pc # "check_cases"
      OBVIOUS
    <2> HIDE DEF to
    <2> QED
      BY <1>3, <2>1, <2>2, <2>3
  <1>7. ASSUME NEW p \in Process, CheckPolicy(p) PROVE InitInv'
    <2> DEFINE to == [init[p] EXCEPT !.pc = "check_cases", !.found = pathExists("policy")]
    <2>1. init' = [init EXCEPT ![p] = to]
      BY <1>7 DEF CheckPolicy
    <2>2. /\ to \in Progress
          /\ to.pc = "check_cases" /\ to.had = init[p].had /\ to.found = pathExists("policy")
      BY DEF InitInv, pathExists, Progress, Pc
    <2>3. \A file \in to.had : pathExists(file)
      BY <2>2 DEF InitInv
    <2> HIDE DEF to
    <2> QED
      BY <1>3, <2>1, <2>2, <2>3
  <1>8. ASSUME NEW p \in Process, CheckCases(p) PROVE InitInv'
    <2>1. CASE init[p].found \/ pathExists("cases")
      <3>1. "refused" \in Pc
        BY DEF Pc
      <3> QED
        BY <1>4, <1>8, <2>1, <3>1 DEF CheckCases
    <2>2. CASE ~(init[p].found \/ pathExists("cases"))
      <3>1. "policy" \notin init[p].had /\ "cases" \notin init[p].had
        BY <1>8, <2>2 DEF CheckCases, InitInv
      <3>2. init[p].had = {}
        BY <3>1 DEF InitInv, File, Progress
      <3>3. "open_policy" \in Pc
        BY DEF Pc
      <3> QED
        BY <1>5, <1>8, <3>3, <2>2, <3>2 DEF CheckCases
    <2> QED
      BY <2>1, <2>2
  <1>9. ASSUME NEW p \in Process, NEW file \in File, OpenFile(p, file) PROVE InitInv'
    <2>1. init[p].had = {} /\ WritePc[file] \in Pc
      BY <1>9 DEF OpenFile, InitInv, File, OpenPc, WritePc, Pc
    <2> QED
      BY <1>5, <1>9, <2>1 DEF OpenFile
  <1>10. ASSUME NEW p \in Process, NEW file \in File, WriteFile(p, file) PROVE InitInv'
    <2>1. init[p].had = {} /\ "open_cases" \in Pc /\ "created" \in Pc
      BY <1>10 DEF WriteFile, InitInv, File, WritePc, Pc
    <2> QED
      BY <1>4, <1>5, <1>10, <2>1 DEF WriteFile
  <1>11. ASSUME NEW p \in Process, InitDies(p) PROVE InitInv'
    <2>1. "dead" \in Pc
      BY DEF Pc
    <2> QED
      BY <1>4, <1>11, <2>1 DEF InitDies
  <1>12. ASSUME (\E file \in File : ReadFile(file) \/ UserSaves(file)) \/ TestFails \/ RunTests \/ UNCHANGED vars
         PROVE  init' = init
    BY <1>12 DEF ReadFile, UserSaves, TestFails, RunTests, vars
  <1> QED
    BY <1>2, <1>6, <1>7, <1>8, <1>9, <1>10, <1>11, <1>12 DEF Next

(* InitKeepsEarlierFiles: enforra init without --force truncates no file   *)
(* that was there when it started, however many processes run it, whatever *)
(* users save in between and wherever a process dies.                      *)
THEOREM InitKeepsFiles == Spec => InitKeepsEarlierFiles
  <1>1. ASSUME InitInv, NEW p \in Process, NEW file \in File, OpenFile(p, file)
        PROVE  file \notin init[p].had
    BY <1>1 DEF InitInv, OpenFile, OpenPc, File
  <1>2. InitInv /\ [Next]_vars => InitInv'
    BY InitInvKept
  <1>3. InitInv => [\A p \in Process, file \in File : OpenFile(p, file) => file \notin init[p].had]_vars
    BY <1>1
  <1> QED
    BY <1>2, <1>3, InitInvHolds, PTL DEF Spec, InitKeepsEarlierFiles

-----------------------------------------------------------------------------
(* What the two SDKs accept.                                               *)

(* A key that is not there is undefined, and undefined has no properties.  *)
LEMMA GetsWhatIsThere ==
    ASSUME NEW object, NEW key
    PROVE  /\ Undefined.type = "undefined" /\ Undefined.props = NoProps
           /\ DOMAIN NoProps = {}
           /\ key \in DOMAIN object.props => Get(object, key) = object.props[key]
           /\ key \notin DOMAIN object.props => Get(object, key) = Undefined
           /\ key \in DOMAIN object.props => Get(object, key) \in Items(object)
  BY DEF Get, Undefined, Json, NoProps, Items

(* Conditions that Node accepts are conditions Python accepts.             *)
LEMMA NodeConditionsHold ==
    ASSUME NEW conditions, NodeConditions(conditions)
    PROVE  PythonConditions(conditions) /\ ~IsNone(conditions)
  <1>1. ASSUME NEW list, NodeConditionList(list)
        PROVE  PythonConditionList(list)
    BY <1>1 DEF NodeConditionList, PythonConditionList, NodeCondition, PythonCondition
  <1>2. CASE NodeConditionList(conditions)
    BY <1>1, <1>2 DEF PythonConditions, NodeConditionList, NonEmptyList, IsNone
  <1>3. CASE /\ OnlyKeys(conditions, {"all", "any"})
             /\ DOMAIN conditions.props # {}
             /\ \A group \in DOMAIN conditions.props : NodeConditionList(conditions.props[group])
    BY <1>1, <1>3 DEF PythonConditions, OnlyKeys, IsNone
  <1> QED
    BY <1>2, <1>3 DEF NodeConditions

(* A rule that Node accepts is one Python accepts, but for its priority.   *)
LEMMA NodeRulesHold ==
    ASSUME NEW rule, NodeRule(rule), Get(rule, "priority").type # "float"
    PROVE  PythonRule(rule)
  <1> DEFINE match == Get(rule, "match")
             named(key) == ~IsNone(Get(match, key))
  <1>1. rule.type = "object" /\ match.type = "object"
    BY DEF NodeRule, OnlyKeys
  <1>2. ASSUME NEW key \in {"agent", "tool"}, named(key) PROVE NonEmptyText(Get(match, key))
    BY <1>2, GetsWhatIsThere DEF NodeRule, IsNone
  <1>3. named("agent") \/ named("tool") \/ ~IsNone(Get(rule, "conditions"))
    <2>1. CASE ~Missing(Get(rule, "conditions"))
      BY <2>1, NodeConditionsHold DEF NodeRule
    <2>2. CASE DOMAIN match.props # {}
      <3>1. PICK key \in DOMAIN match.props : TRUE
        BY <2>2
      <3>2. key \in {"agent", "tool"} /\ NonEmptyText(match.props[key])
        BY <3>1 DEF NodeRule, OnlyKeys
      <3>3. Get(match, key).type = "string"
        BY <3>1, <3>2, GetsWhatIsThere DEF NonEmptyText
      <3> QED
        BY <3>2, <3>3 DEF IsNone
    <2> QED
      BY <2>1, <2>2 DEF NodeRule
  <1>4. PythonConditions(Get(rule, "conditions"))
    BY NodeConditionsHold DEF NodeRule, PythonConditions, Missing, IsNone
  <1>5. IsNone(Get(rule, "priority")) \/ (PythonInt(Get(rule, "priority")) /\ Get(rule, "priority").number > 0)
    BY DEF NodeRule, Missing, IsNone, PythonInt
  <1>6. /\ NonEmptyText(Get(rule, "id"))
        /\ IsWord(Get(rule, "decision"), Decision)
        /\ Get(rule, "description").type \in {"undefined", "null", "string"}
    BY DEF NodeRule
  <1> QED
    BY <1>1, <1>2, <1>3, <1>4, <1>5, <1>6 DEF PythonRule

(* A policy that Node accepts is one Python accepts, or it has a priority  *)
(* written as a float.                                                     *)
LEMMA NodePoliciesHold ==
    ASSUME NEW doc, NodeAccepts(doc), ~FloatPriority(doc)
    PROVE  PythonAccepts(doc)
  <1> DEFINE defaults == Get(doc, "defaults")
  <1>1. \A rule \in Items(Get(doc, "policies")) : PythonRule(rule)
    BY NodeRulesHold DEF NodeAccepts, FloatPriority
  <1>2. \/ IsNone(defaults)
        \/ /\ defaults.type = "object"
           /\ IsNone(Get(defaults, "decision")) \/ IsWord(Get(defaults, "decision"), Decision)
    <2>1. CASE Missing(defaults)
      BY <2>1 DEF Missing, IsNone
    <2>2. CASE OnlyKeys(defaults, {"decision"}) /\ \A key \in DOMAIN defaults.props : IsWord(defaults.props[key], Decision)
      <3>1. "decision" \in DOMAIN defaults.props => IsWord(Get(defaults, "decision"), Decision)
        BY <2>2, GetsWhatIsThere
      <3>2. "decision" \notin DOMAIN defaults.props => IsNone(Get(defaults, "decision"))
        BY GetsWhatIsThere DEF IsNone
      <3> QED
        BY <2>2, <3>1, <3>2 DEF OnlyKeys
    <2> QED
      BY <2>1, <2>2 DEF NodeAccepts
  <1>3. /\ doc.type = "object"
        /\ Get(doc, "version").type \in {"number", "float", "boolean"} /\ Get(doc, "version").number = 1
        /\ Get(doc, "policies").type = "array"
        /\ IsNone(Get(doc, "mode")) \/ IsWord(Get(doc, "mode"), Mode)
        /\ Get(doc, "observe_only").type \in {"undefined", "boolean"}
    BY DEF NodeAccepts, OnlyKeys, Missing, IsNone
  <1> QED
    BY <1>1, <1>2, <1>3 DEF PythonAccepts

(* In a readable object, what Python takes for None is missing, or null.   *)
LEMMA NoneIsMissing ==
    ASSUME NEW object, Readable(object), NEW key, IsNone(Get(object, key)),
           \A k \in DOMAIN object.props : object.props[k] # Null
    PROVE  key \notin DOMAIN object.props /\ Missing(Get(object, key))
  BY GetsWhatIsThere DEF Readable, IsNone, Missing

(* The conditions a rule lists, in one list or in its groups.              *)
Listed(conditions) == Items(conditions) \cup UNION {Items(group) : group \in Items(conditions)}

Loaded(conditions) == LoadConditions(conditions).all \cup LoadConditions(conditions).any

(* Conditions that Python accepts are conditions Node accepts, where no    *)
(* value is NaN and no key is unknown.                                     *)
LEMMA PythonConditionsHold ==
    ASSUME NEW conditions, PythonConditions(conditions), ~IsNone(conditions),
           \A c \in Listed(conditions) : Readable(c),
           \A c \in Loaded(conditions) : c.value # NaN,
           conditions.type = "object" => OnlyKeys(conditions, {"all", "any"})
    PROVE  NodeConditions(conditions)
  <1>1. ASSUME NEW list, PythonConditionList(list), Items(list) \subseteq Listed(conditions),
               \A c \in Items(list) : LoadCondition(c) \in Loaded(conditions)
        PROVE  NodeConditionList(list)
    <2>1. ASSUME NEW c \in Items(list) PROVE Get(c, "value").type # "nan"
      <3>1. LoadCondition(c).value = Get(c, "value") /\ Get(c, "value") # NaN
        BY <1>1 DEF LoadCondition
      <3>2. Readable(c)
        BY <1>1
      <3> QED
        BY <3>1, <3>2, GetsWhatIsThere DEF Readable
    <2> QED
      BY <1>1, <2>1 DEF NodeConditionList, PythonConditionList, NodeCondition, PythonCondition
  <1>2. CASE PythonConditionList(conditions)
    <2>1. conditions.type = "array"
      BY <1>2 DEF PythonConditionList, NonEmptyList
    <2>2. LoadConditions(conditions).all = {LoadCondition(c) : c \in Items(conditions)}
      BY <2>1 DEF LoadConditions, IsNone
    <2> QED
      BY <1>1, <1>2, <2>2 DEF NodeConditions, Listed, Loaded
  <1>3. CASE /\ conditions.type = "object"
             /\ DOMAIN conditions.props \cap {"all", "any"} # {}
             /\ \A group \in DOMAIN conditions.props \cap {"all", "any"} :
                   PythonConditionList(conditions.props[group])
    <2>1. OnlyKeys(conditions, {"all", "any"}) /\ DOMAIN conditions.props # {}
      BY <1>3
    <2>2. ASSUME NEW group \in DOMAIN conditions.props PROVE NodeConditionList(conditions.props[group])
      <3> DEFINE list == conditions.props[group]
      <3>1. group \in {"all", "any"} /\ PythonConditionList(list)
        BY <1>3, <2>1 DEF OnlyKeys
      <3>2. Get(conditions, group) = list /\ list \in Items(conditions)
        BY GetsWhatIsThere
      <3>3. ~IsNone(list)
        BY <3>1 DEF PythonConditionList, NonEmptyList, IsNone
      <3>4. LoadConditions(conditions)[group] = {LoadCondition(c) : c \in Items(list)}
        BY <1>3, <3>1, <3>2, <3>3 DEF LoadConditions, IsNone
      <3>5. LoadConditions(conditions)[group] \subseteq Loaded(conditions)
        BY <3>1 DEF Loaded
      <3>6. Items(list) \subseteq Listed(conditions)
        BY <3>2 DEF Listed
      <3> QED
        BY <1>1, <3>1, <3>4, <3>5, <3>6
    <2> QED
      BY <2>1, <2>2 DEF NodeConditions
  <1> QED
    BY <1>2, <1>3 DEF PythonConditions

(* A rule is loose in Loose's words.                                       *)
LooseRule(rule) ==
    LET nulls(object) == \E key \in DOMAIN object.props : object.props[key] = Null
        unknown(object, keys) == object.type = "object" /\ ~OnlyKeys(object, keys)
    IN  \/ unknown(rule, {"id", "description", "priority", "match", "conditions", "decision"})
        \/ unknown(Get(rule, "match"), {"agent", "tool"})
        \/ unknown(Get(rule, "conditions"), {"all", "any"})
        \/ nulls(rule) \/ nulls(Get(rule, "match"))
        \/ Get(rule, "priority").type = "boolean"
        \/ \E c \in Loaded(Get(rule, "conditions")) : c.value = NaN

ReadableRule(rule) ==
    /\ Readable(rule) /\ Readable(Get(rule, "match"))
    /\ \A c \in Listed(Get(rule, "conditions")) : Readable(c)

(* A rule that Python accepts is one Node accepts, or it is loose.         *)
LEMMA PythonRulesHold ==
    ASSUME NEW rule, PythonRule(rule), ReadableRule(rule), ~LooseRule(rule)
    PROVE  NodeRule(rule)
  <1> DEFINE match == Get(rule, "match")
             priority == Get(rule, "priority")
             conditions == Get(rule, "conditions")
  <1>1. /\ OnlyKeys(rule, {"id", "description", "priority", "match", "conditions", "decision"})
        /\ OnlyKeys(match, {"agent", "tool"})
    BY DEF PythonRule, LooseRule
  <1>2. /\ \A key : IsNone(Get(rule, key)) => Missing(Get(rule, key))
        /\ \A key : IsNone(Get(match, key)) => key \notin DOMAIN match.props
    BY NoneIsMissing DEF LooseRule, ReadableRule
  <1>3. \A key \in DOMAIN match.props : NonEmptyText(match.props[key])
    BY <1>1, <1>2, GetsWhatIsThere DEF OnlyKeys, PythonRule
  <1>4. Missing(conditions) \/ NodeConditions(conditions)
    <2>1. CASE IsNone(conditions)
      BY <1>2, <2>1
    <2>2. CASE ~IsNone(conditions)
      <3>1. PythonConditions(conditions)
        BY DEF PythonRule
      <3>2. \A c \in Listed(conditions) : Readable(c)
        BY DEF ReadableRule
      <3>3. /\ \A c \in Loaded(conditions) : c.value # NaN
            /\ conditions.type = "object" => OnlyKeys(conditions, {"all", "any"})
        BY DEF LooseRule
      <3> QED
        BY <2>2, <3>1, <3>2, <3>3, PythonConditionsHold
    <2> QED
      BY <2>1, <2>2
  <1>5. DOMAIN match.props # {} \/ ~Missing(conditions)
    BY <1>2, GetsWhatIsThere DEF PythonRule, IsNone, Missing
  <1>6. Missing(priority) \/ (priority.type \in {"number", "float"} /\ priority.number > 0)
    BY <1>2 DEF PythonRule, PythonInt, LooseRule
  <1>7. Get(rule, "description").type \in {"undefined", "string"}
    BY <1>2 DEF PythonRule, IsNone, Missing
  <1>8. NonEmptyText(Get(rule, "id")) /\ IsWord(Get(rule, "decision"), Decision)
    BY DEF PythonRule
  <1> QED
    BY <1>1, <1>3, <1>4, <1>5, <1>6, <1>7, <1>8 DEF NodeRule

(* A policy that Python accepts is one Node accepts, or it is loose.       *)
LEMMA PythonPoliciesHold ==
    ASSUME NEW doc, ReadablePolicy(doc), PythonAccepts(doc), ~Loose(doc)
    PROVE  NodeAccepts(doc)
  <1> DEFINE defaults == Get(doc, "defaults")
  <1>1. \A rule \in Items(Get(doc, "policies")) : ~LooseRule(rule)
    BY DEF Loose, LooseRule, Loaded
  <1>2. \A rule \in Items(Get(doc, "policies")) : ReadableRule(rule)
    BY DEF ReadablePolicy, ReadableRule, Listed
  <1>3. \A rule \in Items(Get(doc, "policies")) : NodeRule(rule)
    BY <1>1, <1>2, PythonRulesHold DEF PythonAccepts
  <1>4. /\ OnlyKeys(doc, {"version", "mode", "observe_only", "defaults", "policies"})
        /\ defaults.type = "object" => OnlyKeys(defaults, {"decision"})
        /\ \A key \in DOMAIN doc.props : doc.props[key] # Null
        /\ \A key \in DOMAIN defaults.props : defaults.props[key] # Null
        /\ Get(doc, "version").type # "boolean"
    BY DEF Loose, PythonAccepts
  <1>5. /\ \A key : IsNone(Get(doc, key)) => Missing(Get(doc, key))
        /\ \A key : IsNone(Get(defaults, key)) => key \notin DOMAIN defaults.props
    BY <1>4, NoneIsMissing DEF ReadablePolicy
  <1>6. \/ Missing(defaults)
        \/ /\ OnlyKeys(defaults, {"decision"})
           /\ \A key \in DOMAIN defaults.props : IsWord(defaults.props[key], Decision)
    BY <1>4, <1>5, GetsWhatIsThere DEF PythonAccepts, OnlyKeys
  <1>7. /\ Get(doc, "version").type \in {"number", "float"} /\ Get(doc, "version").number = 1
        /\ Missing(Get(doc, "mode")) \/ IsWord(Get(doc, "mode"), Mode)
        /\ Get(doc, "observe_only").type \in {"undefined", "boolean"}
        /\ Get(doc, "policies").type = "array"
    BY <1>4, <1>5 DEF PythonAccepts
  <1> QED
    BY <1>3, <1>4, <1>6, <1>7 DEF NodeAccepts

-----------------------------------------------------------------------------
(* What enforra init writes.                                               *)

(* What a value of a document that a user may save is known by: its type,  *)
(* a number, a text, and the keys of a list.                               *)
IsText(text) == Len(text) \in Nat /\ (Len(text) = 0 => text = <<>>)

Plain(value) ==
    /\ value.type \in {"string", "number", "array", "object"}
    /\ value.number \in Int
    /\ IsText(value.text)
    /\ value.type = "array" => DOMAIN value.props \subseteq Nat

(* Words, numbers, lists and objects are such values, and words and        *)
(* numbers hold none.                                                      *)
LEMMA PlainValues ==
    /\ \A text : IsText(text) => Plain(Text(text))
    /\ \A word : Plain(Word(word)) /\ Items(Word(word)) = {}
    /\ Plain(One)
    /\ \A items : DOMAIN items \subseteq Nat => Plain(List(items))
    /\ \A items : Items(List(items)) = {items[i] : i \in DOMAIN items}
    /\ \A props : Plain(Object(props)) /\ Items(Object(props)) = {props[key] : key \in DOMAIN props}
  <1>1. \A word : IsText(<<word>>)
    BY DEF IsText
  <1>2. \A text : IsText(text) => Plain(Text(text))
    BY DEF Plain, Text, Json
  <1>3. \A word : Plain(Word(word))
    BY <1>1, <1>2, Zenon DEF Word
  <1>4. \A word : Items(Word(word)) = {}
    BY DEF Word, Text, Json, Items, NoProps
  <1>5. \A n \in Int : \A text : IsText(text) => Plain(Number(n, text))
    BY DEF Plain, Number, Json
  <1>6. Plain(One)
    <2>1. 1 \in Int
      OBVIOUS
    <2> QED
      BY <1>1, <1>5, <2>1, Zenon DEF One
  <1>7. ASSUME NEW text, IsText(text), NEW items, DOMAIN items \subseteq Nat
        PROVE  Plain(Json("array", 0, text, items))
    BY <1>7 DEF Plain, Json
  <1>8. \A items : DOMAIN items \subseteq Nat => Plain(List(items))
    BY <1>1, <1>7, Zenon DEF List
  <1>9. ASSUME NEW text, IsText(text), NEW props
        PROVE  Plain(Json("object", 0, text, props))
    BY <1>9 DEF Plain, Json
  <1>10. \A props : Plain(Object(props))
    BY <1>1, <1>9, Zenon DEF Object
  <1>11. /\ \A items : Items(List(items)) = {items[i] : i \in DOMAIN items}
         /\ \A props : Items(Object(props)) = {props[key] : key \in DOMAIN props}
    BY DEF List, Object, Json, Items
  <1> QED
    BY <1>2, <1>3, <1>4, <1>6, <1>8, <1>10, <1>11

(* So is a priority.                                                       *)
LEMMA PriorityIsPlain ==
    ASSUME NEW n \in Int
    PROVE  Plain(Number(n, <<"">>))
  <1>1. IsText(<<"">>)
    BY DEF IsText
  <1>2. \A text : IsText(text) => Plain(Number(n, text))
    BY DEF Plain, Number, Json
  <1> QED
    BY <1>1, <1>2, Zenon

(* An object that holds plain values is readable.                          *)
LEMMA PlainIsReadable ==
    ASSUME NEW object, \A value \in Items(object) : Plain(value)
    PROVE  Readable(object)
  BY DEF Readable, Plain, IsText

(* A starter condition is readable, and compares with a word.              *)
LEMMA StarterConditionReadable ==
    ASSUME NEW field, IsText(field), NEW operator, NEW word
    PROVE  LET condition == StarterCondition(field, operator, Word(word))
           IN  /\ Plain(condition) /\ Readable(condition)
               /\ Get(condition, "value").type = "string"
  <1> DEFINE props == [field |-> Text(field), operator |-> Word(operator), value |-> Word(word)]
             condition == Object(props)
  <1>1. /\ DOMAIN props = {"field", "operator", "value"}
        /\ props["field"] = Text(field) /\ props["operator"] = Word(operator) /\ props["value"] = Word(word)
    OBVIOUS
  <1> HIDE DEF props
  <1>2. Plain(Text(field)) /\ Plain(Word(operator)) /\ Plain(Word(word))
    BY PlainValues
  <1>3. \A value \in Items(condition) : Plain(value)
    BY <1>1, <1>2, PlainValues
  <1>4. condition.props = props
    BY DEF Object, Json
  <1>5. Get(condition, "value") = Word(word)
    BY <1>1, <1>4 DEF Get
  <1>6. Word(word).type = "string"
    BY DEF Word, Text, Json
  <1>7. Plain(condition) /\ Readable(condition)
    BY <1>3, PlainValues, PlainIsReadable
  <1> QED
    BY <1>5, <1>6, <1>7 DEF StarterCondition, props

(* What the proofs need of a rule that enforra init writes.                *)
WordRule(rule) ==
    /\ ReadableRule(rule)
    /\ \A c \in Loaded(Get(rule, "conditions")) : c.value.type = "string"

(* A rule is one whose fields are plain, with the starter's kind of match  *)
(* and of conditions.                                                      *)
LEMMA StarterRuleReadable ==
    ASSUME NEW props, \A key \in DOMAIN props : Plain(props[key]),
           NEW tool, "match" \in DOMAIN props, props["match"] = Object([tool |-> Word(tool)]),
           NEW group, NEW list, DOMAIN list \subseteq Nat,
           \A i \in DOMAIN list : /\ Plain(list[i]) /\ Readable(list[i])
                                  /\ Get(list[i], "value").type = "string",
           "conditions" \in DOMAIN props =>
               props["conditions"] = Object([g \in {group} |-> List(list)])
    PROVE  WordRule(Object(props))
  <1> DEFINE rule == Object(props)
             conditions == Object([g \in {group} |-> List(list)])
  <1>1. Readable(rule)
    BY PlainValues, PlainIsReadable
  <1>2. rule.props = props
    BY DEF Object, Json
  <1>3. Readable(Get(rule, "match"))
    <2>1. Get(rule, "match") = Object([tool |-> Word(tool)])
      BY <1>2 DEF Get
    <2>2. \A value \in Items(Object([tool |-> Word(tool)])) : Plain(value)
      BY PlainValues
    <2> QED
      BY <2>1, <2>2, PlainIsReadable
  <1>4. CASE "conditions" \in DOMAIN props
    <2>1. Get(rule, "conditions") = conditions
      BY <1>2, <1>4 DEF Get
    <2>2. Items(conditions) = {List(list)} /\ Items(List(list)) = {list[i] : i \in DOMAIN list}
      BY PlainValues
    <2>3. Listed(conditions) = {List(list)} \cup {list[i] : i \in DOMAIN list}
      BY <2>2 DEF Listed
    <2>4. Readable(List(list))
      BY <2>2, PlainIsReadable
    <2>5. ReadableRule(rule)
      BY <1>1, <1>3, <2>1, <2>3, <2>4 DEF ReadableRule
    <2>6. \A key : Get(conditions, key) \in {List(list), Undefined}
      BY DEF Get, Object, Json
    <2>7. /\ List(list).type = "array" /\ conditions.type = "object"
          /\ IsNone(Undefined) /\ ~IsNone(List(list)) /\ ~IsNone(conditions)
      BY DEF List, Object, Undefined, Json, IsNone
    <2>8. Loaded(conditions) \subseteq {LoadCondition(c) : c \in Items(List(list))}
      <3> HIDE DEF conditions
      <3> QED
        BY <2>6, <2>7 DEF Loaded, LoadConditions
    <2>9. \A c \in Items(List(list)) : LoadCondition(c).value.type = "string"
      BY <2>2 DEF LoadCondition
    <2>10. \A c \in Loaded(conditions) : c.value.type = "string"
      BY <2>8, <2>9
    <2> QED
      BY <2>1, <2>5, <2>10 DEF WordRule
  <1>5. CASE "conditions" \notin DOMAIN props
    <2>1. Get(rule, "conditions") = Undefined
      BY <1>2, <1>5 DEF Get
    <2>2. Listed(Undefined) = {}
      BY GetsWhatIsThere DEF Listed, Items
    <2>3. Loaded(Undefined) = {}
      BY DEF Loaded, LoadConditions, IsNone, Undefined, Json, NoConditions
    <2> QED
      BY <1>1, <1>3, <2>1, <2>2, <2>3 DEF WordRule, ReadableRule
  <1> QED
    BY <1>4, <1>5

(* A policy with the starter's version and defaults and readable rules is  *)
(* readable.                                                               *)
LEMMA RulesMakeReadable ==
    ASSUME NEW props, NEW rules, DOMAIN props = {"version", "defaults", "policies"},
           props.version = One, props.defaults = Object([decision |-> Word("block")]),
           props.policies = List(rules), DOMAIN rules \subseteq Nat,
           \A i \in DOMAIN rules : WordRule(rules[i])
    PROVE  /\ ReadablePolicy(Object(props))
           /\ \A rule \in Items(Get(Object(props), "policies")) : WordRule(rule)
  <1> DEFINE doc == Object(props)
  <1>1. doc.props = props /\ List(rules).props = rules
    BY DEF Object, List, Json
  <1>2. Get(doc, "defaults") = props.defaults /\ Get(doc, "policies") = List(rules)
    BY <1>1 DEF Get
  <1>3. Readable(doc)
    BY PlainValues, PlainIsReadable
  <1>4. Readable(Get(doc, "defaults"))
    BY <1>2, PlainValues, PlainIsReadable
  <1>5. \A rule \in Items(Get(doc, "policies")) : WordRule(rule)
    BY <1>2, PlainValues
  <1> QED
    BY <1>3, <1>4, <1>5 DEF ReadablePolicy, WordRule, ReadableRule, Listed

(* A rule without conditions that enforra init writes has its fields, and  *)
(* is a WordRule.                                                          *)
LEMMA UnconditionalRule ==
    ASSUME NEW id, NEW priority \in Int, NEW tool, NEW decision
    PROVE  LET props == StarterRule(id, priority, tool, decision)
           IN  /\ DOMAIN props = {"id", "priority", "match", "decision"}
               /\ \A key \in DOMAIN props : Plain(props[key])
               /\ props["match"] = Object([tool |-> Word(tool)])
               /\ WordRule(Object(props))
  <1> DEFINE props == StarterRule(id, priority, tool, decision)
  <1>1. /\ DOMAIN props = {"id", "priority", "match", "decision"}
        /\ props["id"] = Word(id) /\ props["priority"] = Number(priority, <<"">>)
        /\ props["match"] = Object([tool |-> Word(tool)]) /\ props["decision"] = Word(decision)
    BY DEF StarterRule
  <1> HIDE DEF props
  <1>2. \A key \in DOMAIN props : Plain(props[key])
    <2>1. Plain(props["id"]) /\ Plain(props["match"]) /\ Plain(props["decision"])
      BY <1>1, PlainValues
    <2>2. Plain(Number(priority, <<"">>))
      BY PriorityIsPlain
    <2>3. Plain(props["priority"])
      BY <1>1, <2>2, Zenon
    <2> QED
      BY <1>1, <2>1, <2>3
  <1>3. DOMAIN <<>> = {}
    OBVIOUS
  <1>4. "match" \in DOMAIN props /\ "conditions" \notin DOMAIN props
    BY <1>1
  <1>5. WordRule(Object(props))
    BY <1>1, <1>2, <1>3, <1>4, StarterRuleReadable
  <1>6. /\ DOMAIN props = {"id", "priority", "match", "decision"}
        /\ props["match"] = Object([tool |-> Word(tool)])
    BY <1>1
  <1> QED
    BY <1>2, <1>5, <1>6 DEF props

(* So is one with a group of conditions that compare with words.           *)
LEMMA ConditionalRule ==
    ASSUME NEW id, NEW priority \in Int, NEW tool, NEW decision, NEW group, NEW list,
           DOMAIN list \subseteq Nat,
           \A i \in DOMAIN list : /\ Plain(list[i]) /\ Readable(list[i])
                                  /\ Get(list[i], "value").type = "string"
    PROVE  WordRule(Object(WithConditions(StarterRule(id, priority, tool, decision), group, list)))
  <1> DEFINE rule == StarterRule(id, priority, tool, decision)
             props == WithConditions(rule, group, list)
  <1>1. /\ DOMAIN rule = {"id", "priority", "match", "decision"}
        /\ \A key \in DOMAIN rule : Plain(rule[key])
        /\ rule["match"] = Object([tool |-> Word(tool)])
    BY UnconditionalRule
  <1> HIDE DEF rule
  <1>2. /\ DOMAIN props = {"id", "priority", "match", "decision", "conditions"}
        /\ props["id"] = rule["id"] /\ props["priority"] = rule["priority"]
        /\ props["match"] = rule["match"] /\ props["decision"] = rule["decision"]
        /\ props["conditions"] = Object([g \in {group} |-> List(list)])
    BY DEF WithConditions
  <1> HIDE DEF props
  <1>3. Plain(props["conditions"])
    BY <1>2, PlainValues
  <1>4. /\ \A key \in DOMAIN props : Plain(props[key])
        /\ "match" \in DOMAIN props /\ props["match"] = Object([tool |-> Word(tool)])
    BY <1>1, <1>2, <1>3
  <1>5. WordRule(Object(props))
    BY <1>2, <1>4, StarterRuleReadable
  <1> QED
    BY <1>5 DEF props, rule

(* The starter policy is the starter's version, defaults and three rules.  *)
LEMMA StarterPolicyIs ==
    LET props == starterPolicy.props
        rules == props["policies"].props
    IN  /\ starterPolicy = Object(props)
        /\ DOMAIN props = {"version", "defaults", "policies"}
        /\ props["version"] = One
        /\ props["defaults"] = Object([decision |-> Word("block")])
        /\ props["policies"] = List(rules)
        /\ Len(rules) = 3 /\ rules \in Seq({rules[1], rules[2], rules[3]})
        /\ \A i \in 1 .. 3 : WordRule(rules[i])
  <1> DEFINE props == starterPolicy.props
             rules == props["policies"].props
             c1 == StarterCondition(<<"args", "table">>, "eq", Word("customers"))
             c2 == StarterCondition(<<"context", "environment">>, "eq", Word("production"))
             c3 == StarterCondition(<<"args", "recipient">>, "not_contains", Word("@example.com"))
             r1 == Object(WithConditions(
                       StarterRule("block-production-customer-delete", 10, "db.deleteTable", "block"),
                       "all", <<c1, c2>>))
             r2 == Object(WithConditions(
                       StarterRule("approve-external-email", 20, "email.send", "require_approval"),
                       "any", <<c3>>))
             r3 == Object(StarterRule("log-github-issue", 30, "github.create_issue", "log_only"))
             fields == [version |-> One, defaults |-> Object([decision |-> Word("block")]),
                        policies |-> List(<<r1, r2, r3>>)]
  <1>1. starterPolicy = Object(fields)
    BY DEF starterPolicy
  <1>2. \A c \in {c1, c2, c3} : Plain(c) /\ Readable(c) /\ Get(c, "value").type = "string"
    <2>1. IsText(<<"args", "table">>) /\ IsText(<<"context", "environment">>) /\ IsText(<<"args", "recipient">>)
      BY DEF IsText
    <2> QED
      BY <2>1, StarterConditionReadable
  <1> HIDE DEF c1, c2, c3
  <1>3. WordRule(r1)
    <2>1. /\ DOMAIN <<c1, c2>> \subseteq Nat
          /\ \A i \in DOMAIN <<c1, c2>> : <<c1, c2>>[i] \in {c1, c2, c3}
      OBVIOUS
    <2> QED
      BY <1>2, <2>1, ConditionalRule
  <1>4. WordRule(r2)
    <2>1. /\ DOMAIN <<c3>> \subseteq Nat
          /\ \A i \in DOMAIN <<c3>> : <<c3>>[i] \in {c1, c2, c3}
      OBVIOUS
    <2> QED
      BY <1>2, <2>1, ConditionalRule
  <1>5. WordRule(r3)
    <2>1. 30 \in Int
      OBVIOUS
    <2> QED
      BY <2>1, UnconditionalRule, Zenon
  <1> HIDE DEF r1, r2, r3
  <1>6. props = fields
    BY <1>1 DEF Object, Json
  <1>7. /\ DOMAIN fields = {"version", "defaults", "policies"}
        /\ fields["version"] = One
        /\ fields["defaults"] = Object([decision |-> Word("block")])
        /\ fields["policies"] = List(<<r1, r2, r3>>)
    OBVIOUS
  <1> HIDE DEF fields
  <1>8. rules = <<r1, r2, r3>>
    BY <1>6, <1>7 DEF List, Json
  <1>9. Len(<<r1, r2, r3>>) = 3 /\ <<r1, r2, r3>> \in Seq({r1, r2, r3})
    OBVIOUS
  <1>10. rules[1] = r1 /\ rules[2] = r2 /\ rules[3] = r3
    BY <1>8
  <1>11. \A i \in 1 .. 3 : WordRule(rules[i])
    BY <1>3, <1>4, <1>5, <1>10
  <1> HIDE DEF props
  <1> QED
    BY <1>1, <1>6, <1>7, <1>8, <1>9, <1>10, <1>11 DEF props

(* A policy document that is readable and whose rules are WordRules.       *)
WordPolicy(doc) ==
    /\ ReadablePolicy(doc)
    /\ \A rule \in Items(Get(doc, "policies")) : WordRule(rule)

(* What enforra init writes is one, whole or cut short.                    *)
LEMMA StartersReadable ==
    \A doc \in {Undefined, Null, starterPolicy} \cup Cuts("policy") : WordPolicy(doc)
  <1> DEFINE props == starterPolicy.props
             rules == props["policies"].props
             Cut(n) == [props EXCEPT !["policies"] = List(SubSeq(rules, 1, n))]
  <1>1. /\ starterPolicy = Object(props)
        /\ DOMAIN props = {"version", "defaults", "policies"}
        /\ props["version"] = One
        /\ props["defaults"] = Object([decision |-> Word("block")])
        /\ props["policies"] = List(rules)
        /\ Len(rules) = 3 /\ rules \in Seq({rules[1], rules[2], rules[3]})
        /\ \A i \in 1 .. 3 : WordRule(rules[i])
    BY StarterPolicyIs
  <1>2. Get(starterPolicy, "policies").props = rules
    BY <1>1 DEF Get
  <1> HIDE DEF rules
  <1>3. WordPolicy(starterPolicy)
    <2>1. /\ props.version = One /\ props.defaults = Object([decision |-> Word("block")])
          /\ props.policies = List(rules) /\ DOMAIN rules \subseteq Nat
          /\ \A i \in DOMAIN rules : WordRule(rules[i])
      BY <1>1
    <2> HIDE DEF props
    <2>2. WordPolicy(Object(props))
      BY <1>1, <2>1, RulesMakeReadable DEF WordPolicy
    <2> QED
      BY <1>1, <2>2
  <1>4. ASSUME NEW value, DOMAIN value.props = {} PROVE WordPolicy(value)
    BY <1>4, GetsWhatIsThere DEF WordPolicy, ReadablePolicy, Readable, Items
  <1>5. WordPolicy(Undefined) /\ WordPolicy(Null) /\ WordPolicy(Word("unparsable"))
    BY <1>4 DEF Undefined, Null, Word, Text, Json, NoProps
  <1>6. ASSUME NEW n \in 1 .. Len(rules) - 1
        PROVE  WordPolicy(Object(Cut(n)))
    <2> DEFINE cut == Cut(n)
    <2>1. /\ DOMAIN cut = {"version", "defaults", "policies"}
          /\ cut.version = One /\ cut.defaults = Object([decision |-> Word("block")])
          /\ cut.policies = List(SubSeq(rules, 1, n))
      BY <1>1
    <2>2. /\ DOMAIN SubSeq(rules, 1, n) \subseteq Nat
          /\ \A i \in DOMAIN SubSeq(rules, 1, n) : WordRule(SubSeq(rules, 1, n)[i])
      BY <1>1
    <2> HIDE DEF cut
    <2>3. WordPolicy(Object(cut))
      BY <2>1, <2>2, RulesMakeReadable DEF WordPolicy
    <2> QED
      BY <2>3 DEF cut
  <1>7. Starter["policy"] = starterPolicy
    BY DEF Starter
  <1>8. \A cut \in Cuts("policy") :
            \/ cut \in {Null, Word("unparsable")}
            \/ \E n \in 1 .. Len(rules) - 1 : cut = Object(Cut(n))
    BY <1>2, <1>7 DEF Cuts
  <1> HIDE DEF props, Cut
  <1> QED
    BY <1>3, <1>5, <1>6, <1>8

(* Every case in the starter cases, cut short, has the call of one of the  *)
(* starter's.                                                              *)
LEMMA StarterCasesCut ==
    \A doc \in {Undefined, Null, starterCases} \cup Cuts("cases") :
        \A case \in Items(Get(doc, "cases")) :
            \E whole \in Items(Get(starterCases, "cases")) : CallOf(case) = CallOf(whole)
  <1> DEFINE props == starterCases.props
             cases == props["cases"].props
             Short(list) == Object([props EXCEPT !["cases"] = List(list)])
             Calls(doc) == \A case \in Items(Get(doc, "cases")) :
                              \E whole \in Items(Get(starterCases, "cases")) : CallOf(case) = CallOf(whole)
  <1>made. \A input, expect : \E f : Case(input, expect) = Object(f) /\ DOMAIN f = {"name", "input", "expect"}
    <2> TAKE input, expect
    <2> DEFINE f == [name |-> Word("case"), input |-> Object(input), expect |-> Object(expect)]
    <2>1. Case(input, expect) = Object(f)
      BY Zenon DEF Case
    <2>2. DOMAIN f = {"name", "input", "expect"}
      OBVIOUS
    <2> QED
      BY <2>1, <2>2
  <1>doc. PICK i1, e1, i2, e2, i3, e3, i4, e4 : starterCases = Object([version |-> One,
              cases |-> List(<<Case(i1, e1), Case(i2, e2), Case(i3, e3), Case(i4, e4)>>)])
    BY Zenon DEF starterCases
  <1>f1. PICK f1 : Case(i1, e1) = Object(f1) /\ DOMAIN f1 = {"name", "input", "expect"}
    BY <1>made
  <1>f2. PICK f2 : Case(i2, e2) = Object(f2) /\ DOMAIN f2 = {"name", "input", "expect"}
    BY <1>made
  <1>f3. PICK f3 : Case(i3, e3) = Object(f3) /\ DOMAIN f3 = {"name", "input", "expect"}
    BY <1>made
  <1>f4. PICK f4 : Case(i4, e4) = Object(f4) /\ DOMAIN f4 = {"name", "input", "expect"}
    BY <1>made
  <1>1. /\ starterCases = Object([version |-> One,
                                  cases |-> List(<<Object(f1), Object(f2), Object(f3), Object(f4)>>)])
        /\ \A f \in {f1, f2, f3, f4} : DOMAIN f = {"name", "input", "expect"}
    <2>1. starterCases = Object([version |-> One,
              cases |-> List(<<Object(f1), Object(f2), Object(f3), Object(f4)>>)])
      BY <1>doc, <1>f1, <1>f2, <1>f3, <1>f4, Zenon
    <2>2. \A f \in {f1, f2, f3, f4} : DOMAIN f = {"name", "input", "expect"}
      BY <1>f1, <1>f2, <1>f3, <1>f4
    <2> QED
      BY <2>1, <2>2
  <1>2. /\ DOMAIN props = {"version", "cases"}
        /\ cases = <<Object(f1), Object(f2), Object(f3), Object(f4)>>
        /\ props["cases"] = List(cases)
    BY <1>1 DEF Object, List, Json
  <1>3. /\ Len(cases) = 4
        /\ \A n \in 1 .. 4 : \E f : cases[n] = Object(f) /\ DOMAIN f = {"name", "input", "expect"}
        /\ cases \in Seq({cases[1], cases[2], cases[3], cases[4]})
    <2>1. \A n \in 1 .. 4 : n = 1 \/ n = 2 \/ n = 3 \/ n = 4
      OBVIOUS
    <2>2. /\ Len(cases) = 4 /\ cases \in Seq({cases[1], cases[2], cases[3], cases[4]})
          /\ cases[1] = Object(f1) /\ cases[2] = Object(f2) /\ cases[3] = Object(f3) /\ cases[4] = Object(f4)
      <3> HIDE DEF props, Short, Calls
      <3> QED
        BY <1>2
    <2> QED
      BY <1>1, <2>1, <2>2
  <1>4. Get(starterCases, "cases") = List(cases)
    BY <1>2 DEF Get
  <1>5. List(cases).props = cases
    BY DEF List, Json
  <1> HIDE DEF cases
  <1>6. ASSUME NEW n \in 1 .. Len(cases) - 1, NEW list,
               DOMAIN list = 1 .. n,
               \A i \in 1 .. n : list[i] = cases[i] \/ list[i] = CutCase(cases[i])
        PROVE  Calls(Short(list))
    <2>1. Get(Short(list), "cases") = List(list)
      <3> DEFINE short == [props EXCEPT !["cases"] = List(list)]
      <3>1. "cases" \in DOMAIN short /\ short["cases"] = List(list)
        BY <1>2
      <3>2. Object(short).props = short
        BY DEF Object, Json
      <3> HIDE DEF short
      <3>3. Get(Object(short), "cases") = List(list)
        BY <3>1, <3>2 DEF Get
      <3> QED
        BY <3>3 DEF short
    <2>2. /\ Items(List(list)) = {list[i] : i \in DOMAIN list}
          /\ Items(List(cases)) = {cases[i] : i \in DOMAIN cases}
      BY PlainValues
    <2>3. ASSUME NEW i \in 1 .. n
          PROVE  i \in DOMAIN cases /\ CallOf(list[i]) = CallOf(cases[i])
      <3>1. i \in DOMAIN cases /\ i \in 1 .. 4
        BY <1>3
      <3>2. PICK f : cases[i] = Object(f) /\ DOMAIN f = {"name", "input", "expect"}
        BY <1>3, <3>1
      <3>3. Get(CutCase(cases[i]), "input") = Get(cases[i], "input")
        <4> DEFINE e == Object([decision |-> Get(Get(cases[i], "expect"), "decision")])
                   g == [f EXCEPT !["expect"] = e]
        <4>1. cases[i].props = f
          BY <3>2 DEF Object, Json
        <4>2. CutCase(cases[i]) = Object(g)
          BY <4>1, Zenon DEF CutCase
        <4>3. "input" \in DOMAIN g /\ g["input"] = f["input"]
          BY <3>2
        <4>4. Object(g).props = g
          BY DEF Object, Json
        <4> HIDE DEF g
        <4> QED
          BY <3>2, <4>1, <4>2, <4>3, <4>4 DEF Get
      <3> QED
        BY <1>6, <3>1, <3>3 DEF CallOf
    <2> HIDE DEF Short
    <2> QED
      BY <1>4, <1>6, <2>1, <2>2, <2>3
  <1>7. ASSUME NEW value, DOMAIN value.props = {}
        PROVE  Calls(value)
    BY <1>7, GetsWhatIsThere DEF Items
  <1>8. /\ DOMAIN Undefined.props = {} /\ DOMAIN Null.props = {}
        /\ DOMAIN Word("unparsable").props = {}
    BY DEF Undefined, Null, Word, Text, Json, NoProps
  <1>9. \A cut \in Cuts("cases") :
            \/ cut \in {Null, Word("unparsable")}
            \/ \E n \in 1 .. Len(cases) - 1 :
                  \/ cut = Short(SubSeq(cases, 1, n))
                  \/ cut = Short([SubSeq(cases, 1, n) EXCEPT ![n] = CutCase(cases[n])])
    BY <1>4, <1>5 DEF Cuts, Starter
  <1>10. ASSUME NEW n \in 1 .. Len(cases) - 1
         PROVE  /\ Calls(Short(SubSeq(cases, 1, n)))
                /\ Calls(Short([SubSeq(cases, 1, n) EXCEPT ![n] = CutCase(cases[n])]))
    <2> DEFINE first == SubSeq(cases, 1, n)
               second == [first EXCEPT ![n] = CutCase(cases[n])]
    <2>1. /\ DOMAIN first = 1 .. n
          /\ \A i \in 1 .. n : first[i] = cases[i]
          /\ n \in 1 .. n
      BY <1>3
    <2> HIDE DEF first
    <2>2. DOMAIN second = 1 .. n /\ \A i \in 1 .. n : second[i] = cases[i] \/ second[i] = CutCase(cases[i])
      BY <2>1
    <2> HIDE DEF second, Short, Calls
    <2>3. Calls(Short(first)) /\ Calls(Short(second))
      BY <1>6, <2>1, <2>2
    <2> QED
      BY <2>3 DEF first, second
  <1>11. Calls(starterCases)
    OBVIOUS
  <1> HIDE DEF props, Short, Calls
  <1>12. \A doc \in {Undefined, Null, starterCases} \cup Cuts("cases") : Calls(doc)
    BY <1>7, <1>8, <1>9, <1>10, <1>11
  <1> QED
    BY <1>12 DEF Calls

-----------------------------------------------------------------------------
(* The documents on disk, and what enforra test makes of them.             *)

PolicyDocs == UserPolicies \cup {Undefined, Null, starterPolicy} \cup Cuts("policy")

CaseDocs == UserCases \cup {Undefined, Null, starterCases} \cup Cuts("cases")

(* The files hold documents; enforra test has read some of them, and has   *)
(* passed only what it accepted and ran.                                   *)
DocumentInv ==
    /\ disk \in [File -> PolicyDocs \cup CaseDocs]
    /\ disk["policy"] \in PolicyDocs /\ disk["cases"] \in CaseDocs
    /\ test \in [pc : {"idle", "done"}, policy : PolicyDocs, cases : CaseDocs, exit : {-1, 0, 1}]
    /\ test.exit = 0 => /\ test.pc = "done"
                        /\ NodeAccepts(test.policy)
                        /\ TestsPass(test.policy, test.cases)

(* At first nothing is on disk and enforra test has read nothing.          *)
LEMMA DocumentInvHolds == Init => DocumentInv
  <1> SUFFICES ASSUME Init PROVE DocumentInv
    OBVIOUS
  <1>1. Undefined \in PolicyDocs /\ Undefined \in CaseDocs
    BY DEF PolicyDocs, CaseDocs
  <1>2. test \in [pc : {"idle", "done"}, policy : PolicyDocs, cases : CaseDocs, exit : {-1, 0, 1}] /\ test.exit # 0
    BY <1>1 DEF Init, Ready
  <1> QED
    BY <1>1, <1>2 DEF Init, DocumentInv, File

(* Every step of enforra init, of a user and of enforra test keeps it.     *)
LEMMA DocumentInvKept ==
    ASSUME DocumentInv, [Next]_vars
    PROVE  DocumentInv'
  <1>1. ASSUME NEW file \in File, NEW doc, disk' = [disk EXCEPT ![file] = doc], test' = test,
               file = "policy" => doc \in PolicyDocs, file = "cases" => doc \in CaseDocs
        PROVE  DocumentInv'
    BY <1>1 DEF DocumentInv, File
  <1>2. CASE disk' = disk /\ test' = test
    BY <1>2 DEF DocumentInv
  <1>3. ASSUME NEW p \in Process, NEW file \in File, OpenFile(p, file) PROVE DocumentInv'
    BY <1>1, <1>3 DEF OpenFile, PolicyDocs, CaseDocs
  <1>4. ASSUME NEW p \in Process, NEW file \in File, WriteFile(p, file) PROVE DocumentInv'
    <2>1. Starter["policy"] = starterPolicy /\ Starter["cases"] = starterCases
      BY DEF Starter
    <2> QED
      BY <1>1, <1>4, <2>1 DEF WriteFile, PolicyDocs, CaseDocs
  <1>5. ASSUME NEW p \in Process, InitDies(p) PROVE DocumentInv'
    BY <1>1, <1>2, <1>5 DEF InitDies, PolicyDocs, CaseDocs
  <1>6. ASSUME NEW file \in File, UserSaves(file) PROVE DocumentInv'
    BY <1>1, <1>6 DEF UserSaves, PolicyDocs, CaseDocs, File
  <1>7. ASSUME NEW file \in File, ReadFile(file) PROVE DocumentInv'
    BY <1>7 DEF ReadFile, DocumentInv, File
  <1>8. ASSUME NEW code \in {0, 1}, disk' = disk, test' = [test EXCEPT !.pc = "done", !.exit = code],
               code = 0 => NodeAccepts(test.policy) /\ TestsPass(test.policy, test.cases)
        PROVE  DocumentInv'
    <2>1. test \in [pc : {"idle", "done"}, policy : PolicyDocs, cases : CaseDocs, exit : {-1, 0, 1}]
      BY DEF DocumentInv
    <2>2. /\ test' \in [pc : {"idle", "done"}, policy : PolicyDocs, cases : CaseDocs, exit : {-1, 0, 1}]
          /\ test'.pc = "done" /\ test'.exit = code
          /\ test'.policy = test.policy /\ test'.cases = test.cases
      BY <1>8, <2>1
    <2> QED
      BY <1>8, <2>2 DEF DocumentInv
  <1>9. ASSUME TestFails PROVE DocumentInv'
    BY <1>8, <1>9 DEF TestFails
  <1>10. ASSUME RunTests PROVE DocumentInv'
    <2> DEFINE code == IF TestsPass(test.policy, test.cases) THEN 0 ELSE 1
    <2>1. /\ test' = [test EXCEPT !.pc = "done", !.exit = code]
          /\ disk' = disk /\ NodeAccepts(test.policy)
      BY <1>10 DEF RunTests
    <2>2. code \in {0, 1} /\ (code = 0 => TestsPass(test.policy, test.cases))
      OBVIOUS
    <2> HIDE DEF code
    <2> QED
      BY <1>8, <2>1, <2>2
  <1>11. ASSUME NEW p \in Process, (\E force \in BOOLEAN : RunInit(p, force)) \/ CheckPolicy(p) \/ CheckCases(p)
         PROVE  disk' = disk /\ test' = test
    BY <1>11 DEF RunInit, CheckPolicy, CheckCases
  <1> QED
    BY <1>2, <1>3, <1>4, <1>5, <1>6, <1>7, <1>9, <1>10, <1>11 DEF Next, vars

(* So every behaviour does.                                                *)
LEMMA DocumentsAreRead == Spec => []DocumentInv
  <1>1. DocumentInv /\ [Next]_vars => DocumentInv'
    BY DocumentInvKept
  <1> QED
    BY <1>1, DocumentInvHolds, PTL DEF Spec

(* LoadersAgree: what Node accepts Python accepts, but for a priority      *)
(* written 1.0; what Python accepts Node accepts, but for what is loose.   *)
THEOREM SameFilesAccepted == Spec => []LoadersAgree
  <1>1. \A doc \in PolicyDocs : ReadablePolicy(doc)
    BY CliFilesAssumption, StartersReadable DEF PolicyDocs, WordPolicy
  <1>2. DocumentInv => LoadersAgree
    BY <1>1, NodePoliciesHold, PythonPoliciesHold DEF DocumentInv, LoadersAgree
  <1> QED
    BY <1>2, DocumentsAreRead, PTL

-----------------------------------------------------------------------------
(* Tested policies and the Python SDK.                                     *)

(* The theorems about the evaluation, which is a part of PolicyCore that   *)
(* has no variables: those of that module are of no account here.          *)
Core == INSTANCE PolicyCoreProofs WITH
            PolicyFiles <- {}, Inputs <- {}, NoResult <- 0,
            file <- 0, input <- 0, traced <- 0, matched <- 0, result <- 0

(* With no file and no call there is nothing to assume.                    *)
LEMMA CoreAssumptions == Core!PolicyFilesAssumption /\ Core!PolicyParityAssumption
  BY DEF Core!PolicyFilesAssumption, Core!PolicyParityAssumption

(* Its definitions are the ones CliFiles has.                              *)
LEMMA SameValues ==
    /\ Core!Undefined = Undefined /\ Core!Null = Null
    /\ \A call, path : Core!GetPathValue(call, path) = GetPathValue(call, path)
  <1>1. Core!Undefined = Undefined /\ Core!Null = Null
    BY DEF Core!Undefined, Undefined, Core!Null, Null, Core!Json, Json, Core!NoProps, NoProps
  <1>2. \A call, path : Core!GetPathValue(call, path) = GetPathValue(call, path)
    BY <1>1 DEF Core!GetPathValue, GetPathValue, Core!IsRecord, IsRecord
  <1> QED
    BY <1>1, <1>2

(* PortableCall is the same operator in both,                              *)
LEMMA SamePortable ==
    ASSUME NEW f, NEW call
    PROVE  Core!PortableCall(f, call) <=> PortableCall(f, call)
  BY SameValues DEF Core!PortableCall, PortableCall, Core!Portable, Portable, Core!Numeric, Numeric

(* and so are the evaluation in Node                                       *)
LEMMA SameEvaluation ==
    ASSUME NEW f, NEW call
    PROVE  Core!EvaluatePolicy(f, call) = EvaluatePolicy(f, call)
  BY DEF EvaluatePolicy, Evaluation, ObservedDecision, EffectiveDecision, EnforcementMode,
         Matching, RuleMatches, Unset, ConditionsPass, ConditionPasses, EvaluateCondition,
         GetPathValue, IsRecord, StrictlyEqual, BothNumbers, Includes, Undefined, Json, NoProps,
         Before, CompareRules, NoPriority,
         Core!EvaluatePolicy, Core!Evaluation, Core!ObservedDecision, Core!EffectiveDecision,
         Core!EnforcementMode, Core!Matching, Core!RuleMatches, Core!Unset, Core!ConditionsPass,
         Core!ConditionPasses, Core!EvaluateCondition, Core!GetPathValue, Core!IsRecord,
         Core!StrictlyEqual, Core!BothNumbers, Core!Includes, Core!Undefined, Core!Json,
         Core!NoProps, Core!Before, Core!CompareRules, Core!NoPriority

(* and the one in Python.                                                  *)
LEMMA SamePythonEvaluation ==
    ASSUME NEW f, NEW call
    PROVE  Core!PythonEvaluatePolicy(f, call) = PythonEvaluatePolicy(f, call)
  BY DEF PythonEvaluatePolicy, PythonPolicyMatches, PythonConditionsMatch, PythonEvaluateCondition,
         PythonPathValue, IsNone, PythonEqual, Numeric, PythonText, PythonBefore, Null, Json,
         NoProps, Unset, BothNumbers, Includes, NoPriority,
         Core!PythonEvaluatePolicy, Core!PythonPolicyMatches, Core!PythonConditionsMatch,
         Core!PythonEvaluateCondition, Core!PythonPathValue, Core!IsNone, Core!PythonEqual,
         Core!Numeric, Core!PythonText, Core!PythonBefore, Core!Null, Core!Json, Core!NoProps,
         Core!Unset, Core!BothNumbers, Core!Includes, Core!NoPriority

(* On any document and any case, a number has one text: where the starter  *)
(* policy compares, it compares with words.                                *)
LEMMA NumbersHaveOneText ==
    ASSUME NEW doc \in PolicyDocs, NEW casesDoc \in CaseDocs
    PROVE  OneText(doc, casesDoc)
  <1>1. CASE doc \in UserPolicies
    <2>1. CASE casesDoc \in UserCases
      BY <1>1, <2>1, CliFilesAssumption
    <2>2. CASE casesDoc \notin UserCases
      <3>1. \A case \in Items(Get(casesDoc, "cases")) :
                \E whole \in Items(Get(starterCases, "cases")) : CallOf(case) = CallOf(whole)
        BY <2>2, StarterCasesCut DEF CaseDocs
      <3>2. OneText(doc, starterCases)
        BY <1>1, CliFilesAssumption
      <3> QED
        BY <3>1, <3>2 DEF OneText
    <2> QED
      BY <2>1, <2>2
  <1>2. CASE doc \notin UserPolicies
    <2>1. \A rule \in Items(Get(doc, "policies")) :
              \A c \in Loaded(Get(rule, "conditions")) : c.value.type = "string"
      BY <1>2, StartersReadable DEF PolicyDocs, WordPolicy, WordRule
    <2> QED
      BY <2>1 DEF OneText, Loaded, Numeric
  <1> QED
    BY <1>1, <1>2

(* A condition that Node accepts has a field and an operator.              *)
LEMMA LoadedConditions ==
    ASSUME NEW conditions, NodeConditions(conditions),
           \A c \in Listed(conditions) : Readable(c),
           NEW c \in Loaded(conditions)
    PROVE  Len(c.field) \in Nat \ {0} /\ c.operator \in Operator
  <1>1. ASSUME NEW list, NodeConditionList(list), Items(list) \subseteq Listed(conditions),
               NEW d \in Items(list)
        PROVE  Len(LoadCondition(d).field) \in Nat \ {0} /\ LoadCondition(d).operator \in Operator
    <2>1. NonEmptyText(Get(d, "field")) /\ IsWord(Get(d, "operator"), Operator)
      BY <1>1 DEF NodeConditionList, NodeCondition
    <2>2. Readable(d) /\ Get(d, "field") \in Items(d)
      BY <1>1, <2>1, GetsWhatIsThere DEF NonEmptyText
    <2>3. Len(Get(d, "field").text) \in Nat \ {0}
      BY <2>1, <2>2 DEF Readable, NonEmptyText
    <2> QED
      BY <2>1, <2>3 DEF LoadCondition, IsWord
  <1>2. CASE NodeConditionList(conditions)
    <2>1. conditions.type = "array"
      BY <1>2 DEF NodeConditionList, NonEmptyList
    <2>2. Loaded(conditions) = {LoadCondition(d) : d \in Items(conditions)}
      BY <2>1 DEF Loaded, LoadConditions, IsNone
    <2> QED
      BY <1>1, <1>2, <2>2 DEF Listed
  <1>3. CASE /\ OnlyKeys(conditions, {"all", "any"})
             /\ \A group \in DOMAIN conditions.props : NodeConditionList(conditions.props[group])
    <2>1. conditions.type = "object"
      BY <1>3 DEF OnlyKeys
    <2>2. PICK key \in {"all", "any"} : /\ ~IsNone(Get(conditions, key))
                                        /\ c \in {LoadCondition(d) : d \in Items(Get(conditions, key))}
      BY <2>1 DEF Loaded, LoadConditions, IsNone
    <2>3. /\ NodeConditionList(Get(conditions, key))
          /\ Get(conditions, key) \in Items(conditions)
      BY <1>3, <2>2, GetsWhatIsThere DEF IsNone
    <2>4. Items(Get(conditions, key)) \subseteq Listed(conditions)
      BY <2>3 DEF Listed
    <2> QED
      BY <1>1, <2>2, <2>3, <2>4
  <1> QED
    BY <1>2, <1>3 DEF NodeConditions

(* What LoadRule makes of a rule.                                          *)
LEMMA LoadedFields ==
    ASSUME NEW rule
    PROVE  /\ LoadRule(rule).priority = IF IsNone(Get(rule, "priority")) THEN 0 ELSE Get(rule, "priority").number
           /\ LoadRule(rule).conditions = LoadConditions(Get(rule, "conditions"))
  <1>1. LoadRule(rule).priority = IF IsNone(Get(rule, "priority")) THEN NoPriority ELSE Get(rule, "priority").number
    BY DEF LoadRule
  <1>2. LoadRule(rule).conditions = LoadConditions(Get(rule, "conditions"))
    BY DEF LoadRule
  <1> QED
    BY <1>1, <1>2 DEF NoPriority

(* What LoadPolicy makes of an accepted document is a file the theorems    *)
(* are about, on the calls of any case.                                    *)
LEMMA LoadedFiles ==
    ASSUME NEW doc \in PolicyDocs, NodeAccepts(doc), NEW casesDoc \in CaseDocs,
           NEW case \in Items(Get(casesDoc, "cases"))
    PROVE  /\ Core!Prioritised(LoadPolicy(doc).policies)
           /\ DOMAIN LoadPolicy(doc).policies \subseteq Nat
           /\ Core!Comparable(LoadPolicy(doc), CallOf(case))
  <1> DEFINE rules == Get(doc, "policies").props
             file == LoadPolicy(doc)
  <1>1. ReadablePolicy(doc)
    BY CliFilesAssumption, StartersReadable DEF PolicyDocs, WordPolicy
  <1>2. file.policies = [i \in DOMAIN rules |-> LoadRule(rules[i])]
    BY DEF LoadPolicy
  <1>3. DOMAIN file.policies \subseteq Nat
    <2>1. Get(doc, "policies").type = "array"
      BY DEF NodeAccepts
    <2>2. Get(doc, "policies") \in Items(doc)
      BY <2>1, GetsWhatIsThere
    <2> QED
      BY <1>1, <1>2, <2>1, <2>2 DEF ReadablePolicy, Readable
  <1>4. ASSUME NEW i \in DOMAIN file.policies
        PROVE  /\ rules[i] \in Items(Get(doc, "policies"))
               /\ NodeRule(rules[i]) /\ ReadableRule(rules[i])
               /\ file.policies[i] = LoadRule(rules[i])
    <2>1. rules[i] \in Items(Get(doc, "policies"))
      BY <1>2 DEF Items
    <2> QED
      BY <1>1, <1>2, <2>1 DEF NodeAccepts, ReadablePolicy, ReadableRule, Listed
  <1> HIDE DEF file, rules
  <1>5. ASSUME NEW i \in DOMAIN file.policies PROVE file.policies[i].priority \in Nat
    <2> DEFINE priority == Get(rules[i], "priority")
    <2>1. file.policies[i].priority = IF IsNone(priority) THEN 0 ELSE priority.number
      BY <1>4, LoadedFields
    <2>2. Missing(priority) \/ (priority.type \in {"number", "float"} /\ priority.number > 0)
      BY <1>4 DEF NodeRule
    <2>3. CASE Missing(priority)
      BY <2>1, <2>3 DEF Missing, IsNone
    <2>4. CASE ~Missing(priority)
      <3>1. priority \in Items(rules[i])
        BY <2>4, GetsWhatIsThere DEF Missing
      <3>2. priority.number \in Int
        BY <1>4, <3>1 DEF ReadableRule, Readable
      <3> QED
        BY <2>1, <2>2, <2>4, <3>2
    <2> QED
      BY <2>3, <2>4
  <1>6. ASSUME NEW i \in DOMAIN file.policies,
               NEW c \in file.policies[i].conditions.all \cup file.policies[i].conditions.any
        PROVE  LET actual == Core!GetPathValue(CallOf(case), c.field)
               IN  /\ Len(c.field) \in Nat \ {0}
                   /\ c.operator \in Operator
                   /\ (Core!Numeric(actual) /\ actual.type = c.value.type /\ actual.number = c.value.number) =>
                          actual = c.value
    <2> DEFINE conditions == Get(rules[i], "conditions")
               actual == GetPathValue(CallOf(case), c.field)
    <2>1. c \in Loaded(conditions)
      BY <1>4, LoadedFields DEF Loaded
    <2>2. NodeConditions(conditions)
      <3>1. Missing(conditions) => Loaded(conditions) = {}
        BY DEF Missing, Loaded, LoadConditions, IsNone, NoConditions
      <3> QED
        BY <1>4, <2>1, <3>1 DEF NodeRule
    <2>3. \A d \in Listed(conditions) : Readable(d)
      BY <1>4 DEF ReadableRule
    <2>4. Len(c.field) \in Nat \ {0} /\ c.operator \in Operator
      BY <2>1, <2>2, <2>3, LoadedConditions
    <2>5. (Numeric(actual) /\ actual.type = c.value.type /\ actual.number = c.value.number) =>
              actual = c.value
      BY <1>4, <2>1, NumbersHaveOneText DEF OneText, Loaded
    <2> QED
      BY <2>4, <2>5, SameValues DEF Core!Numeric, Numeric
  <1>7. Core!Comparable(file, CallOf(case))
    BY <1>6 DEF Core!Comparable, Operator
  <1> QED
    BY <1>3, <1>5, <1>7 DEF Core!Prioritised, file

(* TestedPoliciesHoldInPython: what enforra test has passed holds in the   *)
(* Python SDK, for every portable case.                                    *)
THEOREM TestsHoldInPython == Spec => []TestedPoliciesHoldInPython
  <1>1. ASSUME DocumentInv, test.exit = 0, ~FloatPriority(test.policy)
        PROVE  /\ PythonAccepts(test.policy)
               /\ LET file == LoadPolicy(test.policy)
                  IN  \A case \in Items(Get(test.cases, "cases")) :
                         PortableCall(file, CallOf(case)) =>
                            CasePasses(case, file, PythonEvaluatePolicy(file, CallOf(case)))
    <2> DEFINE file == LoadPolicy(test.policy)
    <2>1. /\ test.policy \in PolicyDocs /\ test.cases \in CaseDocs
          /\ NodeAccepts(test.policy)
          /\ TestsPass(test.policy, test.cases)
      BY <1>1 DEF DocumentInv
    <2>2. PythonAccepts(test.policy)
      BY <1>1, <2>1, NodePoliciesHold
    <2>3. ASSUME NEW case \in Items(Get(test.cases, "cases")), PortableCall(file, CallOf(case))
          PROVE  CasePasses(case, file, PythonEvaluatePolicy(file, CallOf(case)))
      <3>1. CasePasses(case, file, EvaluatePolicy(file, CallOf(case)))
        BY <2>1, <2>3 DEF TestsPass
      <3>2. /\ Core!Prioritised(file.policies) /\ DOMAIN file.policies \subseteq Nat
            /\ Core!Comparable(file, CallOf(case))
        BY <2>1, <2>3, LoadedFiles
      <3>3. Core!PortableCall(file, CallOf(case))
        BY <2>3, SamePortable
      <3> HIDE DEF file
      <3>4. Core!PythonEvaluatePolicy(file, CallOf(case)) = Core!EvaluatePolicy(file, CallOf(case))
        BY <3>2, <3>3, CoreAssumptions, Core!EvaluationsAgree
      <3> QED
        BY <3>1, <3>4, SameEvaluation, SamePythonEvaluation
    <2> QED
      BY <2>2, <2>3
  <1>2. DocumentInv => TestedPoliciesHoldInPython
    BY <1>1 DEF TestedPoliciesHoldInPython
  <1> QED
    BY <1>2, DocumentsAreRead, PTL

=============================================================================
