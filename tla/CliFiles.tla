------------------------------- MODULE CliFiles -------------------------------
(***************************************************************************)
(* packages/cli: the policy file and its test cases on disk.  enforra init *)
(* looks for the two files and then writes them, one after the other, each *)
(* truncated first; enforra test reads both and runs the cases (packages/  *)
(* policy-simulator); in between users edit the files, other processes do  *)
(* the same, and a process may die.                                        *)
(***************************************************************************)
EXTENDS PolicyDocument
LOCAL INSTANCE SequencesExt

CONSTANTS
    Process,        \* the processes that run enforra init
    UserPolicies,   \* the policy documents a user may save
    UserCases       \* the case documents a user may save

VARIABLES
    disk,       \* the document in each file; Undefined: there is no such file
    init,       \* where each process is in runInit
    test,       \* where enforra test is in runTest, what it read, its exit code
    saved       \* the files a user saved; bound: each of them once

vars == <<disk, init, test, saved>>

File == {"policy", "cases"}

pathExists(file) == disk[file] # Undefined

-----------------------------------------------------------------------------
(* The starter files.                                                      *)

Word(word) == Text(<<word>>)
One == Number(1, <<"1">>)

StarterCondition(field, operator, value) ==
    Object([field |-> Text(field), operator |-> Word(operator), value |-> value])

StarterRule(id, priority, tool, decision) ==
    [id |-> Word(id), priority |-> Number(priority, <<"">>), match |-> Object([tool |-> Word(tool)]),
     decision |-> Word(decision)]

WithConditions(rule, group, list) ==
    [id |-> rule.id, priority |-> rule.priority, match |-> rule.match, decision |-> rule.decision,
     conditions |-> Object([g \in {group} |-> List(list)])]

starterPolicy ==
    Object([version |-> One, defaults |-> Object([decision |-> Word("block")]), policies |-> List(<<
        Object(WithConditions(
            StarterRule("block-production-customer-delete", 10, "db.deleteTable", "block"), "all", <<
                StarterCondition(<<"args", "table">>, "eq", Word("customers")),
                StarterCondition(<<"context", "environment">>, "eq", Word("production"))>>)),
        Object(WithConditions(
            StarterRule("approve-external-email", 20, "email.send", "require_approval"), "any", <<
                StarterCondition(<<"args", "recipient">>, "not_contains", Word("@example.com"))>>)),
        Object(StarterRule("log-github-issue", 30, "github.create_issue", "log_only"))>>)])

StarterCall(tool, args) == [agent |-> Word("ops-agent"), tool |-> Word(tool), args |-> Object(args)]

Case(input, expect) == Object([name |-> Word("case"), input |-> Object(input), expect |-> Object(expect)])

starterCases ==
    LET matched(decision, id) == [decision |-> Word(decision), matchedPolicyId |-> Word(id)]
    IN  Object([version |-> One, cases |-> List(<<
            Case([agent |-> Word("ops-agent"), tool |-> Word("db.deleteTable"),
                  args |-> Object([table |-> Word("customers")]),
                  context |-> Object([environment |-> Word("production")])],
                 matched("block", "block-production-customer-delete")),
            Case(StarterCall("email.send", [recipient |-> Text(<<"external", "@outside.com">>)]),
                 matched("require_approval", "approve-external-email")),
            Case(StarterCall("github.create_issue", [title |-> Word("Review production change")]),
                 matched("log_only", "log-github-issue")),
            Case(StarterCall("unknown.tool", NoProps), [decision |-> Word("block")])>>)])

Starter == [policy |-> starterPolicy, cases |-> starterCases]

-----------------------------------------------------------------------------
(* packages/policy-simulator.                                              *)

(* policyCasesFileSchema; a context is optional.                           *)
CasesAccepted(doc) ==
    /\ OnlyKeys(doc, {"version", "cases"})
    /\ Get(doc, "version").type \in {"number", "float"} /\ Get(doc, "version").number = 1
    /\ NonEmptyList(Get(doc, "cases"))
    /\ \A case \in Items(Get(doc, "cases")) :
          LET input == Get(case, "input")
              expect == Get(case, "expect")
          IN  /\ OnlyKeys(case, {"name", "input", "expect"}) /\ NonEmptyText(Get(case, "name"))
              /\ OnlyKeys(input, {"agent", "tool", "args", "context"})
              /\ NonEmptyText(Get(input, "agent")) /\ NonEmptyText(Get(input, "tool"))
              /\ Get(input, "args").type = "object"
              /\ Get(input, "context").type \in {"undefined", "object"}
              /\ OnlyKeys(expect, {"decision", "matchedPolicyId"})
              /\ IsWord(Get(expect, "decision"), Decision)
              /\ Missing(Get(expect, "matchedPolicyId")) \/ NonEmptyText(Get(expect, "matchedPolicyId"))

CallOf(case) ==
    LET input == Get(case, "input")
    IN  [agent |-> Get(input, "agent").text[1], tool |-> Get(input, "tool").text[1],
         args |-> Get(input, "args"), context |-> Get(input, "context")]

(* runPolicyTest, of an evaluation of the case.                            *)
CasePasses(case, file, evaluation) ==
    LET expect == Get(case, "expect")
        matchedId == Get(expect, "matchedPolicyId")
    IN  /\ evaluation.decision = Get(expect, "decision").text[1]
        /\ Missing(matchedId) \/
              (evaluation.matched # 0 /\ file.policies[evaluation.matched].id = matchedId.text[1])

(* runPolicyTests.                                                         *)
TestsPass(policyDoc, casesDoc) ==
    LET file == LoadPolicy(policyDoc)
    IN  \A case \in Items(Get(casesDoc, "cases")) :
            CasePasses(case, file, EvaluatePolicy(file, CallOf(case)))

-----------------------------------------------------------------------------
(* What users save.                                                        *)

(* What a YAML or JSON document holds: no value in it is undefined, there  *)
(* is one null and one NaN, numbers are integers here, and a text is empty *)
(* or not.                                                                 *)
Readable(object) ==
    \A value \in Items(object) :
        /\ value.type # "undefined"
        /\ value.type = "null" => value = Null
        /\ value.type = "nan" => value = NaN
        /\ value.number \in Int
        /\ Len(value.text) \in Nat /\ (Len(value.text) = 0 => value.text = <<>>)
        /\ value.type = "array" => DOMAIN value.props \subseteq Nat

(* Stated of every object of a policy document that the SDKs look into.    *)
ReadablePolicy(doc) ==
    /\ Readable(doc) /\ Readable(Get(doc, "defaults"))
    /\ \A rule \in Items(Get(doc, "policies")) :
          LET conditions == Get(rule, "conditions")
              listed == Items(conditions) \cup UNION {Items(group) : group \in Items(conditions)}
          IN  /\ Readable(rule) /\ Readable(Get(rule, "match"))
              /\ \A c \in listed : Readable(c)

(* A number has one text: what a case has where a condition looks is the   *)
(* condition's value if it has its type and its number.                    *)
OneText(doc, casesDoc) ==
    NodeAccepts(doc) =>
        \A rule \in Items(Get(doc, "policies")), case \in Items(Get(casesDoc, "cases")) :
            LET conditions == LoadConditions(Get(rule, "conditions"))
            IN  \A c \in conditions.all \cup conditions.any :
                    LET actual == GetPathValue(CallOf(case), c.field)
                    IN  (Numeric(actual) /\ actual.type = c.value.type /\ actual.number = c.value.number) =>
                            actual = c.value

ASSUME CliFilesAssumption ==
    /\ Undefined \notin UserPolicies \cup UserCases
    /\ \A doc \in UserPolicies : ReadablePolicy(doc)
    /\ \A doc \in UserPolicies, casesDoc \in UserCases \cup {starterCases} : OneText(doc, casesDoc)

-----------------------------------------------------------------------------
(* enforra init.                                                           *)

(* idle --> (check_policy --> check_cases -->) open_policy --> write_policy *)
(* --> open_cases --> write_cases --> created; or refused, or dead.         *)

OpenPc  == [policy |-> "open_policy", cases |-> "open_cases"]
WritePc == [policy |-> "write_policy", cases |-> "write_cases"]

NotStarted == [pc |-> "idle", force |-> FALSE, found |-> FALSE, had |-> {}]

End(p, pc) == init' = [init EXCEPT ![p] = [NotStarted EXCEPT !.pc = pc]]

Goto(p, pc) == init' = [init EXCEPT ![p].pc = pc]

(* runInit starts; had is kept for the property about init without --force. *)
RunInit(p, force) ==
    /\ init[p].pc = "idle"
    /\ init' = [init EXCEPT ![p] = [pc    |-> IF force THEN "open_policy" ELSE "check_policy",
                                    force |-> force,
                                    found |-> FALSE,
                                    had   |-> IF force THEN {} ELSE {file \in File : pathExists(file)}]]
    /\ UNCHANGED <<disk, test, saved>>

CheckPolicy(p) ==
    /\ init[p].pc = "check_policy"
    /\ init' = [init EXCEPT ![p].pc = "check_cases", ![p].found = pathExists("policy")]
    /\ UNCHANGED <<disk, test, saved>>

\* A check that only looks at the last file it asked for.
CheckCasesAlone(p) ==
    /\ init[p].pc = "check_cases"
    /\ IF pathExists("cases") THEN End(p, "refused") ELSE Goto(p, "open_policy")
    /\ UNCHANGED <<disk, test, saved>>

CheckCases(p) ==
    /\ init[p].pc = "check_cases"
    /\ IF init[p].found \/ pathExists("cases") THEN End(p, "refused") ELSE Goto(p, "open_policy")
    /\ UNCHANGED <<disk, test, saved>>

(* writeStarterFile: writeFile creates or truncates the file, and an empty *)
(* document is null to YAML.                                               *)
OpenFile(p, file) ==
    /\ init[p].pc = OpenPc[file]
    /\ disk' = [disk EXCEPT ![file] = Null]
    /\ Goto(p, WritePc[file])
    /\ UNCHANGED <<test, saved>>

WriteFile(p, file) ==
    /\ init[p].pc = WritePc[file]
    /\ disk' = [disk EXCEPT ![file] = Starter[file]]
    /\ IF file = "policy" THEN Goto(p, "open_cases") ELSE End(p, "created")
    /\ UNCHANGED <<test, saved>>

(* A case that lost its matchedPolicyId.                                   *)
CutCase(case) ==
    Object([case.props EXCEPT !["expect"] = Object([decision |-> Get(Get(case, "expect"), "decision")])])

(* What a process that dies in the middle of writing may leave: a document *)
(* that ends after some of its entries, or before the end of the last of   *)
(* them, or one that does not parse.  (What a rule ends with it cannot do  *)
(* without, and no rule has a part of an id: these fail like the latter.)  *)
Cuts(file) ==
    LET key == IF file = "policy" THEN "policies" ELSE "cases"
        doc == Starter[file]
        entries == Get(doc, key).props
        Short(list) == Object([doc.props EXCEPT ![key] = List(list)])
    IN  {Null, Word("unparsable")} \cup
        {Short(SubSeq(entries, 1, n)) : n \in 1 .. Len(entries) - 1} \cup
        {Short([SubSeq(entries, 1, n) EXCEPT ![n] = CutCase(entries[n])]) :
            n \in {n \in 1 .. Len(entries) - 1 : file = "cases"}}

InitDies(p) ==
    /\ init[p].pc \notin {"idle", "created", "refused", "dead"}
    /\ End(p, "dead")
    /\ \/ \E file \in File :
             /\ init[p].pc = WritePc[file]
             /\ \E cut \in Cuts(file) : disk' = [disk EXCEPT ![file] = cut]
       \/ /\ \A file \in File : init[p].pc # WritePc[file]
          /\ UNCHANGED disk
    /\ UNCHANGED <<test, saved>>

-----------------------------------------------------------------------------
(* enforra test, and the users.                                            *)

Ready == [pc |-> "idle", policy |-> Undefined, cases |-> Undefined, exit |-> -1]

(* The two files are read concurrently: in either order, each when its     *)
(* turn comes.                                                             *)
ReadFile(file) ==
    /\ test.pc = "idle"
    /\ test[file] = Undefined
    /\ pathExists(file)
    /\ test' = [test EXCEPT ![file] = disk[file]]
    /\ UNCHANGED <<disk, init, saved>>

(* A file that is not there, or whose document its schema rejects.         *)
TestFails ==
    /\ test.pc = "idle"
    /\ \E file \in File :
          \/ test[file] = Undefined /\ ~pathExists(file)
          \/ file = "policy" /\ test.policy # Undefined /\ ~NodeAccepts(test.policy)
          \/ file = "cases" /\ test.cases # Undefined /\ ~CasesAccepted(test.cases)
    /\ test' = [test EXCEPT !.pc = "done", !.exit = 1]
    /\ UNCHANGED <<disk, init, saved>>

RunTests ==
    /\ test.pc = "idle"
    /\ NodeAccepts(test.policy)
    /\ CasesAccepted(test.cases)
    /\ test' = [test EXCEPT !.pc = "done", !.exit = IF TestsPass(test.policy, test.cases) THEN 0 ELSE 1]
    /\ UNCHANGED <<disk, init, saved>>

(* A user saves a file, at a time nobody else is writing it.               *)
UserSaves(file) ==
    /\ file \notin saved
    /\ saved' = saved \cup {file}
    /\ \A p \in Process : init[p].pc # WritePc[file]
    /\ \E doc \in (IF file = "policy" THEN UserPolicies ELSE UserCases) : disk' = [disk EXCEPT ![file] = doc]
    /\ UNCHANGED <<init, test>>

-----------------------------------------------------------------------------
Init ==
    /\ disk = [file \in File |-> Undefined]
    /\ init = [p \in Process |-> NotStarted]
    /\ test = Ready
    /\ saved = {}

Next ==
    \/ \E p \in Process :
          \/ \E force \in BOOLEAN : RunInit(p, force)
          \/ CheckPolicy(p)
          \/ CheckCases(p)
          \/ \E file \in File : OpenFile(p, file) \/ WriteFile(p, file)
          \/ InitDies(p)
    \/ \E file \in File : ReadFile(file) \/ UserSaves(file)
    \/ TestFails
    \/ RunTests

Spec == Init /\ [][Next]_vars

-----------------------------------------------------------------------------
(* enforra init without --force truncates no file that was there when it   *)
(* was started, whoever else creates, edits or initialises files in the    *)
(* meantime; what it can overwrite is a file that appeared after its       *)
(* check.                                                                  *)
InitKeepsEarlierFiles ==
    [][\A p \in Process, file \in File :
          OpenFile(p, file) => file \notin init[p].had]_vars

FloatPriority(doc) == \E rule \in Items(Get(doc, "policies")) : Get(rule, "priority").type = "float"

(* What only the Python SDK lets pass: a key it does not know, a null, a   *)
(* boolean where a number belongs, a value that is not a number.           *)
Loose(doc) ==
    LET nulls(object) == \E key \in DOMAIN object.props : object.props[key] = Null
        unknown(object, keys) == object.type = "object" /\ ~OnlyKeys(object, keys)
        loose(rule) ==
            \/ unknown(rule, {"id", "description", "priority", "match", "conditions", "decision"})
            \/ unknown(Get(rule, "match"), {"agent", "tool"})
            \/ unknown(Get(rule, "conditions"), {"all", "any"})
            \/ nulls(rule) \/ nulls(Get(rule, "match"))
            \/ Get(rule, "priority").type = "boolean"
            \/ \E c \in LoadConditions(Get(rule, "conditions")).all
                        \cup LoadConditions(Get(rule, "conditions")).any : c.value = NaN
    IN  \/ unknown(doc, {"version", "mode", "observe_only", "defaults", "policies"})
        \/ unknown(Get(doc, "defaults"), {"decision"})
        \/ nulls(doc) \/ nulls(Get(doc, "defaults"))
        \/ Get(doc, "version").type = "boolean"
        \/ \E rule \in Items(Get(doc, "policies")) : loose(rule)

(* The two SDKs accept the same policy files, but for what is loose: Node  *)
(* accepts nothing Python rejects except a priority written 1.0, and what  *)
(* Python alone accepts has a key the schemas do not name, a null, a       *)
(* boolean for a number or NaN.                                            *)
LoadersAgree ==
    /\ NodeAccepts(disk.policy) => PythonAccepts(disk.policy) \/ FloatPriority(disk.policy)
    /\ PythonAccepts(disk.policy) => NodeAccepts(disk.policy) \/ Loose(disk.policy)

(* A policy that enforra test passed decides every portable case of that   *)
(* run as expected in the Python SDK too, which loads the same document;   *)
(* but for a priority written 1.0, which it rejects.  This includes the    *)
(* documents a dead enforra init left cut short.                           *)
TestedPoliciesHoldInPython ==
    test.exit = 0 =>
        \/ /\ PythonAccepts(test.policy)
           /\ LET file == LoadPolicy(test.policy)
              IN  \A case \in Items(Get(test.cases, "cases")) :
                     PortableCall(file, CallOf(case)) =>
                        CasePasses(case, file, PythonEvaluatePolicy(file, CallOf(case)))
        \/ FloatPriority(test.policy)

=============================================================================
