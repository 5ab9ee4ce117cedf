--------------------------------- MODULE Drift ---------------------------------
(***************************************************************************)
(* packages/cli, drift commands: enforra drift baseline reads the tool     *)
(* manifest and writes the baseline in place; enforra drift check reads    *)
(* the manifest, then the baseline, then its option files, and exits with  *)
(* 1 where it finds drift of the chosen severity.  The two may overlap,    *)
(* users save manifests in between, and drift baseline may die.            *)
(***************************************************************************)
EXTENDS DriftCore

CONSTANTS
    Manifests,      \* the manifests a user may save, one of them at a time
    PolicyOptions,  \* the files that may be given to --policy,
    RuleOptions,    \* --lint-rules
    ProfileOptions, \* and --risk-profile: Missing, Malformed or the contents
    Inputs,         \* the tool calls the policies are asked about
    MaxSaves        \* bound: how often a user saves a manifest

(* What the declared types and parsePolicyFile say, as far as the proofs   *)
(* need.                                                                   *)
ASSUME DriftAssumption ==
    /\ Missing \notin Manifests /\ Missing \notin Severity
    /\ \A m \in Manifests : \A i \in DOMAIN m.tools : IsTool(m.tools[i])
    /\ \A file \in PolicyOptions \ {Missing, Malformed} :
          /\ DOMAIN file.policies \subseteq Nat \ {0}
          /\ \A i \in DOMAIN file.policies : file.policies[i].priority \in Nat
    /\ \A call \in Inputs : "tool" \in DOMAIN call

VARIABLES
    manifest,   \* the manifest on disk
    baseline,   \* the baseline on disk
    source,     \* the manifest that baseline was made from (history)
    recorder,   \* where enforra drift baseline is, and what it read
    checker,    \* where enforra drift check is, what it read and what it reports
    saves

vars == <<manifest, baseline, source, recorder, checker, saves>>

FailLevel == {"none", "low", "medium", "high"}

(* What is left of a file between the truncation and the end of a write.   *)
Cut == [json |-> FALSE, version |-> 0, tools |-> <<>>]

-----------------------------------------------------------------------------
(* enforra drift baseline.                                                 *)

UserSaves(m) ==
    /\ saves < MaxSaves
    /\ saves' = saves + 1
    /\ manifest' = m
    /\ UNCHANGED <<baseline, source, recorder, checker>>

(* An invalid or missing manifest ends the command with 1.                 *)
BaselineReads ==
    /\ recorder.pc = "idle"
    /\ manifest # Missing
    /\ ManifestParses(manifest)
    /\ recorder' = [pc |-> "open", read |-> manifest]
    /\ UNCHANGED <<manifest, baseline, source, checker, saves>>

BaselineOpens ==
    /\ recorder.pc = "open"
    /\ baseline' = Cut
    /\ source' = Missing
    /\ recorder' = [recorder EXCEPT !.pc = "write"]
    /\ UNCHANGED <<manifest, checker, saves>>

BaselineWrites ==
    /\ recorder.pc = "write"
    /\ baseline' = createToolBaseline(recorder.read)
    /\ source' = recorder.read
    /\ recorder' = [pc |-> "idle", read |-> Missing]
    /\ UNCHANGED <<manifest, checker, saves>>

BaselineDies ==
    /\ recorder.pc # "idle"
    /\ recorder' = [pc |-> "idle", read |-> Missing]
    /\ UNCHANGED <<manifest, baseline, source, checker, saves>>

-----------------------------------------------------------------------------
(* enforra drift check.                                                    *)

NotChecked ==
    [pc |-> "idle", tools |-> Missing, baseline |-> Missing, source |-> Missing,
     options |-> Missing, drifts |-> {}, affected |-> {}, exit |-> -1]

CheckReadsTools ==
    /\ checker.pc = "idle"
    /\ manifest # Missing
    /\ checker' = [checker EXCEPT !.pc = "tools", !.tools = manifest]
    /\ UNCHANGED <<manifest, baseline, source, recorder, saves>>

CheckReadsBaseline ==
    /\ checker.pc = "tools"
    /\ baseline # Missing
    /\ checker' = [checker EXCEPT !.pc = "baseline", !.baseline = baseline, !.source = source]
    /\ UNCHANGED <<manifest, baseline, source, recorder, saves>>

Exit(exit) == [checker EXCEPT !.pc = "exited", !.exit = exit]

(* A file that is not there.                                               *)
CheckFindsNoFile ==
    /\ \/ checker.pc = "idle" /\ manifest = Missing
       \/ checker.pc = "tools" /\ baseline = Missing
    /\ checker' = Exit(1)
    /\ UNCHANGED <<manifest, baseline, source, recorder, saves>>

(* A rules file the command accepts: isSafeRegex of every pattern.         *)
RulesAccepted(rules) == rules # Malformed /\ \A rule \in rules : rule.safe

Accepted(options) ==
    /\ options.policy # Malformed
    /\ options.rules # Missing => RulesAccepted(options.rules)
    /\ options.profile # Missing => RiskProfileAccepted(options.profile)

DocumentsParse == ManifestParses(checker.tools) /\ BaselineParses(checker.baseline)

CheckRejects ==
    /\ checker.pc = "baseline"
    /\ \E options \in [policy : PolicyOptions, rules : RuleOptions, profile : ProfileOptions] :
          ~DocumentsParse \/ ~Accepted(options)
    /\ checker' = Exit(1)
    /\ UNCHANGED <<manifest, baseline, source, recorder, saves>>

Rank == [low |-> 1, medium |-> 2, high |-> 3]

(* A drift without a severity never fails the command.                     *)
shouldFail(drifts, failOn) ==
    /\ failOn # "none"
    /\ \E drift \in drifts : drift.severity # Missing /\ Rank[drift.severity] >= Rank[failOn]

CheckReports(failOn, policy, rules, profile) ==
    LET options == [failOn |-> failOn, policy |-> policy, rules |-> rules, profile |-> profile]
        drifts == AllDrifts(checker.tools, checker.baseline, IF rules = Missing THEN {} ELSE rules, profile)
    IN  /\ checker.pc = "baseline"
        /\ DocumentsParse
        /\ Accepted(options)
        /\ checker' = [Exit(IF shouldFail(drifts, failOn) THEN 1 ELSE 0) EXCEPT
                         !.options = options,
                         !.drifts = drifts,
                         !.affected = IF policy = Missing THEN {} ELSE analyzePolicyImpact(drifts, policy)]
        /\ UNCHANGED <<manifest, baseline, source, recorder, saves>>

-----------------------------------------------------------------------------
Init ==
    /\ manifest = Missing
    /\ baseline = Missing
    /\ source = Missing
    /\ recorder = [pc |-> "idle", read |-> Missing]
    /\ checker = NotChecked
    /\ saves = 0

Next ==
    \/ \E m \in Manifests : UserSaves(m)
    \/ BaselineReads
    \/ BaselineOpens
    \/ BaselineWrites
    \/ BaselineDies
    \/ CheckReadsTools
    \/ CheckReadsBaseline
    \/ CheckFindsNoFile
    \/ CheckRejects
    \/ \E failOn \in FailLevel, policy \in PolicyOptions, rules \in RuleOptions, profile \in ProfileOptions :
          CheckReports(failOn, policy, rules, profile)

Spec == Init /\ [][Next]_vars

-----------------------------------------------------------------------------
Reported == checker.pc = "exited" /\ checker.options # Missing

(* Where an endpoint leads, without what may be secret in it; an empty one *)
(* leads as little anywhere as none.                                       *)
Place(endpoint) == IF endpoint = Missing THEN "" ELSE endpoint.place

(* What docs/tool-drift.md promises to watch of a tool.                    *)
Watched(tool) ==
    <<[tool EXCEPT !.endpoint = Missing, !.serverEndpoint = Missing], Place(ServerEndpoint(tool))>>

WatchedTools(doc) == {Watched(doc.tools[i]) : i \in DOMAIN doc.tools}

(* With a risk profile and --fail-on low, enforra drift check exits with 0 *)
(* only where it read a whole baseline and the manifest it read has the    *)
(* same tools as the one that baseline was made from, each the same in     *)
(* everything that is watched; however the commands and the saves overlap, *)
(* and whatever a dead enforra drift baseline left behind.                 *)
CleanCheckMeansUnchanged ==
    checker.exit = 0 /\ checker.options.failOn = "low" /\ checker.options.profile # Missing =>
        /\ checker.source # Missing
        /\ WatchedTools(checker.tools) = WatchedTools(checker.source)

(* An endpoint of which the entry and the comparison make two things: not  *)
(* a URL, and what is left after its first "@" has another "@" before its  *)
(* path, or is a URL that new URL writes in another way.                   *)
ReadTwoWays(tool) ==
    LET endpoint == ServerEndpoint(tool)
    IN  /\ endpoint # Missing
        /\ \/ Len(endpoint.texts) > 2
           \/ Len(endpoint.texts) = 2 /\ endpoint.texts[2] # endpoint.place

(* A manifest that has not changed since its baseline was made shows no    *)
(* drift, whatever its endpoints hold and whatever the severities, but for *)
(* what the lint rules say of it, and but for endpoints that are no URLs   *)
(* and have an "@", where what follows it would be sanitised to something  *)
(* else once more, which the entry does and the comparison does not.       *)
OwnBaselineIsClean ==
    Reported /\ checker.tools = checker.source =>
        \A drift \in checker.drifts :
            \/ drift.type = "capability_metadata_mismatch"
            \/ /\ drift.type = "endpoint_changed"
               /\ \E i \in DOMAIN checker.tools.tools :
                     checker.tools.tools[i].name = drift.tool /\ ReadTwoWays(checker.tools.tools[i])

(* Where a call to a drifted tool would be allowed by a rule of the        *)
(* policy, the check names that rule for that tool; and where it would be  *)
(* allowed by default, and the tool is new and of high risk, it names the  *)
(* tool, unless some rule does already.                                    *)
AllowedDriftIsReported ==
    Reported /\ checker.options.policy # Missing =>
        LET file == checker.options.policy
            named(tool) == {a.policy : a \in {b \in checker.affected : b.tool = tool}}
        IN  \A drift \in checker.drifts, call \in Inputs :
                LET evaluation == EvaluatePolicy(file, [call EXCEPT !.tool = drift.tool])
                IN  evaluation.observed = "allow" =>
                        IF evaluation.matched # 0
                        THEN file.policies[evaluation.matched].id \in named(drift.tool)
                        ELSE \/ drift.type # "new_tool" \/ drift.severity # "high"
                             \/ named(drift.tool) # {}
                             \/ \E r \in DOMAIN file.policies : file.policies[r].tool = drift.tool

=============================================================================
