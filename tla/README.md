# Enforra, verified

Enforra decides locally whether an agent may make a tool call, and keeps a local
record of what it decided. This directory holds TLA+ models of that code, TLC
configurations that check them on small instances, and theorems about them that
TLAPS proves for every value of the constants. Paths are relative to `src/`.

## 1. The system

| component | where | state it keeps | operations | status |
|---|---|---|---|---|
| policy-core | `packages/policy-core` | none; a policy file is loaded once | parse, `evaluatePolicy`, `evaluatePolicyWithTrace` | modelled |
| local-audit | `packages/local-audit` | the JSONL audit file | `append` (with or without a hash chain), `verifyAuditLog` | modelled |
| sdk-node | `packages/sdk-node` | one async call frame per tool call | `createEnforraClient`, `enforceToolCall` | modelled |
| mcp | `packages/mcp` | none | `guardMcpTool`, `wrapMcpTool` around `enforceToolCall` | modelled |
| sdk-python | `packages/sdk-python` | the policy file, an audit file opened per event | load, evaluate, `run_tool` | modelled |
| drift-core | `packages/drift-core` | none; baselines are passed in | baseline, compare, lint, severity, policy impact | modelled but for malformed field types and report details |
| cli drift | `packages/cli/src/drift` | the baseline file | `drift baseline`, `drift check` | modelled but for formats and options |
| cli, rest | `packages/cli/src` | the policy and case files | `init`, `test`, `report`, `audit verify`, `doctor` | `init`, `test`, the counts of `report` |
| policy-simulator | `packages/policy-simulator` | none | case files, `runPolicyTests` | modelled but for printing |
| command-guard | `packages/command-guard` | none | `classifyCommand`: eight detectors, mappings, fallback | modelled over words |
| policies, examples, docs | | | inputs, and what the findings quote | inputs |

**How they interact.** An application calls `enforceToolCall` with the arguments
of a tool call and a callback. The SDK evaluates the policy (policy-core),
appends an event with the decision (local-audit), and only then enters the
callback; afterwards it appends an event with the outcome and returns a result.
Calls of one client, of several clients and of the Python SDK may share one
audit file. There are no locks: JavaScript gives up control at every `await`,
and the file is the only shared state.

**What is hard.** Appends of concurrent calls interleave between their `mkdir`,
`readFile` and `appendFile`. An `appendFile` may write nothing, part of a line,
or all of it, and still reject. The process may stop anywhere. The argument
object belongs to the application, which may change it while the call is in
flight. The callback may return, throw or hang. Two evaluation functions and
two language implementations have to agree. Rule order depends on priorities,
ties and file position together.

**What makes each component correct.**

- policy-core: the first matching rule in the documented order decides; the
  order is total; the trace and the decision agree; no rule and no default means
  refused; a missing field never helps a rule to match; observe mode never
  refuses and keeps what it observed.
- local-audit: an acknowledged event is in the file, once and for good; a torn
  write costs little and is never chained onto; a chain that verifies holds what
  was written; `firstInvalidLine` points at the damage; every append settles.
- sdk-node: no callback without a permitting decision and an acknowledged
  record of it; at most once; the result tells the truth whatever failed; the
  trail of a call can be read and replayed; every call returns that can.
- mcp: the wrapper adds no way to run a refused tool, a reply says whether the
  tool ran, and a rejection leaves either nothing behind or everything.
- sdk-python: the same gate with exceptions instead of results, and the same
  decision as Node for the same policy and call wherever the two languages
  compare values alike.
- cli files: `init` destroys nothing it found, and a policy `enforra test` passed
  is the policy both SDKs run.
- report: every line and every call is accounted for, whatever processes did to
  each other's lines.
- drift: exit code 0 under the strictest options means nothing that is watched
  changed; an unchanged manifest shows no drift; the rule that lets a drifted
  tool run is named.
- command-guard: no finding is lost or lowered on the way to the verdict,
  whatever its position, and options only add.

## 2. Modules

```
PolicyDecision          decisions, observe mode
   |        \
PolicyConditions         \
   |                      \         AuditChain        bytes of the file, digest, verify
PolicyRules                \        /       \
   |      \                 LocalAudit      AuditEdits
PolicyCore  \                   |
             \               SdkNode  --- refines --->  EnforcementGate
              MCSdkNode -----/

PolicyRules -> PolicyPython -> PolicyDocument -> CliFiles       two SDKs, one policy file
PolicyCore, PolicyPython -> PolicyParity
PolicyRules -> DriftCore -> Drift
SdkNode -> McpTool   \
SdkNode -> SdkPython  > MixedSdks                               two SDKs, one audit file
AuditChain -> AuditReport /
CommandDetectors -> CommandGuard

proofs:  LocalAuditProofs -> SdkNodeProofs -> MixedSdksProofs
         PolicyCoreProofs - - INSTANCE - - > CliFilesProofs
         AuditEditsProofs      DriftProofs      CommandGuardProofs
```

| module | models | state and actions in the code |
|---|---|---|
| `PolicyDecision` | `policy-core`: decisions, observe mode | `EffectiveDecision` is what `evaluatePolicy` makes of the observed decision |
| `PolicyConditions` | `getPathValue`, `evaluateCondition`, the condition groups | pure operators over JSON values |
| `PolicyRules` | rule match, comparator, `evaluatePolicy` | pure operators; `Before` is the sign of the comparator |
| `PolicyCore` | `evaluatePolicyWithTrace` | `traced`, `matched`: the loop's array and variable; `TraceRule` is one iteration, `Decide` what follows the loop, with this function's own copies of the default decision and of observe mode |
| `AuditChain` | the file's lines, the digest, `readLastIntegrityHash`, what `appendFile` leaves behind, `verifyAuditLog` | pure operators |
| `LocalAudit` | `append` of all loggers on one file | `append[c]` is the frame of caller c's `append`: where it waits, its event, the hash it read; one action per await |
| `AuditEdits` | one logger and a file that something else edits between its appends | `AppendEvent`, and one action per kind of edit |
| `SdkNode` | `enforceToolCall`, any number of concurrent calls | `phase[c]` is the await the call is at; one action per continuation; the application (`MutateArgs`, `CallbackReturns`, `CallbackThrows`) and `ProcessStops` |
| `EnforcementGate` | the abstract promise: judge, attest, enter, end, record, tell | no code: `SdkNode` implements it |
| `PolicyPython` | `policy.py`: `evaluate_policy` and its helpers | pure operators over the same rules and calls; `Portable` says where the two languages compare alike |
| `PolicyParity` | `PolicyCore` and `PolicyPython` side by side | the property `PythonDecidesAlike`, and what it asks of files and calls (`Comparable`) |
| `PolicyDocument` | what the zod schemas and `parse_policy_yaml` accept, and the policy file both make of it | pure operators over a document |
| `CliFiles` | `runInit`, `writeStarterFile`, `runTest`, `runPolicyTests` | `disk`: the two files; `init[p]`: where process p is in `runInit`; `test`: what `runTest` has read and its exit code |
| `McpTool` | `guardMcpTool`, `wrapMcpTool` | `reply[c]`: what the caller got; the steps in between are `SdkNode`'s |
| `SdkPython` | `run_tool`, `LocalAuditLogger.append` | `raised[c]`: the exception that left the call; phases and results are `SdkNode`'s |
| `AuditReport` | `buildAuditReport` | pure operators over the lines of a file |
| `MixedSdks` | an MCP server in Node and a Python client on one audit file | the union of the steps of `McpTool` and `SdkPython`, and one process that stops |
| `DriftCore` | `packages/drift-core` | pure operators over tools, baselines, profiles and rules |
| `Drift` | `runDriftBaseline`, `runDriftCheck` | `manifest`, `baseline`: files; `recorder`, `checker`: where each command is and what it read; one action per await |
| `CommandDetectors` | the eight detectors and their tables | pure operators over the words of a command |
| `CommandGuard` | `classifyCommand` | `step`, `verdict`: the loops' position and the accumulated tool, category, signals, risk and detectors |

`SdkNode` extends `LocalAudit`: its `AuditStep` takes the very steps of `append`
that `LocalAudit` checks on their own. The policy is a function from inputs to
decisions there; `MCSdkNode` computes it with `PolicyRules` from the refund rules
of the support-agent starter policy.

Definitions preceded by a `\*` comment ("A client that ...", "A reader that ...")
are mutants: plausible bugs, used to check that each property can fail. No
specification uses them.

**Abstractions.**

- A hash is the pair of the content it covers and the content the previous hash
  covered: distinct inputs have distinct hashes. That is all the code asks of
  SHA-256. `Canonical` leaves out keys named `hash`, as `toCanonicalValue` does.
- A line is one event, or `Garbage` where it does not parse. A partly written
  line is garbage; so are two texts on one line. `open` is a last line without
  its newline. An "unterminated" write is the whole JSON text and no newline.
- An event is its caller, status, decisions and arguments. Its UUID is the pair
  of caller and status, which no call repeats. `Input` is what is left of the
  arguments after redaction: two arguments that differ only in redacted fields
  are one `Input`. Redaction is deterministic and touches no decision.
- The policy file is loaded before the first call. The YAML text and the schema
  are left out: a policy file is what parsing yields. A field path is its
  sequence of segments and a text a sequence of characters.
- The name of a call's tool and its agent are part of `Input`; latency and
  timestamps are left out.
- A policy or case document is the JSON value its YAML parser yields, and both
  parsers are taken to yield the same one. An integer written `1.0` is a value of
  its own kind (`Float`), because the two SDKs treat it differently.
- An empty file is a `null` document. A file that a dead process was writing is
  empty, or does not parse, or ends after some of its rules or cases, the last of
  which may have lost its `matchedPolicyId`: YAML is still valid there. What else a
  cut can leave is a rule or case without a required key, which is rejected as a
  text that does not parse is, or an id that no rule has. A cut baseline is not a
  document: JSON does not parse without its end.
- `Verify` is `verifyAuditLog` of a file that can be read; without one it returns
  an invalid verdict and no line.
- Python's `run_tool` is synchronous: its `append` is one step, which either
  writes the whole line or raises after writing none, part or all of it. Its event
  is built before anything is written. A `KeyboardInterrupt` may leave the call
  before a write, in it (the write is then cut), after it, and before, in or after
  the handler (`Interrupted`).
- A tool of a manifest is a record of the declared types. An endpoint is what
  `sanitizeEndpoint` can tell apart: its text without query and hash, and what is
  left of that text each time it is cut at its first `@`, until it has none before
  its path or is a URL to `new URL` (`texts`); what sanitising makes of the last of
  these, a URL in the spelling of `new URL` or the text itself (`place`); and the
  query with the hash. Each call of `sanitizeEndpoint` parses anew: of
  `bot@Files:8080` the first leaves `Files:8080`, a URL to the second, which writes
  `files:8080`. A lint pattern is the set of texts it finds something in, and a text
  is a name with a description (`MetadataText`).
- A command is a sequence of arguments and an argument a sequence of words. The
  detectors' patterns are matched against whole words; the flags of `rm` that the
  two functions treat differently are spelt out (`RecursiveFlag`,
  `RecursivePattern`).

## 3. Runs

All bounds are in the `.cfg` and the MC modules.

| run | question | instance | states |
|---|---|---|---|
| `PolicyCore` | is evaluation what the documentation says, the trace the same, and Python's decision too? | every file of 0..3 rules from a pool of 7, both modes, with and without default; 7 calls | 94,000 |
| `LocalAudit` | what does the file guarantee when appends interleave and fail? | 3 callers, every mix of integrity options, all 6 I/O faults, crashes | 12,000 |
| `AuditEdits` | what does `verifyAuditLog` detect? | 3 events, 2 edits of 8 kinds, 2 contents | 88,000 |
| `SdkNode` | do the gate, the trail and the results hold under concurrency? | 2 calls, 2 inputs, both integrity modes, both enforcement modes, 4 write faults, mutation, crash | 1,094,000 |
| `SdkNodeGate` | does every call return, and is the gate implemented? | 2 calls, one input per decision, 2 faults | 108,000 |
| `SdkNodeFork` | finding 1 | 2 calls, no faults | violation |
| `SdkNodeTorn` | finding 2 | 2 calls, one torn write | violation |
| `AuditEditsHashKey` | finding 3 | as `AuditEdits` | violation |
| `CliFiles` | what may `init` overwrite, what do both SDKs load, and does a tested policy hold in Python? | 2 processes that may die, 17 policies and 4 case files a user may save | 763,000 |
| `MixedSdks` | what are the callers of both SDKs told, and what does `report` count? | an MCP call and a Python call, 3 inputs, all 6 I/O faults, interrupts anywhere, either process stops | 448,000 |
| `Drift` | what does exit code 0 mean, and which rules are named? | 20 manifests, 2 saves, 6 policies, 4 rule files, 5 profiles, 4 levels | 875,000 |
| `CommandGuard` | does a verdict keep every finding? | 46 commands, 5 sets of options | 2,800 |

**Why the bounds are enough.** Two appends suffice for every race between a read
and a write; the third caller of `LocalAudit` is the one that reads the result
(four callers, 367,000 states, were also checked). A torn line needs one call to
tear it and one to follow. With two `Input`s a mutation is visible; the two in
`SdkNode` are one that enforce mode refuses and one that it permits. Three rules are one more than
the comparator looks at, so transitivity and shadowing are exercised, and the
pool has equal priorities, none, wildcards, both groups and every operator.
Three events give a first, a middle and a last line to edit, and two edits can
hide each other. `mkdir` and `read` faults are in `LocalAudit` only: for
`SdkNode` a rejected append is the same whichever operation rejected, and
"nothing" stands for all that leave the file alone. Symmetry is used in `SdkNode`
over the callers and in `CliFiles` over the processes, which start alike, and in
no run with a liveness property.

In `CliFiles` each file is saved once by a user (`saved`): one save before, between
or after the steps of two `init`s and one `test` is every order of a read, a check
and a write. The saved policies each differ in one field from one both SDKs load.
In `Drift` a user saves a manifest twice (`MaxSaves`): once for the baseline and once
before or during the check; each version changes one thing the comparison looks
at, in both directions since either of two manifests may come first. In `MixedSdks`
one call of each SDK is enough for a line of one to land on a torn line of the
other. The commands of `CommandGuard` reach every branch of every detector, and the
options every way to say something without signals, without a name or without a
risk.

`CHECK_DEADLOCK FALSE` is set because every instance ends: each caller makes one
call, the logger has a bound, an evaluation, a check and a classification return
once.

**Fairness.** `FairSpec` and `AuditSpec` assume weak fairness of the steps of each
caller's append and of the SDK's continuations: a file operation that was
started completes or fails, and the reaction to a settled promise runs, since
Node's event loop drops neither. Nothing is assumed of callbacks (they may hang),
of applications (they may make no further call) or of crashes. The other
specifications state no fairness and claim no liveness: what they model is a
command or a synchronous loop over a finite list.

### What the properties say

- `FirstMatchWins`, `TraceStopsAtTheMatch`, `TraceAgreesWithEvaluate`,
  `UnmatchedCallsAreRefused`, `MissingFieldsNeverMatch`, `PrioritiesFixTheOrder`:
  evaluation against `docs/policy-language.md`. The documented
  order is stated in its own words (`DocumentedOrder`), not by the comparator.
  `TraceAgreesWithEvaluate` compares all of `evaluatePolicyWithTrace`, its loop and its
  own copies of the default decision and of observe mode, with `evaluatePolicy`.
  `MissingFieldsNeverMatch` asks of the rule that matched that no condition of its
  `all` group, and at least one condition of its `any` group that passes, is about a
  value that is missing or of a type its operator does not compare (`OfItsType`).
- `AckedEventsOnFile`, `TornWriteCostsOneEvent`, `AppendOnly`,
  `EveryLineChainsBackwards`, `SerialLogVerifies`, `ChainedLinesComeFirst`,
  `AppendsSettle`: the audit file. Concurrent appends lose nothing, although they
  may fork the chain; the forest of lines stays rooted. Where appends do not
  overlap, a chain verifies up to a torn last line, and nothing follows that line.
- `UneditedLogVerifies`, `VerifiedLinesAreAuthentic`,
  `FirstInvalidLineLocatesEdit`: the verifier. What verifies is authentic and in
  order, even after edits that later appends built upon. A deleted tail is not
  seen, and no property claims it.
- `ExecutionGate`, `ImplementsGate`: the gate, by state and as a refinement.
- `TrailTellsTheTruth`, `OpenTrailsExplained`: what an auditor may conclude from
  the lines of one call, and why a trail may stay open.
- `ResultIsHonest`: what the caller is told, on every path, agrees with what ran.
- `OneDecisionPerCall`, `UntouchedCallsReplay`: the events carry one decision,
  and replaying the policy on a logged call gives it again if the application
  left the arguments alone (and the policy reads no redacted field).
- `CallsReturn`: liveness of calls.
- `PythonDecidesAlike`: the Python SDK decides alike, by the same rule, unless a
  condition of the file finds a `null`, compares a boolean with a number, or looks
  for the text of a boolean or number (`Portable`). Each of the three is needed:
  without it TLC finds a call on which the SDKs differ.
- `LoadersAgree`: the SDKs load the same documents, except that Python rejects a
  priority written `1.0` and lets pass what `Loose` lists: unknown keys, nulls,
  booleans for numbers, NaN. A misspelt `match.agnet` is the dangerous one: the rule
  then applies to every agent.
- `TestedPoliciesHoldInPython`: what `enforra test` passed holds in Python, for the
  tested cases that are portable, the files of a dead `init` included.
- `InitKeepsEarlierFiles`: `init` without `--force` opens no file that existed when
  it started. (It may overwrite one that appeared after its own check.)
- `McpRepliesAreHonest`, `PythonOutcomesAreBacked`: what a caller may conclude from
  a reply, a rejection, a result or an exception about whether the tool ran and
  what is on record. A rejection of a guarded MCP tool is ambiguous (before
  anything, or after everything), and the audit file tells the two apart. A failed
  write that leaves `run_tool` as an exception means that no outcome was
  acknowledged, and that the tool ran exactly if `decision_logged` was. An interrupt
  means less: a `decision_logged` event may stand alone although the handler never
  ran, and an outcome may be on record that nobody was told of; but a handler that
  ran has its `decision_logged` event, and a recorded outcome did happen.
- `ReportAccountsForCalls`: bounds on the counts of a report taken at any time. With
  no malformed line, a refusal is counted once and a call that was let through
  once or twice.
- `CleanCheckMeansUnchanged`, `OwnBaselineIsClean`, `AllowedDriftIsReported`: the drift
  commands. Exit code 0 with a risk profile and `--fail-on low` means that every
  watched field of every tool is what it was when the baseline was made. Not
  watched: an endpoint's credentials and query, a tool-level `endpoint` beside
  a server's, which shadows it, and the difference between no endpoint and one
  of which sanitising leaves nothing. An unchanged manifest shows no drift, as
  `packages/cli/test/drift.test.ts:86` says, but for some endpoints that are no URLs and hold an `@`: the entry hashes what two calls of `sanitizeEndpoint` make of
  an endpoint (`baseline.ts:18` and `:33`), the comparison what one makes of it
  (`diff.ts:148`). They differ where what follows the first `@` has another before
  its path, or is a URL that `new URL` writes in another way: `bot@Files:8080` and
  `git@GitHub.com:org/repo` drift from the baseline that was just made of them.
  `OwnBaselineIsClean` excepts exactly these (`ReadTwoWays`); without either half of the
  exception TLC finds a manifest of the run that drifts. Without a risk profile no
  drift has a severity and no check fails, as `docs/tool-drift.md` says.
- `VerdictKeepsEveryFinding`, `OptionsOnlyAdd`: `classifyCommand` keeps every signal
  and the highest risk; only tool and category are the last speaker's.

`TrailTellsTheTruth`, `OpenTrailsExplained`, `AckedEventsOnFile` and
`EveryLineChainsBackwards` speak of files without a torn line (`GarbageLines = {}`):
with one, finding 2 applies, and `TornWriteCostsOneEvent` bounds the loss.

### Findings

1. **The chain forks** (`SdkNodeFork`). `docs/audit-integrity.md:45`: "Later events
   store the hash of the previous event." `readLastIntegrityHash` and `appendFile`
   are two awaits with no lock between them; two concurrent calls of one client
   read the same last hash. The file then fails verification for good, although
   nothing but the SDK wrote it.
2. **Evidence lost to a torn line** (`SdkNodeTorn`). `docs/audit-behavior.md:117`:
   the `decision_logged` event "creates local evidence that policy allowed
   execution before the side effect occurred". Without integrity metadata `append`
   does not look at the end of the file: after a write that was cut short it
   appends to the unterminated line, resolves, and the callback runs with no
   readable record. In `hash_chain` mode `append` reads the line and rejects.
3. **Keys named `hash` are not covered** (`AuditEditsHashKey`).
   `docs/audit-integrity.md:76-78` lists "modified event content" as detected;
   `toCanonicalValue` drops keys named `hash` at every depth, such as a commit hash
   in a tool's arguments.

## 4. Proofs

Eight proof modules. Every safety invariant and every action property that a
passing run checks is the conclusion of a theorem, for all values of the
constants under the named assumptions below: any finite or infinite set of
callers or processes, any policy function and inputs, integrity options and
faults, policy files, logs, manifests and commands of any length.

| theorem | states | rests on |
|---|---|---|
| `LocalAuditProofs!AuditTypeCorrect` | `AuditTypeOK` | `AuditTypeInv` |
| `LocalAuditProofs!FileIsAppendOnly` | `AppendOnly` (action property) | `AuditTypeInv` |
| `LocalAuditProofs!AckedEventsAreOnFile` | `AckedEventsOnFile` | `EventInv`, `FileInv` |
| `LocalAuditProofs!TornWritesCostOne` | `TornWriteCostsOneEvent` | `EventInv`, `LossInv` |
| `LocalAuditProofs!LinesChainBackwards` | `EveryLineChainsBackwards` | `ChainInv` |
| `LocalAuditProofs!SerialLogsVerify` | `SerialLogVerifies` | `SerialInv` |
| `LocalAuditProofs!ChainEndsAtFirstPlainLine` | `ChainedLinesComeFirst` | `SerialInv` |
| `AuditEditsProofs!TypeCorrect` | `TypeOK` | `SequencesInv`, `StoredInv` |
| `AuditEditsProofs!UneditedLogsVerify` | `UneditedLogVerifies` | `UneditedInv` |
| `AuditEditsProofs!VerifiedLogsAreAuthentic` | `VerifiedLinesAreAuthentic` | `HistoryInv`, `StoredInv` |
| `AuditEditsProofs!FirstInvalidLineIsTheEdit` | `FirstInvalidLineLocatesEdit` | `DamageInv` |
| `SdkNodeProofs!TypeCorrect` | `TypeOK` | `TypeInv` |
| `SdkNodeProofs!DecisionsAgree` | `OneDecisionPerCall` | `DecisionInv` |
| `SdkNodeProofs!GateHolds` | `ExecutionGate` | `GateInv` |
| `SdkNodeProofs!EventsReplay` | `UntouchedCallsReplay` | `ReplayInv` |
| `SdkNodeProofs!ResultsAreHonest` | `ResultIsHonest` | `RecordInv`, `OutcomeInv` |
| `SdkNodeProofs!TrailsTellTheTruth` | `TrailTellsTheTruth` | `LineInv`, `OrderInv` |
| `SdkNodeProofs!OpenTrailsAreExplained` | `OpenTrailsExplained` | `OrderInv`, `ReportedInv` |
| `SdkNodeProofs!GateImplemented` | `ImplementsGate` (refinement) | `AllInv` |
| `MixedSdksProofs!GateHoldsInBoth` | `ExecutionGate` | `CallInv` |
| `MixedSdksProofs!McpRepliesHonest` | `McpRepliesAreHonest` | `McpInv` |
| `MixedSdksProofs!PythonOutcomesBacked` | `PythonOutcomesAreBacked` | `PythonInv`, `FitsInv` |
| `MixedSdksProofs!ReportCountsCalls` | `ReportAccountsForCalls` | `CountInv`, `AckInv`, `FiniteInv` |
| `PolicyCoreProofs!EvaluationOrderIsTotal` | the comparator is a strict total order | |
| `PolicyCoreProofs!TypeCorrect` | `TypeOK` | `EvaluationType` |
| `PolicyCoreProofs!FirstMatchDecides` | `FirstMatchWins` | `LoopInv` |
| `PolicyCoreProofs!TraceIsFaithful` | `TraceAgreesWithEvaluate` | `LoopInv` |
| `PolicyCoreProofs!TracesAreExact` | `TraceStopsAtTheMatch` | `LoopInv` |
| `PolicyCoreProofs!RefusedByDefault` | `UnmatchedCallsAreRefused` | `LoopInv` |
| `PolicyCoreProofs!MissingFieldsNeverHelp` | `MissingFieldsNeverMatch` | `LoopInv` |
| `PolicyCoreProofs!FileOrderIsIrrelevant` | `PrioritiesFixTheOrder` | `LoopInv`, the total order |
| `PolicyCoreProofs!SdksDecideAlike` | `PythonDecidesAlike` | `EvaluationsAgree` |
| `CliFilesProofs!InitKeepsFiles` | `InitKeepsEarlierFiles` (action property) | `InitInv` |
| `CliFilesProofs!SameFilesAccepted` | `LoadersAgree` | `DocumentInv` |
| `CliFilesProofs!TestsHoldInPython` | `TestedPoliciesHoldInPython` | `DocumentInv`, `EvaluationsAgree` |
| `DriftProofs!CleanChecksAreClean` | `CleanCheckMeansUnchanged` | `DiskInv`, `CheckerInv` |
| `DriftProofs!OwnBaselinesAreClean` | `OwnBaselineIsClean` | `DiskInv`, `CheckerInv` |
| `DriftProofs!AllowedDriftsAreReported` | `AllowedDriftIsReported` | `DiskInv`, `CheckerInv` |
| `CommandGuardProofs!FindingsAreKept` | `VerdictKeepsEveryFinding` | `LoopInv` |
| `CommandGuardProofs!OptionsAdd` | `OptionsOnlyAdd` | `LoopInv` |

### What is assumed

TLC evaluates each assumption on the instance of a run. All are about constants.

- `LocalAuditAssumption`, `SdkNodeAssumption`, `SdkPythonAssumption`: the options,
  faults and policy of an instance have the types the code declares for them.
- `NoEventAssumption` (of `LocalAudit` and of `AuditEdits`), `NoResultAssumption`,
  `McpToolAssumption`: a null stands apart from the values it is the absence of.
- `AuditEditsAssumption`: the two bounds are numbers; they may be of any size.
- `PolicyFilesAssumption`: what parsing guarantees of a policy file: a list of
  rules, natural priorities, legal decisions.
- `PolicyParityAssumption` and `CliFilesAssumption`: a condition has a field of at
  least one segment and an operator of the language; a document is a JSON value
  (`Readable`); and of a condition and a call compared by it, a number of the same
  type and value is the same value (`OneText`). The last is needed because a number
  carries its text, which `contains` looks at: a record of the model could hold
  one number with two texts, a value of either language has one.
- `OptionsAssumption`, `DriftAssumption`, `MixedSdksAssumption`: what the declared
  types say of options of `classifyCommand`, of manifests and policies, and that
  the stand-in for a report filter that is not given is no agent or tool.

### The arguments

No property is inductive by itself. The invariants are stacked so that each proof
uses the ones below.

**The audit file** (`LocalAuditProofs`). `LandShape` says what one `appendFile` does to
the file under every fault: nothing, a merge into an open last line, or one more
line. `EventInv` says whose event is where; from it, each acknowledged event is on a
line of its own while no line is torn (`FileInv`). `LossInv` is the strengthening that
makes the count of lost events inductive: acknowledged events off file are no more
than the torn lines *that can be written onto no more*, and an open last line holds
no acknowledged event, because the append that left it open was rejected. In
`ChainInv` a hash that an append has read stays the hash of some line, since lines are
only added: that is why concurrent appends fork the chain but never unroot it. In
`SerialInv` it stays the hash of the *last* line, while at most one append is in flight.

**Edits** (`AuditEditsProofs`). Event ids count up, so a hash the logger computed
names one line (`HashNamesLine`); an edit can copy hashes and change events, but
makes no new hash (`StoredInv`). A line that verifies therefore is the line the
logger wrote, and its `prev` names its predecessor. `DamageInv` follows a single
edit through the appends that build on it.

**The Node SDK** (`SdkNodeProofs`).

1. `TypeInv`: types, and an outstanding append holds an event.
2. `DecisionInv`: the outstanding event of a call, and every acknowledged one,
   carries the call's decision. A new call cannot disturb it, because a call that
   is still idle has no event.
3. `GateInv`: an append that resolved is acknowledged; a call waiting for its
   evidence was permitted, waits for its own `decision_logged` event, and has not
   entered its callback. `ExecutionGate` follows at `EnterCallback`.
4. `ReplayInv`: of a call nobody touched, the live arguments are those the policy
   saw and those in its events; redaction copies them after an await.
5. `RecordInv`, `OutcomeInv`: in each phase, what is on record, how the callback
   stands, and that no result exists before the return.
6. `LineInv`: each line on file is true of its call; `OrderInv`: while none is torn, the
   lines of a call are there, once and in order. With 5 this is what an auditor may
   conclude from a trail.

The lemma `AppendStepShape` says what any step of `append` may change of its own
caller and that it changes nothing of the others, so each invariant treats the six
steps of `append`, with all their faults, as one case. The refinement maps each
step to a step of the gate or a stutter: `AppendFile` to `Attest` or `Record`
according to the phase, a return to `Tell`, `ProcessStops` to `Abandon` of all
calls it had in progress at once.

**Two SDKs on one file** (`MixedSdksProofs`). The steps both SDKs share keep `CallInv`
by the lemmas about `SdkNode`; new are a Python write (`WritesKeep`), an exception that
leaves a call (`RaiseKeeps`) and the stop of one of the two processes (`StopKeeps`). A
call that has returned is `Settled`: no step of any other call changes what its caller
may conclude. An interrupt can leave a call in any phase, so its record has to be
true in each: `FitsInv` says that the outcome acknowledged for a call in progress is
one that its phase reports. The counts of a report rest on `CountInv`: every line is of a call
that was made and names its decision, and a call leaves at most one line from
before its callback and one from after it; the inequalities are injections of
calls into lines.

**Evaluation** (`PolicyCoreProofs`). `LoopInv`: every traced rule comes before every
untraced one, only the rule that ended the loop matches, and the result is taken
from it. With the total order this makes the loop's rule the one `evaluatePolicy`
chooses. For Python: along a path both `getPathValue` and `_get_path_value` find the
same values, except that Python's `None` also stands for nothing
(`PathsCorrespond`). The prover has no induction, so this is shown by the least
segment at which the two would differ; for that the walk along a path is a
recursive function of the number of segments, not a fold. A portable condition then
holds for both or for neither, the same rules match, and the same one comes first
(`EvaluationsAgree`).

**Policy and case files** (`CliFilesProofs`). `InitInv`: an `init` past its checks without
`--force` found nothing, and a file that is there stays there. `DocumentInv`: a policy
file is one that a user saved, the starter, or a cut of it, so `Readable`. Acceptance
by the two loaders is then compared field by field: whatever zod accepts
`parse_policy_yaml` accepts but for a priority written `1.0`, and conversely but for
`Loose`. For tested policies the module takes `EvaluationsAgree` from an instance of
`PolicyCoreProofs` with no files and no calls (its assumptions then hold of nothing,
and the lemma is about any file and call); `SameEvaluation` and its neighbours say
that the instance's operators are those `CliFiles` has.

**Drift** (`DriftProofs`). `DiskInv` and `CheckerInv`: a baseline on disk or in hand is
missing, cut, or `createToolBaseline` of a manifest that parsed. A clean report then
means that each tool and its entry agree in what the comparison looks at. This proof
failed at first: an empty endpoint and an absent one give the same entry, which no
manifest of the instance showed. `Watched` now says so (`Place`), and a manifest with
such an endpoint was added to the run. For `OwnBaselineIsClean` the lemmas
`SanitizeTwice` and `SameHash` say that a second call of `sanitizeEndpoint` makes
something else of an endpoint only where `ReadTwoWays` holds.

**Commands** (`CommandGuardProofs`). `Merged`: the verdict after `step` findings has their
signals and their highest risk. Options only lengthen the list of findings, so the
verdict without them is bounded by the one with them.

### Only model-checked

`AppendsSettle` and `CallsReturn`: liveness needs fairness and `ENABLED`, which are out
of the prover's reach. The three findings are counterexamples, which TLC exhibits.


## 5. Not modelled, and why

- The text of YAML and JSON, error messages, formatting: not behaviour; the models
  start from what parsing yields. PyYAML reads YAML 1.1 and the `yaml` package 1.2,
  so `yes` or `012` may differ between the SDKs: a difference of two libraries.
- Which keys redaction hides (Node, Python and the simulator have a list each): a
  pure map over key names.
- The option parsers of the CLI, `doctor`, and the text, JSON and Markdown of the
  reports: printing of what is modelled.
- `report --since`: timestamps are left out of the events.
- `audit verify`: `verifyAuditLog` of `AuditChain`, and its verdict as an exit code.
- The counts and details of a drift report, and fields of a manifest or an option
  file that have a malformed type.
- `command-guard`: matches of a pattern inside a longer word (`token` in a path), and
  the deprecated booleans, which are derived from the signals.
- `baseline.fingerprint` is written and must be there, but no comparison reads it.
- A file system that loses an acknowledged write at a power failure: the code
  does not sync and makes no claim about it.
- Another process that deletes or truncates the audit file while appends run.

## 6. Plan

Modelled: every component with behaviour of its own. Proved: every safety property
and action property. Worth adding, in order of weight:

1. That a Node and a Python process on one file, together, implement
   `EnforcementGate`: `GateHoldsInBoth` has the state part; the refinement needs a
   step of the gate for an exception that leaves `run_tool`.
2. Action properties that follow from the invariants proved: an acknowledged line is
   never closed onto, a result once told never changes.
3. The verdicts of `verifyAuditLog` on a file that both SDKs write: `ChainInv` and
   `SerialInv` carried over to `MixedSdks`.
