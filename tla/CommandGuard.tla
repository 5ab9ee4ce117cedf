------------------------------ MODULE CommandGuard ------------------------------
(***************************************************************************)
(* packages/command-guard, classifyCommand: the built-in detectors and the *)
(* application's own look at a command one after the other, each may add   *)
(* signals, raise the risk and replace tool and category; mappings of the  *)
(* options do the same; a command nobody knows gets a verdict of its own.  *)
(***************************************************************************)
EXTENDS CommandDetectors

CONSTANTS
    Commands,   \* the argv of the commands that are classified
    Options     \* the options they may be classified under

VARIABLES
    command,    \* the argv
    options,    \* the options, as normalizeOptions completes them
    step,       \* how many detectors and mappings have been asked
    verdict,    \* the accumulated verdict; detectors are the matchedDetectors
    done

vars == <<command, options, step, verdict, done>>

NoOptions == [extraSensitivePaths |-> {}, extraInfraCommands |-> {}, commandMappings |-> <<>>, extraDetectors |-> <<>>]

(* The detectors in the order they are asked: BUILT_IN_DETECTORS, and the  *)
(* extra ones, of which only what they return matters.                     *)
Detected(argv, opts) ==
    <<filesDetector(argv),
      secretsDetector(argv, opts.extraSensitivePaths),
      privilegeDetector(argv),
      infraDetector(argv, opts.extraInfraCommands),
      gitDetector(argv),
      networkDetector(argv),
      shellDetector(argv),
      packageManagerDetector(argv)>> \o opts.extraDetectors

(* The subcommands of a mapping that has none; an empty list is a list     *)
(* that no subcommand is in.                                               *)
AnySubcommand == {"any subcommand"}

MappingMatches(mapping, argv) ==
    /\ mapping.executable = Executable(argv)
    /\ mapping.subcommands = AnySubcommand \/ Subcommand(argv) \in mapping.subcommands

(* The commandMappings as findings.                                        *)
Mapped(argv, opts) ==
    [i \in DOMAIN opts.commandMappings |->
        LET mapping == opts.commandMappings[i]
        IN  IF MappingMatches(mapping, argv)
            THEN Finding(mapping.tool, mapping.category, mapping.signals, mapping.risk, {"command_mappings"})
            ELSE NoFinding]

Findings(argv, opts) == Detected(argv, opts) \o Mapped(argv, opts)

riskLevelOrder == [none |-> 0, low |-> 1, medium |-> 2, high |-> 3]

IsList(s) == s \in Seq({s[i] : i \in DOMAIN s})

(* What the types of the options say of them, as far as the proofs need.   *)
ASSUME OptionsAssumption ==
    \A opts \in Options : \A list \in {opts.extraDetectors, opts.commandMappings} :
        IsList(list) /\ \A i \in DOMAIN list : list[i].risk \in DOMAIN riskLevelOrder

Initial == Finding("command.exec", "unknown", {}, "low", {})

\* A merge in which the last suggestion wins.
MergeLast(v, finding) ==
    Finding(IF finding.tool # "" THEN finding.tool ELSE v.tool,
            IF finding.category # "" THEN finding.category ELSE v.category,
            v.signals \cup finding.signals,
            IF finding.risk # "none" THEN finding.risk ELSE v.risk,
            v.detectors \cup finding.detectors)

(* What a finding does to the verdict.                                     *)
Merge(v, finding) ==
    Finding(IF finding.tool # "" THEN finding.tool ELSE v.tool,
            IF finding.category # "" THEN finding.category ELSE v.category,
            v.signals \cup finding.signals,
            IF riskLevelOrder[finding.risk] > riskLevelOrder[v.risk] THEN finding.risk ELSE v.risk,
            v.detectors \cup finding.detectors)

\* A fallback for every command without signals.
FallbackForSilence(v) ==
    IF v.signals = {}
    THEN Finding("command.exec", "unknown", {"unknown_command"}, "medium", {"unknown"})
    ELSE v

(* The fallback for unknown commands.                                      *)
Fallback(v) ==
    IF v.signals = {} /\ v.detectors = {}
    THEN Finding("command.exec", "unknown", {"unknown_command"}, "medium", {"unknown"})
    ELSE v

-----------------------------------------------------------------------------
Init ==
    /\ command \in Commands
    /\ options \in Options
    /\ step = 0
    /\ verdict = Initial
    /\ done = FALSE

AskNext ==
    /\ step < Len(Findings(command, options))
    /\ step' = step + 1
    /\ verdict' = Merge(verdict, Findings(command, options)[step + 1])
    /\ UNCHANGED <<command, options, done>>

Conclude ==
    /\ ~done
    /\ step = Len(Findings(command, options))
    /\ verdict' = Fallback(verdict)
    /\ done' = TRUE
    /\ UNCHANGED <<command, options, step>>

Next == AskNext \/ Conclude

Spec == Init /\ [][Next]_vars

(* classifyCommand as a whole.                                             *)
Classify(argv, opts) ==
    LET findings == Findings(argv, opts)
        after[n \in 0 .. Len(findings)] == IF n = 0 THEN Initial ELSE Merge(after[n - 1], findings[n])
    IN  Fallback(after[Len(findings)])

-----------------------------------------------------------------------------
Rank(v) == riskLevelOrder[v.risk]

SaidBySomeone == UNION {Findings(command, options)[i].signals : i \in DOMAIN Findings(command, options)}

Anonymous(finding) == finding.signals = {} /\ finding.detectors = {}

(* No finding is lost on the way to the verdict, wherever it comes from    *)
(* and whatever comes after it: every signal is in the verdict, and no     *)
(* other but unknown_command, the risk is the highest anybody suggested,   *)
(* and a verdict of unknown, which sets the risk to medium, is given only  *)
(* where each finding came without signals and without a name.             *)
VerdictKeepsEveryFinding ==
    done =>
        LET findings == Findings(command, options)
        IN  IF "unknown_command" \in verdict.signals \ SaidBySomeone
            THEN /\ verdict.signals = {"unknown_command"} /\ verdict.risk = "medium"
                 /\ \A i \in DOMAIN findings : Anonymous(findings[i])
            ELSE /\ verdict.signals = SaidBySomeone
                 /\ \A i \in DOMAIN findings : Rank(findings[i]) <= Rank(verdict)
                 /\ Rank(verdict) = 1 \/ \E i \in DOMAIN findings : Rank(findings[i]) = Rank(verdict)

(* Options only add: a command classified with more paths, infrastructure  *)
(* commands, mappings and detectors keeps every signal and every detector  *)
(* it has without them, at the same risk or a higher one; except that what *)
(* was unknown may become known, at any risk.                              *)
OptionsOnlyAdd ==
    done =>
        LET plain == Classify(command, NoOptions)
        IN  \/ plain.signals = {"unknown_command"}
            \/ /\ plain.signals \subseteq verdict.signals
               /\ plain.detectors \subseteq verdict.detectors
               /\ Rank(plain) <= Rank(verdict)

=============================================================================
