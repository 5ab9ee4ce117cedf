------------------------------- MODULE DriftCore -------------------------------
(***************************************************************************)
(* packages/drift-core: the baseline entry of a tool, the comparison of a  *)
(* tool with its entry, the lint rules over what a tool says of itself,    *)
(* the severities of a risk profile, and the policy rules that let a       *)
(* drifted tool run.                                                       *)
(*                                                                         *)
(* A tool is a record of the fields a manifest may give, of the declared   *)
(* types; a list of which only the members matter is a set, empty where    *)
(* the field is missing, and serverName is "" there.  SHA-256 is taken to  *)
(* be free of collisions, so a fingerprint holds what was hashed.          *)
(***************************************************************************)
EXTENDS PolicyRules

CONSTANTS
    Missing,        \* a field, a file or an option that is not there
    Malformed,      \* a value of a type the code does not accept
    SensitiveNames  \* the argument names that hold one of sensitivePatterns

DriftType == {
    "new_tool", "removed_tool", "schema_changed", "description_changed",
    "required_args_added", "required_args_removed", "sensitive_args_added",
    "permissions_expanded", "permissions_reduced",
    "capabilities_expanded", "capabilities_reduced",
    "risk_tags_added", "risk_tags_removed",
    "endpoint_changed", "metadata_changed", "capability_metadata_mismatch"}

Severity == {"high", "medium", "low"}

-----------------------------------------------------------------------------
(* Normalisation and the baseline.                                         *)

(* deterministicHash: undefined has the empty hash.                        *)
NoHash == <<>>
deterministicHash(value) == IF value = Missing THEN NoHash ELSE <<value>>

(* sanitizeEndpoint.  The texts of an endpoint are the endpoint as it is    *)
(* written, without query and hash, and what is left of it each time it is *)
(* cut at its first "@", as long as that is not a URL and there is an "@"  *)
(* before the path.  Its place is what sanitising makes of the last text:  *)
(* a URL as new URL writes it, without userinfo, or else the text itself.  *)
(* Each call parses anew, so that what one call leaves, like Files:8080 of *)
(* bot@Files:8080, may be a URL to the next, which writes files:8080.      *)
sanitizeEndpoint(endpoint) ==
    IF endpoint = Missing THEN Missing
    ELSE [endpoint EXCEPT
            !.query = "",
            !.texts = IF Len(@) > 1 THEN Tail(@) ELSE <<endpoint.place>>]

(* What the declared types say of an endpoint and of a tool, as far as the *)
(* proofs need; nothing is left of the empty text.                         *)
EndpointField == {"texts", "place", "query"}

IsEndpoint(e) ==
    /\ e = [field \in EndpointField |-> e[field]]
    /\ e.texts \in Seq(STRING) /\ e.texts # <<>>
    /\ e.place \in STRING
    /\ e.texts[Len(e.texts)] = "" => e.place = ""

ToolField == {"name", "description", "inputSchema", "permissions", "capabilities", "riskTags",
              "serverName", "serverEndpoint", "endpoint", "metadata"}

IsTool(tool) ==
    /\ tool = [field \in ToolField |-> tool[field]]
    /\ \A e \in {tool.endpoint, tool.serverEndpoint} : e # Missing =>
          IsEndpoint(e) /\ Missing \notin {sanitizeEndpoint(e), sanitizeEndpoint(sanitizeEndpoint(e))}

(* The hash that is stored and compared; none for an empty endpoint.       *)
EndpointHash(endpoint) ==
    LET sanitized == sanitizeEndpoint(endpoint)
    IN  IF sanitized # Missing /\ sanitized.texts = <<"">> THEN NoHash ELSE deterministicHash(sanitized)

\* A normalisation that forgets the endpoint of the server.
normalizeToolAlone(tool) == [tool EXCEPT !.endpoint = sanitizeEndpoint(@), !.serverEndpoint = Missing]

normalizeTool(tool) ==
    [tool EXCEPT !.endpoint = sanitizeEndpoint(@), !.serverEndpoint = sanitizeEndpoint(@)]

ServerEndpoint(tool) ==
    IF tool.serverEndpoint # Missing THEN tool.serverEndpoint ELSE tool.endpoint

extractRequiredArgs(schema) == IF schema = Missing THEN {} ELSE schema.required

extractSensitiveArgs(schema) ==
    IF schema = Missing THEN {} ELSE schema.properties \cap SensitiveNames

(* createBaselineTool; the endpoint is sanitised a second time.            *)
createBaselineTool(tool) ==
    LET normalized == normalizeTool(tool)
    IN  [name                   |-> tool.name,
         fingerprint            |-> deterministicHash(normalized),
         schemaFingerprint      |-> deterministicHash(tool.inputSchema),
         descriptionFingerprint |-> deterministicHash(tool.description),
         capabilities           |-> tool.capabilities,
         permissions            |-> tool.permissions,
         riskTags               |-> tool.riskTags,
         requiredArgs           |-> extractRequiredArgs(tool.inputSchema),
         sensitiveArgs          |-> extractSensitiveArgs(tool.inputSchema),
         serverName             |-> tool.serverName,
         endpointFingerprint    |-> EndpointHash(ServerEndpoint(normalized)),
         metadataFingerprint    |-> deterministicHash(tool.metadata)]

(* createToolBaseline.                                                     *)
createToolBaseline(manifest) ==
    [json |-> TRUE, version |-> 1, tools |-> [i \in DOMAIN manifest.tools |-> createBaselineTool(manifest.tools[i])]]

UniqueNames(tools) == \A i, j \in DOMAIN tools : tools[i].name = tools[j].name => i = j

(* parseToolManifest and parseBaselineFile: do they accept the document?   *)
ManifestParses(doc) ==
    /\ doc.json
    /\ \A i \in DOMAIN doc.tools : doc.tools[i].name # ""
    /\ UniqueNames(doc.tools)

BaselineParses(doc) ==
    /\ doc.json
    /\ doc.version = 1
    /\ \A i \in DOMAIN doc.tools :
          /\ doc.tools[i].name # ""
          /\ "fingerprint" \in DOMAIN doc.tools[i] /\ doc.tools[i].fingerprint # NoHash
    /\ UniqueNames(doc.tools)

-----------------------------------------------------------------------------
(* Severities and lint rules.                                              *)

(* validateRiskProfile.                                                    *)
RiskProfileAccepted(profile) ==
    /\ profile # Malformed
    /\ \A field \in {"highRiskCapabilities", "highRiskRiskTags", "highRiskPermissions"} :
          profile[field] # Malformed
    /\ profile.driftSeverities # Malformed
    /\ \A type \in DOMAIN profile.driftSeverities : profile.driftSeverities[type] \in Severity

(* driftSeverities of a profile, or the default.                           *)
Given(profile, type, default) ==
    IF type \in DOMAIN profile.driftSeverities THEN profile.driftSeverities[type] ELSE default

Listed(profile, field) == IF profile[field] = Missing THEN {} ELSE profile[field]

driftSeverity(type, profile) ==
    IF profile = Missing THEN Missing
    ELSE Given(profile, type,
            CASE type \in {"permissions_expanded", "capabilities_expanded", "capability_metadata_mismatch",
                           "endpoint_changed", "removed_tool"} -> "high"
              [] type \in {"schema_changed", "required_args_added", "sensitive_args_added",
                           "risk_tags_added"} -> "medium"
              [] OTHER -> "low")

(* guessCapabilitiesFromToolMetadata: a pattern is the set of the names     *)
(* and descriptions, as one text, that it finds something in.              *)
MetadataText(tool) == <<tool.name, IF tool.description = Missing THEN "" ELSE tool.description>>

guessCapabilities(tool, rules) ==
    {rule.capability : rule \in {r \in rules : MetadataText(tool) \in r.pattern}}

(* detectCapabilityMetadataMismatches: the capabilities it warns about.    *)
Mismatches(tool, profile, rules) ==
    IF tool.capabilities = {} THEN {}
    ELSE {capability \in guessCapabilities(tool, rules) \ tool.capabilities :
            \/ profile = Missing
            \/ profile.highRiskCapabilities = Missing
            \/ capability \in profile.highRiskCapabilities}

(* newToolSeverity.                                                        *)
HighRisk(tool, profile, rules) ==
    LET capabilities == Listed(profile, "highRiskCapabilities")
    IN  \/ tool.riskTags \cap Listed(profile, "highRiskRiskTags") # {}
        \/ tool.permissions \cap Listed(profile, "highRiskPermissions") # {}
        \/ tool.capabilities \cap capabilities # {}
        \/ Mismatches(tool, profile, rules) # {}
        \/ tool.capabilities = {} /\ guessCapabilities(tool, rules) \cap capabilities # {}

newToolSeverity(tool, profile, rules) ==
    IF profile = Missing THEN Missing
    ELSE IF HighRisk(tool, profile, rules) THEN "high"
    ELSE Given(profile, "new_tool", "low")

-----------------------------------------------------------------------------
(* The comparison.                                                         *)

(* compareTool: the types of its findings.                                 *)
compareTool(current, recorded) ==
    LET required  == extractRequiredArgs(current.inputSchema)
        sensitive == extractSensitiveArgs(current.inputSchema)
        endpoint  == EndpointHash(ServerEndpoint(current))
        found(type) ==
            CASE type = "schema_changed" -> deterministicHash(current.inputSchema) # recorded.schemaFingerprint
              [] type = "description_changed" ->
                    deterministicHash(current.description) # recorded.descriptionFingerprint
              [] type = "required_args_added"   -> ~(required \subseteq recorded.requiredArgs)
              [] type = "required_args_removed" -> ~(recorded.requiredArgs \subseteq required)
              [] type = "sensitive_args_added"  -> ~(sensitive \subseteq recorded.sensitiveArgs)
              [] type = "permissions_expanded"  -> ~(current.permissions \subseteq recorded.permissions)
              [] type = "permissions_reduced"   -> ~(recorded.permissions \subseteq current.permissions)
              [] type = "capabilities_expanded" -> ~(current.capabilities \subseteq recorded.capabilities)
              [] type = "capabilities_reduced"  -> ~(recorded.capabilities \subseteq current.capabilities)
              [] type = "risk_tags_added"       -> ~(current.riskTags \subseteq recorded.riskTags)
              [] type = "risk_tags_removed"     -> ~(recorded.riskTags \subseteq current.riskTags)
              [] type = "endpoint_changed" ->
                    endpoint # recorded.endpointFingerprint \/ current.serverName # recorded.serverName
              [] type = "metadata_changed" -> deterministicHash(current.metadata) # recorded.metadataFingerprint
              [] OTHER -> FALSE
    IN  {type \in DriftType : found(type)}

Finding(tool, type, severity) == [tool |-> tool, type |-> type, severity |-> severity]

(* checkToolDrift, the drifts of one tool of the manifest ...              *)
ToolDrifts(tool, baseline, rules, profile) ==
    LET entries == {i \in DOMAIN baseline.tools : baseline.tools[i].name = tool.name}
    IN  (IF entries = {}
         THEN {Finding(tool.name, "new_tool", newToolSeverity(tool, profile, rules))}
         ELSE {Finding(tool.name, type, driftSeverity(type, profile)) :
                 type \in UNION {compareTool(tool, baseline.tools[i]) : i \in entries}})
        \cup (IF Mismatches(tool, profile, rules) = {} THEN {}
              ELSE {Finding(tool.name, "capability_metadata_mismatch",
                            driftSeverity("capability_metadata_mismatch", profile))})

\* A check that forgets the tools that are gone.
AllDriftsOfPresent(manifest, baseline, rules, profile) ==
    UNION {ToolDrifts(manifest.tools[i], baseline, rules, profile) : i \in DOMAIN manifest.tools}

(* ... and all of them, with those of the tools that are gone.             *)
AllDrifts(manifest, baseline, rules, profile) ==
    LET names(doc) == {doc.tools[i].name : i \in DOMAIN doc.tools}
    IN  (UNION {ToolDrifts(manifest.tools[i], baseline, rules, profile) : i \in DOMAIN manifest.tools})
        \cup {Finding(name, "removed_tool", driftSeverity("removed_tool", profile)) :
                name \in names(baseline) \ names(manifest)}

-----------------------------------------------------------------------------
(* Policy impact.                                                          *)

AnyTool == {"*", Unset}

\* An analysis of the rules that name the tool only.
AllowRulesByName(file, tool) ==
    {file.policies[r] : r \in {r \in DOMAIN file.policies :
        file.policies[r].decision = "allow" /\ file.policies[r].tool = tool}}

AllowRules(file, tool) ==
    {file.policies[r] : r \in {r \in DOMAIN file.policies :
        file.policies[r].decision = "allow" /\ file.policies[r].tool \in AnyTool \cup {tool}}}

Affected(policy, tool, severity) == [policy |-> policy, tool |-> tool, severity |-> severity]

(* What is said of a new tool of high risk that no rule names.  A wildcard *)
(* rule that allows it is among AllowRules, and not said again.            *)
NewToolImpact(drift, file) ==
    IF \/ drift.type # "new_tool" \/ drift.severity # "high"
       \/ \E r \in DOMAIN file.policies : file.policies[r].tool = drift.tool
       \/ AllowRules(file, drift.tool) # {}
    THEN {}
    ELSE IF file.default = "allow" THEN {Affected("default", drift.tool, "high")}
    ELSE {Affected("none", drift.tool, "medium")}

analyzePolicyImpact(drifts, file) ==
    UNION {{Affected(rule.id, drift.tool, drift.severity) : rule \in AllowRules(file, drift.tool)}
           \cup NewToolImpact(drift, file) : drift \in drifts}

=============================================================================
