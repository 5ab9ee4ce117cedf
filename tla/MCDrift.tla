-------------------------------- MODULE MCDrift --------------------------------
(* Instances of Drift for TLC: a tool and the ways it may change, one field *)
(* or endpoint at a time, with and without a second tool.                   *)
EXTENDS Drift, TLC

(* Endpoints that are URLs, and endpoints that are not: what they are when *)
(* cut at one "@" after the other, and what sanitising ends with.          *)
Url(text, place, query) == [texts |-> <<text>>, place |-> place, query |-> query]

Plain(texts, place) == [texts |-> texts, place |-> place, query |-> ""]

Schema(required, properties, rest) == [required |-> required, properties |-> properties, rest |-> rest]

Read == [
    name |-> "files.read", description |-> "read a file", inputSchema |-> Schema({"path"}, {"path"}, "s"),
    permissions |-> {"read"}, capabilities |-> {"filesystem"}, riskTags |-> {"internal"},
    serverName |-> "files", serverEndpoint |-> Url("https://me:pa@Host/mcp", "https://host/mcp", "?key"), endpoint |-> Missing,
    metadata |-> "m"]

Run == [Read EXCEPT !.name = "shell.run", !.description = "run a command", !.capabilities = {},
                    !.inputSchema = Missing, !.metadata = Missing]

Versions == {
    Read,
    [Read EXCEPT !.description = "run a file"],
    [Read EXCEPT !.inputSchema = Schema({}, {"path", "token"}, "s")],
    [Read EXCEPT !.inputSchema = Missing, !.metadata = Missing],
    [Read EXCEPT !.permissions = {"admin"}, !.riskTags = {}],
    [Read EXCEPT !.capabilities = {}, !.riskTags = {"production"}],
    [Read EXCEPT !.serverEndpoint = Url("https://host/mcp", "https://host/mcp", "")],
    [Read EXCEPT !.serverEndpoint = Url("https://me@else/mcp", "https://else/mcp", ""), !.endpoint = Plain(<<"host">>, "host")],
    [Read EXCEPT !.serverEndpoint = Missing, !.endpoint = Plain(<<"a@b@host", "b@host", "host">>, "host")],
    [Read EXCEPT !.serverEndpoint = Missing, !.endpoint = Plain(<<"bot@Files:8080", "Files:8080">>, "files:8080")],
    [Read EXCEPT !.serverEndpoint = Missing, !.endpoint = Plain(<<"bot@host", "host">>, "host")],
    [Read EXCEPT !.serverEndpoint = Missing, !.serverName = "other"],
    [Read EXCEPT !.serverEndpoint = Missing, !.endpoint = Plain(<<"bot@", "">>, ""), !.metadata = "n"],
    [Read EXCEPT !.serverEndpoint = Missing, !.metadata = "n"]
}

Manifest(tools) == [json |-> TRUE, version |-> 1, tools |-> tools]

SmallManifests ==
    {Manifest(<<tool>>) : tool \in Versions}
    \cup {Manifest(<<Read, tool>>) : tool \in {Run, [Run EXCEPT !.capabilities = {"network"}], Read}}
    \cup {Manifest(<<>>), Manifest(<<[Read EXCEPT !.name = ""]>>), Cut}

Rule(id, tool, conditions, decision) ==
    [id |-> id, priority |-> NoPriority, agent |-> Unset, tool |-> tool, conditions |-> conditions,
     decision |-> decision]

Always == [all |-> {}, any |-> {}]
OnCustomers ==
    [all |-> {[field |-> <<"args", "table">>, operator |-> "eq", value |-> Text(<<"customers">>)]}, any |-> {}]

PolicyFile(default, rules) ==
    [mode |-> "enforce", observeOnly |-> FALSE, default |-> default, policies |-> rules]

SmallPolicies == {
    Missing, Malformed,
    PolicyFile("allow", <<>>),
    PolicyFile("block", <<Rule("delete", "files.read", OnCustomers, "block"), Rule("any", Unset, Always, "allow")>>),
    PolicyFile("allow", <<Rule("read", "files.read", Always, "allow"), Rule("run", "shell.run", OnCustomers, "block")>>),
    PolicyFile(NoDecision, <<Rule("all", "*", OnCustomers, "allow")>>)
}

SmallRules == {
    Missing, Malformed,
    {[pattern |-> {<<"shell.run", "run a command">>, <<"files.read", "run a file">>}, capability |-> "shell", safe |-> TRUE]},
    {[pattern |-> {}, capability |-> "shell", safe |-> FALSE]}
}

Profile(capabilities, severities) ==
    [highRiskCapabilities |-> capabilities, highRiskRiskTags |-> {"production"},
     highRiskPermissions |-> Missing, driftSeverities |-> severities]

SmallProfiles == {
    Missing, Malformed,
    Profile({"shell"}, [type \in {} |-> "low"]),
    Profile(Missing, [type \in {"removed_tool", "new_tool"} |-> "low"]),
    Profile({}, [type \in {"endpoint_changed"} |-> "critical"])
}

SmallCalls == {
    [agent |-> "ops", tool |-> "files.read", args |-> Object([table |-> Text(<<t>>)]), context |-> Undefined] :
        t \in {"customers", "orders"}}

=============================================================================
