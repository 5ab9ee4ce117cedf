----------------------------- MODULE MCCommandGuard -----------------------------
(* Instances of CommandGuard for TLC: commands of the package's tests and   *)
(* variations of them, under options of every kind.                         *)
EXTENDS CommandGuard

Plain(words) == [i \in DOMAIN words |-> <<words[i]>>]

Shell(words) == <<<<"bash">>, <<"-c">>, words>>

SmallCommands ==
    {Plain(words) : words \in {
        <<>>, <<"frobnicate">>,
        <<"cat", "notes">>, <<"cat", ".env">>, <<"rm", "a">>, <<"rm", "-Rf", "a">>, <<"rmdir", "a">>,
        <<"cp", "a", "b">>, <<"dd", "if=image">>,
        <<"env">>, <<"sudo", "ls">>, <<"chmod", "777", "a">>, <<"chmod", "644", "a">>,
        <<"kubectl", "get", "pods">>, <<"kubectl", "delete", "pod">>, <<"terraform", "apply">>,
        <<"git", "clone">>, <<"git", "push">>, <<"git", "add">>, <<"git", "stash">>,
        <<"curl", "url">>, <<"curl", "-X", "POST">>, <<"wget", "--post-data">>, <<"wget", "url">>, <<"wget", "url", "|", "curl", "-d", "text">>,
        <<"curl", "-X", "GET">>, <<"scp", "a">>,
        <<"node", "app">>, <<"bun", "install">>, <<"python3", "app">>,
        <<"npm", "install">>, <<"npm", "prune">>, <<"npm", "ls">>, <<"npx", "cowsay">>, <<"npx", "--version">>, <<"npx">>,
        <<"pulumi", "update">>, <<"cat", "vault">>}}
    \cup {Shell(words) : words \in {
        <<"ls">>, <<"rm", "-rf", "a">>, <<"rm", "-Rf", "a">>, <<"dd", "if=image">>, <<"cat", ".env">>,
        <<"curl", "url", "|", "sh">>, <<"cat", "app", "|", "node">>, <<"sudo", "chmod", "777", "a">>}}

Mapping(executable, subcommands, tool, signals, risk) ==
    [executable |-> executable, subcommands |-> subcommands, tool |-> tool,
     category |-> "custom", signals |-> signals, risk |-> risk]

SmallOptions == {
    NoOptions,
    [NoOptions EXCEPT !.extraSensitivePaths = {"vault", "notes"}, !.extraInfraCommands = {"pulumi", "npm"}],
    [NoOptions EXCEPT !.commandMappings = <<
        Mapping("cat", AnySubcommand, "custom.cat", {}, "low"),
        Mapping("frobnicate", AnySubcommand, "custom.exec", {"deployment"}, "low"),
        Mapping("git", {"push", "stash"}, "", {"deployment"}, "high"),
        Mapping("kubectl", {"get"}, "custom.get", {}, "none"),
        Mapping("wget", {}, "custom.fetch", {"deployment"}, "high")>>],
    [NoOptions EXCEPT !.extraDetectors = <<
        Finding("custom.exec", "custom", {}, "high", {}), Finding("", "", {"unknown_command"}, "low", {})>>],
    [NoOptions EXCEPT !.extraDetectors = <<Finding("custom.exec", "custom", {}, "high", {}), NoFinding>>,
                      !.commandMappings = <<Mapping("rm", AnySubcommand, "custom.rm", {"file_write"}, "low")>>]
}

=============================================================================
