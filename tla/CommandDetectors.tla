---------------------------- MODULE CommandDetectors ----------------------------
(***************************************************************************)
(* packages/command-guard: the eight built-in detectors.  A command is a   *)
(* sequence of arguments, and an argument the sequence of words it has at  *)
(* its blanks; the words of the joined command string are those of all its *)
(* arguments.  A word is found as a whole, without the quotes around it: a *)
(* match inside a longer word is left out, but for the flags below.        *)
(***************************************************************************)
EXTENDS Naturals, Sequences
LOCAL INSTANCE SequencesExt

CONSTANTS
    SensitivePaths, \* the words isSensitivePathToken accepts without options
    DashWords       \* the words that begin with a dash

(* What a detector returns: "" and "none" where it says nothing.           *)
Finding(tool, category, signals, risk, names) ==
    [tool |-> tool, category |-> category, signals |-> signals, risk |-> risk, detectors |-> names]

NoFinding == Finding("", "", {}, "none", {})

SHELL_EXECUTABLES == {"sh", "bash", "zsh", "ksh", "csh", "tcsh", "fish", "dash"}
CODE_EXECUTABLES == {"node", "nodejs", "python", "python3", "python2", "ruby", "perl", "php", "deno"}
PIPE_RUNTIMES == SHELL_EXECUTABLES \cup CODE_EXECUTABLES \cup {"bun"}
DEFAULT_INFRA_COMMANDS == {"aws", "gcloud", "az", "kubectl", "docker", "ssh", "terraform", "helm"}
INFRA_DELETE_OPERATIONS == {"delete", "destroy", "terminate", "rm"}
INFRA_WRITE_OPERATIONS == {"apply", "create", "update", "put", "set", "deploy", "rollback"}
EXTERNAL_TRANSFER_EXECUTABLES == {"nc", "netcat", "ncat", "scp", "rsync"}
UPLOAD_FLAGS == [
    curl |-> {"-d", "--data", "--data-raw", "--data-binary", "--data-urlencode", "-F", "--form",
              "--form-string", "-T", "--upload-file", "--json"},
    wget |-> {"--post-data", "--post-file"}]
FILE_READ_EXECUTABLES == {"cat", "less", "head", "tail", "more"}
FILE_DELETE_EXECUTABLES == {"rm", "rmdir"}
FILE_WRITE_EXECUTABLES == {"cp", "mv", "touch", "mkdir", "dd", "mkfs"}
PACKAGE_MANAGER_EXECUTABLES == {"npm", "pnpm", "yarn", "bun", "npx"}
PACKAGE_INSTALL_SUBCOMMANDS == {"install", "i", "add", "ci", "setup"}
PACKAGE_MUTATION_SUBCOMMANDS == {"uninstall", "remove", "rm", "prune", "update", "upgrade"}
GIT_NETWORK_READ_SUBCOMMANDS == {"clone", "pull", "fetch"}
GIT_READ_SUBCOMMANDS == GIT_NETWORK_READ_SUBCOMMANDS \cup {"checkout", "diff", "log", "status"}
GIT_WRITE_SUBCOMMANDS == {"push", "commit", "add", "branch", "merge", "rebase", "tag"}
PRIVILEGE_COMMAND_TOKENS == {"sudo", "su", "chown"}
DANGEROUS_CHMOD_MODES == {"777", "a+w", "o+w"}

(* Flags of rm with an r in them, and the ones the patterns on the whole   *)
(* command know: -rf and -fr, or an r at the end.                          *)
RecursiveFlag == {"-r", "-R", "-rf", "-fr", "-Rf", "-fR", "--recursive"}
RecursivePattern == RecursiveFlag \ {"-Rf"}

(* What other patterns on the whole command find: dd if=, and env between  *)
(* word boundaries.                                                        *)
InputFile == {"if=image"}
EnvWord   == {"env", ".env"}

-----------------------------------------------------------------------------
(* parseArgv.                                                              *)

Name(argument) == IF Len(argument) = 1 THEN argument[1] ELSE "several words"

Executable(argv) == IF argv = <<>> THEN "" ELSE Name(argv[1])
Subcommand(argv) == IF Len(argv) < 2 THEN "" ELSE Name(argv[2])
Command(argv)    == FlattenSeq(argv)

Holds(command, words) == \E i \in DOMAIN command : command[i] \in words

(* A word of the first kind with one of the second kind right after it.    *)
Adjacent(command, firsts, seconds) ==
    \E i \in 1 .. Len(command) - 1 : command[i] \in firsts /\ command[i + 1] \in seconds

(* A word of the first kind with one of the second kind anywhere after it. *)
Later(command, firsts, seconds) ==
    \E i, j \in DOMAIN command : i < j /\ command[i] \in firsts /\ command[j] \in seconds

-----------------------------------------------------------------------------
filesDetector(argv) ==
    LET executable == Executable(argv)
        command == Command(argv)
        destructive ==
            /\ executable \in SHELL_EXECUTABLES \cup {"", "command.exec"}
            /\ \/ Adjacent(command, {"rm"}, RecursivePattern)
               \/ Adjacent(command, {"dd"}, InputFile)
               \/ Holds(command, {"mkfs"})
        recursive == executable = "rm" /\ \E i \in 2 .. Len(argv) : Name(argv[i]) \in RecursiveFlag
    IN  CASE destructive ->
                Finding("file.delete", "destructive_operation", {"file_delete", "delete_operation"}, "high", {"files"})
          [] executable \in FILE_READ_EXECUTABLES ->
                Finding("file.read", "file_access", {"file_read"}, "low", {"files"})
          [] executable \in FILE_DELETE_EXECUTABLES ->
                Finding("file.delete", IF recursive THEN "destructive_operation" ELSE "file_access",
                        {"file_delete", "delete_operation"}, IF recursive THEN "high" ELSE "medium", {"files"})
          [] executable \in {"dd", "mkfs"} ->
                Finding("file.write", "destructive_operation", {"file_write", "delete_operation"}, "high", {"files"})
          [] executable \in FILE_WRITE_EXECUTABLES \ {"dd", "mkfs"} ->
                Finding("file.write", "file_access", {"file_write"}, "medium", {"files"})
          [] OTHER -> NoFinding

secretsDetector(argv, extraSensitivePaths) ==
    LET command == Command(argv)
        environment ==
            \/ Executable(argv) \in {"env", "printenv"}
            \/ Executable(argv) \in SHELL_EXECUTABLES /\ Holds(command, EnvWord)
        sensitive == Holds(command, SensitivePaths \cup extraSensitivePaths)
    IN  IF ~environment /\ ~sensitive THEN NoFinding
        ELSE Finding("secrets.read", "secret_access",
                     {"secret_read"} \cup (IF environment THEN {"environment_read"} ELSE {})
                                     \cup (IF sensitive THEN {"sensitive_path_access"} ELSE {}),
                     "high", {"secrets"})

(* isPrivilegeChange and checkCommandStringPrivilege.                      *)
privilegeDetector(argv) ==
    IF \/ Holds(Command(argv), PRIVILEGE_COMMAND_TOKENS)
       \/ Later(Command(argv), {"chmod"}, DANGEROUS_CHMOD_MODES)
    THEN Finding("system.exec", "privilege_change", {"privilege_change"}, "high", {"privilege"})
    ELSE NoFinding

infraDetector(argv, extraInfraCommands) ==
    LET mutations ==
            {s \in {"delete_operation", "write_operation"} :
                Holds(Command(argv), IF s = "delete_operation" THEN INFRA_DELETE_OPERATIONS ELSE INFRA_WRITE_OPERATIONS)}
    IN  IF Executable(argv) \notin DEFAULT_INFRA_COMMANDS \cup extraInfraCommands THEN NoFinding
        ELSE Finding("infra.exec", "infrastructure_access", {"infra_tool"} \cup mutations,
                     IF mutations = {} THEN "medium" ELSE "high", {"infra"})

gitDetector(argv) ==
    LET subcommand == Subcommand(argv)
        signals ==
            CASE subcommand \in GIT_READ_SUBCOMMANDS ->
                    {"source_control_read"} \cup
                    (IF subcommand \in GIT_NETWORK_READ_SUBCOMMANDS THEN {"network_download"} ELSE {})
              [] subcommand \in GIT_WRITE_SUBCOMMANDS ->
                    {"source_control_write"} \cup (IF subcommand = "push" THEN {"external_transfer"} ELSE {})
              [] OTHER -> {}
    IN  IF Executable(argv) # "git" THEN NoFinding
        ELSE Finding("git.exec", "source_control", signals, "medium", {"git"})

(* An upload is a flag for it anywhere after curl or wget, whichever of    *)
(* the two is the executable, or after curl a request whose method is POST.*)
networkDetector(argv) ==
    LET executable == Executable(argv)
        command == Command(argv)
        posted(i) ==
            SubSeq(command, i, i + 1) \in {<<"-X", "POST">>, <<"--request", "POST">>}
        upload ==
            \/ \E client \in DOMAIN UPLOAD_FLAGS : Later(command, {client}, UPLOAD_FLAGS[client])
            \/ \E i \in 1 .. Len(command) - 1 : posted(i) /\ Holds(SubSeq(command, 1, i - 1), {"curl"})
    IN  CASE executable \in DOMAIN UPLOAD_FLAGS ->
                IF upload
                THEN Finding("network.exec", "external_transfer", {"network_download", "external_transfer"},
                             "high", {"network"})
                ELSE Finding("network.exec", "network_download", {"network_download"}, "medium", {"network"})
          [] executable \in EXTERNAL_TRANSFER_EXECUTABLES ->
                Finding("network.exec", "external_transfer", {"external_transfer"}, "high", {"network"})
          [] OTHER -> NoFinding

shellDetector(argv) ==
    LET executable == Executable(argv)
        command == Command(argv)
        piped == Adjacent(command, {"|"}, PIPE_RUNTIMES)
        fetched == piped /\ Holds(command, {"curl", "wget"})
        shell == executable \in SHELL_EXECUTABLES
        code == executable \in CODE_EXECUTABLES \cup {"bun"}
    IN  IF ~shell /\ ~piped /\ ~code THEN NoFinding
        ELSE Finding(
                CASE fetched -> "network.exec"
                  [] ~fetched /\ executable \in {"node", "nodejs"} -> "node.exec"
                  [] ~fetched /\ shell -> "shell.exec"
                  [] OTHER -> "command.exec",
                CASE piped -> "download_and_execute"
                  [] ~piped /\ code -> "code_execution"
                  [] OTHER -> "shell_command",
                (IF shell THEN {"shell_execution"} ELSE {})
                \cup (IF code \/ piped THEN {"code_execution"} ELSE {})
                \cup (IF piped THEN {"download_and_execute"} ELSE {})
                \cup (IF fetched THEN {"network_download"} ELSE {}),
                IF piped THEN "high" ELSE IF code THEN "low" ELSE "medium",
                {"shell"})

(* npx runs a package where its first argument is not a flag.              *)
packageManagerDetector(argv) ==
    LET executable == Executable(argv)
        subcommand == Subcommand(argv)
        found(tool, category, signals, risk) == Finding(tool, category, signals, risk, {"package_manager"})
    IN  IF executable \notin PACKAGE_MANAGER_EXECUTABLES THEN NoFinding
        ELSE IF subcommand \in PACKAGE_INSTALL_SUBCOMMANDS
        THEN found("npm.install", "package_manager",
                   {"package_install", "package_mutation", "network_download"}, "medium")
        ELSE IF subcommand \in PACKAGE_MUTATION_SUBCOMMANDS
        THEN found("npm.install", "package_manager", {"package_mutation"}, "medium")
        ELSE IF executable = "npx" /\ subcommand \notin DashWords \cup {""}
        THEN found("npm.exec", "package_execution",
                   {"package_execution", "network_download", "code_execution"}, "medium")
        ELSE found("npm.exec", "package_metadata", {}, "low")

=============================================================================
