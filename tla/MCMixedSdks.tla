------------------------------ MODULE MCMixedSdks ------------------------------
(* An instance of MixedSdks for TLC: an MCP call or two beside a Python    *)
(* call, with decisions that depend on their arguments.                    *)
EXTENDS MixedSdks

EachIntegrity ==
    {i \in [Caller -> {"none", "hash_chain"}] : \A c \in PythonCaller : i[c] = "none"}

Decisions == [refund |-> "allow", large |-> "block", nan |-> "log_only"]

Agents == [c \in Caller |-> IF c \in PythonCaller THEN "py-agent" ELSE "mcp-agent"]

=============================================================================
