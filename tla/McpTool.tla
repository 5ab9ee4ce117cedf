-------------------------------- MODULE McpTool --------------------------------
(***************************************************************************)
(* packages/mcp: guardMcpTool and wrapMcpTool.  An MCP tool handler is run *)
(* through enforceToolCall, and its result becomes a reply.  Before the    *)
(* call, the application's context function may throw; after it, the text  *)
(* of the tool's data is computed, which may throw as well.  Either way    *)
(* the caller sees a promise that rejects, and no reply.                   *)
(***************************************************************************)
EXTENDS SdkNode

CONSTANTS
    NoReply,        \* before the caller has heard anything
    Rejected        \* the promise rejects

VARIABLE reply          \* what the caller of each guarded tool got

Reply == [ok: BOOLEAN, executed: BOOLEAN, isError: BOOLEAN, decision: Decision]

ASSUME McpToolAssumption == NoReply # Rejected /\ {NoReply, Rejected} \cap Reply = {}

McpInit == reply = [c \in Caller |-> NoReply]

(* What a handler's data may be to createSuccessfulResult: an MCP result,  *)
(* with or without its isError flag; a value JSON.stringify throws on (a   *)
(* cycle, a BigInt); or any other value.                                   *)
Data == {"mcp", "mcp_error", "unprintable", "plain"}

createSuccessfulResult(decision, data) ==
    IF data = "unprintable" THEN Rejected
    ELSE [ok |-> TRUE, executed |-> TRUE, isError |-> data = "mcp_error", decision |-> decision]

ErrorReply(r, executed) == [ok |-> FALSE, executed |-> executed, isError |-> TRUE, decision |-> r.decision]

\* A reply that trusts the tool's data whenever there is some.
GuardedReplyOfData(r, data) ==
    IF r.data THEN createSuccessfulResult(r.decision, data) ELSE ErrorReply(r, r.executed)

(* The reply guardMcpTool makes of enforceToolCall's result: a refusal, an *)
(* audit failure and a handler that threw are all errors, and auditFailed  *)
(* is not passed on.                                                       *)
GuardedReply(r, data) ==
    IF r.decision \in {"block", "require_approval"} THEN ErrorReply(r, FALSE)
    ELSE IF r.ok THEN createSuccessfulResult(r.decision, data)
    ELSE ErrorReply(r, r.executed)

(* wrapMcpTool makes the same replies.                                     *)
WrappedReply(r, data) == GuardedReply(r, data)

-----------------------------------------------------------------------------
ContextThrows(c) ==
    /\ phase[c] = "idle"
    /\ reply[c] = NoReply
    /\ reply' = [reply EXCEPT ![c] = Rejected]
    /\ UNCHANGED vars

CallTool(c) ==
    /\ reply[c] = NoReply
    /\ EnforceToolCall(c)
    /\ UNCHANGED reply

ReplyToCaller(c) ==
    /\ phase[c] = "returned"
    /\ reply[c] = NoReply
    /\ \E data \in Data :
          \/ reply' = [reply EXCEPT ![c] = GuardedReply(result[c], data)]
          \/ reply' = [reply EXCEPT ![c] = WrappedReply(result[c], data)]
    /\ UNCHANGED vars

(* Everything enforceToolCall does after it was called is SdkNode's.       *)
McpStep(c) ==
    \/ ContextThrows(c)
    \/ CallTool(c)
    \/ ReplyToCaller(c)
    \/ (SdkStep(c) \/ CallbackReturns(c) \/ CallbackThrows(c)) /\ UNCHANGED reply

-----------------------------------------------------------------------------
(* What the caller of a guarded tool may conclude.  A reply that is ok     *)
(* means the handler returned and the event with its outcome was           *)
(* acknowledged; executed says whether the handler was entered; only the   *)
(* tool itself can make an ok reply an error.  A rejected promise leaves   *)
(* two cases apart by the audit log alone: nothing was done, not even      *)
(* recorded, or everything was done and only the reply could not be made.  *)
McpRepliesAreHonest ==
    \A c \in Caller :
        LET settled == \E status \in {"executed", "logged"} : Acked(c, status)
            r == reply[c]
        IN  /\ r \in Reply =>
                  /\ r.ok => callback[c] = "returned" /\ settled
                  /\ r.executed <=> entered[c] = 1
                  /\ ~r.isError => r.ok
            /\ r = Rejected =>
                  \/ phase[c] = "idle" /\ entered[c] = 0 /\ \A ev \in acked : ev.caller # c
                  \/ callback[c] = "returned" /\ settled

=============================================================================
