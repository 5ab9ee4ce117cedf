------------------------------- MODULE SdkPython -------------------------------
(***************************************************************************)
(* packages/sdk-python: EnforraClient.run_tool and LocalAuditLogger.  The  *)
(* gate is enforceToolCall's, with the same statuses and results, so its   *)
(* steps are SdkNode's, but run_tool is synchronous: the event is built    *)
(* before anything is written, it is written without a hash, and a write   *)
(* that fails is an exception that leaves run_tool, before the handler or  *)
(* after it.  Only Exception is caught, and only around the handler: a     *)
(* KeyboardInterrupt may leave run_tool anywhere.                          *)
(***************************************************************************)
EXTENDS SdkNode

CONSTANTS
    PythonCaller,   \* the calls made through run_tool
    NotJson         \* the Inputs json.dumps writes as text JSON.parse rejects (NaN, Infinity)

ASSUME SdkPythonAssumption ==
    /\ PythonCaller \subseteq Caller
    /\ NotJson \subseteq Input
    /\ \A i \in Integrities, c \in PythonCaller : i[c] = "none"

VARIABLE raised     \* the exception that left each run_tool

PythonInit == raised = [c \in PythonCaller |-> "none"]

Raise(c, exception) ==
    /\ Goto(c, "returned")
    /\ raised' = [raised EXCEPT ![c] = exception]
    /\ append' = [append EXCEPT ![c] = NoAppend]

(* Neither the client nor the call names an agent.  (An interrupt before   *)
(* the policy is evaluated leaves no more behind.)                         *)
NoAgent(c) ==
    /\ phase[c] = "idle"
    /\ Raise(c, "agent")
    /\ UNCHANGED <<integrity, log, args, acked, overlapped,
                   mode, observed, entered, callback, touched, result>>

(* run_tool evaluates the policy and builds its first event.               *)
RunTool(c) == EnforceToolCall(c) /\ UNCHANGED raised

PythonLine(ev) == IF ev.args \in NotJson THEN Garbage ELSE PlainLine(ev)

(* LocalAuditLogger.append: the line is written and the file closed.       *)
PythonAppend(c) ==
    /\ append[c].pc = "mkdir"
    /\ log' = Land(log, PythonLine(append[c].ev), "whole")
    /\ append' = [append EXCEPT ![c].pc = "resolved"]
    /\ acked' = acked \cup {append[c].ev}
    /\ UNCHANGED <<integrity, args, overlapped, sdkVars, raised>>

(* mkdir, open, json.dumps or the write raises, or is interrupted.         *)
PythonAppendFails(c, cut) ==
    /\ cut \in Faults \cap Cut
    /\ append[c].pc = "mkdir"
    /\ log' = Land(log, PythonLine(append[c].ev), cut)
    /\ append' = [append EXCEPT ![c].pc = "rejected"]
    /\ UNCHANGED <<integrity, args, acked, overlapped, sdkVars, raised>>

\* A client that swallows a failed write and goes on.
AuditRaisesSwallowed(c) ==
    /\ append[c].pc = "rejected"
    /\ IF phase[c] = "evidence"
       THEN /\ Goto(c, "running")
            /\ entered' = [entered EXCEPT ![c] = @ + 1]
            /\ append' = [append EXCEPT ![c] = NoAppend]
            /\ UNCHANGED raised
       ELSE Raise(c, "audit") /\ UNCHANGED entered
    /\ UNCHANGED <<integrity, log, args, acked, overlapped,
                   mode, observed, callback, touched, result>>

(* The exception of a failed write leaves run_tool; where the handler      *)
(* threw before, it replaces the handler's.                                *)
AuditRaises(c) ==
    /\ append[c].pc = "rejected"
    /\ Raise(c, "audit")
    /\ UNCHANGED <<integrity, log, args, acked, overlapped,
                   mode, observed, entered, callback, touched, result>>

(* The event was written: run_tool returns its result, or enters the       *)
(* handler.                                                                *)
PythonReturns(c) ==
    /\ append[c].pc = "resolved"
    /\ Refused(c) \/ EnterCallback(c) \/ Closed(c) \/ Failed(c)
    /\ UNCHANGED raised

HandlerEnds(c) == (CallbackReturns(c) \/ CallbackThrows(c)) /\ UNCHANGED raised

(* A KeyboardInterrupt, before a write, after it, in the handler or around *)
(* it, or a SystemExit of the handler's: nothing is recorded any more.     *)
Interrupted(c) ==
    /\ InProcess(c)
    /\ Raise(c, "interrupt")
    /\ callback' = IF phase[c] = "running" THEN [callback EXCEPT ![c] = "threw"] ELSE callback
    /\ UNCHANGED <<integrity, log, args, acked, overlapped, mode, observed, entered, touched, result>>

PythonStep(c) ==
    \/ NoAgent(c)
    \/ RunTool(c)
    \/ PythonAppend(c)
    \/ \E cut \in Cut : PythonAppendFails(c, cut)
    \/ AuditRaises(c)
    \/ PythonReturns(c)
    \/ HandlerEnds(c)
    \/ Interrupted(c)

-----------------------------------------------------------------------------
(* What the caller of run_tool may conclude.  A result that was returned   *)
(* is backed by an acknowledged event with the call's outcome.  Where an   *)
(* error of the call or of the audit left run_tool instead, the handler    *)
(* ran if and only if the decision_logged event was acknowledged, and no   *)
(* outcome was: the call must not be taken for one that was refused, nor   *)
(* simply be repeated.  An interrupt may leave an acknowledged decision    *)
(* whose handler never ran, or an outcome that was never reported, but no  *)
(* record of what did not happen, and no handler without its record.       *)
PythonOutcomesAreBacked ==
    \A c \in PythonCaller : phase[c] = "returned" =>
        LET settled == \E status \in Status \ {"decision_logged"} : Acked(c, status)
        IN  CASE raised[c] = "none" ->
                   /\ settled
                   /\ result[c].executed <=> entered[c] = 1
                   /\ result[c].ok <=> callback[c] = "returned"
              [] raised[c] \in {"agent", "audit"} ->
                   /\ ~settled
                   /\ entered[c] = 1 <=> Acked(c, "decision_logged")
              [] raised[c] = "interrupt" ->
                   /\ entered[c] = 1 => Acked(c, "decision_logged")
                   /\ Acked(c, "executed") \/ Acked(c, "logged") => callback[c] = "returned"
                   /\ Acked(c, "failed") => callback[c] = "threw"
                   /\ Acked(c, "blocked") \/ Acked(c, "pending_approval") => entered[c] = 0

=============================================================================
