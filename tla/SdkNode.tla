------------------------------- MODULE SdkNode -------------------------------
(***************************************************************************)
(* packages/sdk-node: enforceToolCall.  One Caller is one tool call.  The  *)
(* call evaluates the policy, appends an audit event, and only then enters *)
(* the application's callback; afterwards it appends a second event with   *)
(* the outcome.  Every await is a point where other calls run, where the   *)
(* application may change the arguments it passed, and where the process   *)
(* may stop.                                                               *)
(*                                                                         *)
(*   idle --> refusing ------------------------------> returned            *)
(*   idle --> evidence --> running --> closing ------> returned            *)
(*                |           |------> failing ------> returned            *)
(*                |----------------------------------> returned            *)
(*   any of them --> lost, when the process stops                          *)
(*                                                                         *)
(* The audit file and the steps of append are LocalAudit's.                *)
(***************************************************************************)
EXTENDS LocalAudit

CONSTANTS
    Policy,         \* the decision evaluatePolicy observes for each Input
    Modes,          \* the enforcement modes the policy file may set
    MutableArgs,    \* TRUE: the application may change a call's arguments in flight
    NoResult        \* the result of a call that has not returned

ASSUME SdkNodeAssumption ==
    /\ Policy \in [Input -> Decision]
    /\ Modes \subseteq Mode
    /\ MutableArgs \in BOOLEAN

VARIABLES
    mode,       \* the policy file's enforcement mode
    phase,      \* where each call is in enforceToolCall
    observed,   \* evaluation.observedDecision, once evaluated
    entered,    \* how often the callback was entered (history)
    callback,   \* how the callback ended (history)
    touched,    \* the calls whose arguments changed after they were passed (history)
    result      \* what enforceToolCall returned

sdkVars == <<mode, phase, observed, entered, callback, touched, result>>

vars == <<auditVars, sdkVars>>

Phase == {"idle", "refusing", "evidence", "running", "closing", "failing", "returned", "lost"}

InProcess(c) == phase[c] \in {"refusing", "evidence", "running", "closing", "failing"}

effective(c) == EffectiveDecision(mode, observed[c])

Result == [ok: BOOLEAN, decision: Decision, executed: BOOLEAN, auditFailed: BOOLEAN,
           data: BOOLEAN, error: {"none", "audit", "callback"}]

ASSUME NoResultAssumption == NoResult \notin Result

-----------------------------------------------------------------------------
Init ==
    /\ AuditInit
    /\ mode \in Modes
    /\ phase = [c \in Caller |-> "idle"]
    /\ observed = [c \in Caller |-> "block"]
    /\ entered = [c \in Caller |-> 0]
    /\ callback = [c \in Caller |-> "none"]
    /\ touched = {}
    /\ result = [c \in Caller |-> NoResult]

Goto(c, p) == phase' = [phase EXCEPT ![c] = p]

(* The event of the decision, by what the policy decided.                  *)
FirstStatus(decision) ==
    CASE decision = "block" -> "blocked"
      [] decision = "require_approval" -> "pending_approval"
      [] decision \in Permits -> "decision_logged"

\* A status taken from the decision.
FinalStatusOfDecision(decision) == IF decision = "log_only" THEN decision ELSE "executed"

FinalStatus(decision) == IF decision = "log_only" THEN "logged" ELSE "executed"

(* enforceToolCall is called: it evaluates the policy and calls append     *)
(* before its first await.                                                 *)
EnforceToolCall(c) ==
    /\ phase[c] = "idle"
    /\ LET seen     == Policy[args[c]]
           decision == EffectiveDecision(mode, seen)
       IN  /\ observed' = [observed EXCEPT ![c] = seen]
           /\ Goto(c, IF decision \in Permits THEN "evidence" ELSE "refusing")
           /\ CallAppend(c, FirstStatus(decision), seen, decision)
    /\ UNCHANGED <<integrity, log, args, acked, mode, entered, callback, touched, result>>

Return(c, r) ==
    /\ Goto(c, "returned")
    /\ result' = [result EXCEPT ![c] = r]
    /\ append' = [append EXCEPT ![c] = NoAppend]
    /\ UNCHANGED <<integrity, log, args, acked, overlapped, mode, observed, entered, callback, touched>>

\* A refusal that throws where it could not be recorded.
RefusedResolvedOnly(c) ==
    /\ phase[c] = "refusing"
    /\ append[c].pc = "resolved"
    /\ Return(c, [ok |-> FALSE, decision |-> effective(c), executed |-> FALSE,
                  auditFailed |-> FALSE, data |-> FALSE, error |-> "none"])

(* The blocked or pending_approval event is written, or could not be.      *)
Refused(c) ==
    /\ phase[c] = "refusing"
    /\ append[c].pc \in {"resolved", "rejected"}
    /\ LET failed == append[c].pc = "rejected"
       IN  Return(c, [ok |-> FALSE, decision |-> effective(c), executed |-> FALSE,
                      auditFailed |-> failed, data |-> FALSE,
                      error |-> IF failed THEN "audit" ELSE "none"])

\* A client that enters the callback whether or not the event was written.
EnterCallbackRegardless(c) ==
    /\ phase[c] = "evidence"
    /\ append[c].pc \in {"resolved", "rejected"}
    /\ Goto(c, "running")
    /\ entered' = [entered EXCEPT ![c] = @ + 1]
    /\ append' = [append EXCEPT ![c] = NoAppend]
    /\ UNCHANGED <<integrity, log, args, acked, overlapped, mode, observed, callback, touched, result>>

(* The decision_logged event is written: the callback is entered.          *)
EnterCallback(c) ==
    /\ phase[c] = "evidence"
    /\ append[c].pc = "resolved"
    /\ Goto(c, "running")
    /\ entered' = [entered EXCEPT ![c] = @ + 1]
    /\ append' = [append EXCEPT ![c] = NoAppend]
    /\ UNCHANGED <<integrity, log, args, acked, overlapped, mode, observed, callback, touched, result>>

(* The decision_logged event could not be written: the callback is not     *)
(* entered.                                                                *)
EvidenceFails(c) ==
    /\ phase[c] = "evidence"
    /\ append[c].pc = "rejected"
    /\ Return(c, [ok |-> FALSE, decision |-> effective(c), executed |-> FALSE,
                  auditFailed |-> TRUE, data |-> FALSE, error |-> "audit"])

\* A client that evaluates the policy again for the final event.
CallbackReturnsReevaluated(c) ==
    /\ phase[c] = "running"
    /\ Goto(c, "closing")
    /\ callback' = [callback EXCEPT ![c] = "returned"]
    /\ CallAppend(c, FinalStatus(effective(c)), Policy[args[c]],
                  EffectiveDecision(mode, Policy[args[c]]))
    /\ UNCHANGED <<integrity, log, args, acked, mode, observed, entered, touched, result>>

CallbackReturns(c) ==
    /\ phase[c] = "running"
    /\ Goto(c, "closing")
    /\ callback' = [callback EXCEPT ![c] = "returned"]
    /\ CallAppend(c, FinalStatus(effective(c)), observed[c], effective(c))
    /\ UNCHANGED <<integrity, log, args, acked, mode, observed, entered, touched, result>>

CallbackThrows(c) ==
    /\ phase[c] = "running"
    /\ Goto(c, "failing")
    /\ callback' = [callback EXCEPT ![c] = "threw"]
    /\ CallAppend(c, "failed", observed[c], effective(c))
    /\ UNCHANGED <<integrity, log, args, acked, mode, observed, entered, touched, result>>

\* A client whose outer catch also catches a final append that rejects.
ClosedIntoCatch(c) ==
    /\ phase[c] = "closing"
    /\ \/ /\ append[c].pc = "resolved"
          /\ Return(c, [ok |-> TRUE, decision |-> effective(c), executed |-> TRUE,
                        auditFailed |-> FALSE, data |-> TRUE, error |-> "none"])
       \/ /\ append[c].pc = "rejected"
          /\ Goto(c, "failing")
          /\ CallAppend(c, "failed", observed[c], effective(c))
          /\ UNCHANGED <<integrity, log, args, acked, mode, observed, entered, callback,
                         touched, result>>

\* A client that does not look at how the final append ended.
ClosedIgnoringAudit(c) ==
    /\ phase[c] = "closing"
    /\ append[c].pc \in {"resolved", "rejected"}
    /\ Return(c, [ok |-> TRUE, decision |-> effective(c), executed |-> TRUE,
                  auditFailed |-> FALSE, data |-> TRUE, error |-> "none"])

(* The executed or logged event is written, or could not be; the caller    *)
(* gets the callback's data either way.                                    *)
Closed(c) ==
    /\ phase[c] = "closing"
    /\ append[c].pc \in {"resolved", "rejected"}
    /\ LET failed == append[c].pc = "rejected"
       IN  Return(c, [ok |-> ~failed, decision |-> effective(c), executed |-> TRUE,
                      auditFailed |-> failed, data |-> TRUE,
                      error |-> IF failed THEN "audit" ELSE "none"])

\* A client that takes a callback that threw for one that never ran.
FailedAsNotExecuted(c) ==
    /\ phase[c] = "failing"
    /\ append[c].pc \in {"resolved", "rejected"}
    /\ Return(c, [ok |-> FALSE, decision |-> effective(c), executed |-> FALSE,
                  auditFailed |-> append[c].pc = "rejected", data |-> FALSE,
                  error |-> "callback"])

(* The failed event is written, or could not be; the caller gets the       *)
(* callback's error either way.                                            *)
Failed(c) ==
    /\ phase[c] = "failing"
    /\ append[c].pc \in {"resolved", "rejected"}
    /\ Return(c, [ok |-> FALSE, decision |-> effective(c), executed |-> TRUE,
                  auditFailed |-> append[c].pc = "rejected", data |-> FALSE,
                  error |-> "callback"])

(* A step of the call's append, while its promise is awaited.              *)
AuditStep(c) ==
    /\ AppendStep(c)
    /\ UNCHANGED sdkVars

(* The application changes the argument object of a call it has made.      *)
MutateArgs(c) ==
    /\ MutableArgs
    /\ InProcess(c)
    /\ c \notin touched
    /\ \E i \in Input \ {args[c]} : args' = [args EXCEPT ![c] = i]
    /\ touched' = touched \cup {c}
    /\ UNCHANGED <<integrity, log, append, acked, overlapped,
                   mode, phase, observed, entered, callback, result>>

(* The process stops: every call it had in progress is lost.  A call that  *)
(* was not made yet is made by the process that is started next.           *)
ProcessStops ==
    /\ \E c \in Caller : InProcess(c)
    /\ phase' = [c \in Caller |-> IF InProcess(c) THEN "lost" ELSE phase[c]]
    /\ append' = [c \in Caller |-> NoAppend]
    /\ UNCHANGED <<integrity, log, args, acked, overlapped,
                   mode, observed, entered, callback, touched, result>>

(* What the SDK and the file system do for a call; the callback's end is   *)
(* the application's.                                                      *)
SdkStep(c) ==
    \/ AuditStep(c)
    \/ Refused(c)
    \/ EnterCallback(c)
    \/ EvidenceFails(c)
    \/ Closed(c)
    \/ Failed(c)

Next ==
    \/ \E c \in Caller :
          \/ EnforceToolCall(c)
          \/ SdkStep(c)
          \/ CallbackReturns(c)
          \/ CallbackThrows(c)
          \/ MutateArgs(c)
    \/ ProcessStops

Spec == Init /\ [][Next]_vars

(* Pending file operations complete and promise reactions run; nothing is  *)
(* assumed of the callback, of further calls, or of crashes.               *)
FairSpec == Spec /\ \A c \in Caller : WF_vars(SdkStep(c))

-----------------------------------------------------------------------------
(* The type of the state.                                                  *)
TypeOK ==
    /\ AuditTypeOK
    /\ mode \in Modes
    /\ phase \in [Caller -> Phase]
    /\ observed \in [Caller -> Decision]
    /\ entered \in [Caller -> Nat]
    /\ callback \in [Caller -> {"none", "returned", "threw"}]
    /\ touched \subseteq Caller
    /\ result \in [Caller -> Result \cup {NoResult}]

Acked(c, status) ==
    \E ev \in acked :
        /\ ev.caller = c
        /\ ev.status = status
        /\ ev.observed = observed[c]
        /\ ev.decision = effective(c)

(* The callback is entered at most once, only under an effective allow or  *)
(* log_only, and only after this call's own decision_logged event, with    *)
(* the decision that was taken, was acknowledged by the audit logger.      *)
ExecutionGate ==
    \A c \in Caller : entered[c] > 0 =>
        /\ entered[c] = 1
        /\ effective(c) \in Permits
        /\ Acked(c, "decision_logged")

StatusLines(c, statuses) ==
    {i \in DOMAIN log.lines : /\ Parses(log.lines[i])
                              /\ log.lines[i].ev.caller = c
                              /\ log.lines[i].ev.status \in statuses}

(* What an auditor may conclude from the lines of one call, in a file with *)
(* no torn line: a refusal line stands alone and its callback never ran;   *)
(* an outcome line comes after one decision_logged line of the same call   *)
(* and tells how the callback ended; an entered callback has its           *)
(* decision_logged line on file already.                                   *)
TrailTellsTheTruth ==
    GarbageLines = {} => \A c \in Caller :
        LET evidence == StatusLines(c, {"decision_logged"})
            refusals == StatusLines(c, {"blocked", "pending_approval"})
            endings  == StatusLines(c, {"executed", "logged", "failed"})
        IN  /\ refusals # {} => evidence = {} /\ endings = {} /\ entered[c] = 0
            /\ entered[c] > 0 => evidence # {}
            /\ \A i \in endings :
                  /\ \A j \in endings : i = j
                  /\ \E j \in evidence : j < i
                  /\ callback[c] = IF log.lines[i].ev.status = "failed" THEN "threw" ELSE "returned"

(* A decision_logged line that no outcome line follows is explained: the   *)
(* call is still in progress, was lost with its process, or its caller was *)
(* told that the audit failed.                                             *)
OpenTrailsExplained ==
    GarbageLines = {} => \A c \in Caller :
        (/\ phase[c] = "returned"
         /\ StatusLines(c, {"decision_logged"}) # {}
         /\ StatusLines(c, {"executed", "logged", "failed"}) = {})
        => result[c].auditFailed

(* The result is honest about what happened: executed says whether the     *)
(* callback was entered; data and the error are the callback's when it     *)
(* ended that way; and a result without auditFailed promises that the      *)
(* event with the call's outcome was acknowledged.                         *)
ResultIsHonest ==
    \A c \in Caller : phase[c] = "returned" =>
        LET r == result[c]
        IN  /\ r.executed <=> entered[c] = 1
            /\ r.ok => callback[c] = "returned" /\ ~r.auditFailed
            /\ r.data <=> callback[c] = "returned"
            /\ r.error = "callback" <=> callback[c] = "threw"
            /\ ~r.auditFailed =>
                  \E status \in Status \ {"decision_logged"} : Acked(c, status)

(* The policy is consulted once per call: every event of a call carries    *)
(* the same decision, whatever the application does to the arguments in    *)
(* the meantime; in observe mode none of them is a refusal, and the event  *)
(* keeps the decision that was only observed.                              *)
OneDecisionPerCall ==
    \A ev \in acked :
        /\ ev.observed = observed[ev.caller]
        /\ ev.decision = EffectiveDecision(mode, ev.observed)
        /\ mode = "observe" => ev.decision \in Permits

(* The audit log replays: if the application left a call's arguments       *)
(* alone, evaluating the policy on the arguments in any of its events      *)
(* gives the decision in that event.  (That is, a policy whose conditions  *)
(* read no field redactPayload hides: Policy is a function of Input.)      *)
UntouchedCallsReplay ==
    \A ev \in acked : ev.caller \notin touched => Policy[ev.args] = ev.observed

(* Every call whose callback does not hang returns, whatever the other     *)
(* calls' callbacks do, unless its process stops.                          *)
CallsReturn ==
    \A c \in Caller :
        /\ (phase[c] \in {"refusing", "evidence"}) ~> (phase[c] \in {"running", "returned", "lost"})
        /\ (phase[c] \in {"closing", "failing"}) ~> (phase[c] \in {"returned", "lost"})

(* docs/audit-behavior.md, Pre-Execution Audit Behavior: the               *)
(* decision_logged event "creates local evidence that policy allowed       *)
(* execution before the side effect occurred": the event is in the file    *)
(* when the callback has been entered.                                     *)
EvidenceBeforeSideEffect ==
    \A c \in Caller : entered[c] > 0 => StatusLines(c, {"decision_logged"}) # {}

-----------------------------------------------------------------------------
(* The promise of EnforcementGate, and how this module keeps it.           *)

StageOf == [idle |-> "new", refusing |-> "refused", evidence |-> "cleared",
            running |-> "entered", closing |-> "ended", failing |-> "ended",
            returned |-> "reported", lost |-> "abandoned"]

CallStage == [c \in Caller |-> StageOf[phase[c]]]

Attested == {c \in Caller : \E ev \in acked : ev.caller = c /\ ev.status = "decision_logged"}

Recorded == {c \in Caller : \E ev \in acked : ev.caller = c /\ ev.status # "decision_logged"}

CallReport == [c \in Caller |->
    IF result[c] = NoResult THEN <<"none", FALSE>>
    ELSE <<IF result[c].executed THEN "ran"
           ELSE IF result[c].decision \in Permits THEN "not_run" ELSE "refused",
           ~result[c].auditFailed>>]

Gate == INSTANCE EnforcementGate WITH
    Call <- Caller, stage <- CallStage, attested <- Attested, recorded <- Recorded, report <- CallReport

(* enforceToolCall implements the gate: every step of the SDK, of the file *)
(* system, of the application and of a crash is a step of the gate, or     *)
(* none.                                                                   *)
ImplementsGate == Gate!GateSpec

=============================================================================
