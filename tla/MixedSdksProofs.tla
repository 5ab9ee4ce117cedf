---------------------------- MODULE MixedSdksProofs ----------------------------
(***************************************************************************)
(* Theorems about a Node and a Python process that share one audit file,   *)
(* for every set of calls of either, policy, set of inputs, integrity      *)
(* options and I/O faults.                                                 *)
(*                                                                         *)
(* The steps the two SDKs share keep CallInv by the lemmas about SdkNode;  *)
(* what is new are the steps that write a Python line (WritesKeep), that   *)
(* leave a call by an exception (RaiseKeeps) and that stop one of the two  *)
(* processes (StopKeeps).  A call that has returned is Settled, so what    *)
(* its caller was told stays true.  What an interrupt leaves rests on      *)
(* FitsInv: the outcome on record of a call in progress is the one its     *)
(* phase is about to report.  What enforra report counts rests on          *)
(* CountInv: every line is of a call that was made and names its decision, *)
(* and a call leaves at most one line of each kind; on AckInv: the         *)
(* acknowledged events are lines; and on FiniteInv, as sets are counted.   *)
(***************************************************************************)
EXTENDS MixedSdks, SdkNodeProofs

-----------------------------------------------------------------------------
(* The steps SdkNode does not have.                                        *)

(* A Python line is a line of the log.                                     *)
LEMMA PythonLineType ==
    ASSUME NEW ev \in Event
    PROVE  PythonLine(ev) \in Line
  BY HashType, LineType DEF PythonLine

(* LocalAuditLogger.append moves its append on, as the Node logger does.   *)
LEMMA PythonMoves ==
    ASSUME TypeInv, NEW c \in Caller,
           PythonAppend(c) \/ \E cut \in Cut : PythonAppendFails(c, cut)
    PROVE  AppendMovesOn(c)
  <1> PICK pc \in {"resolved", "rejected"}, cut \in Cut :
          /\ append[c].pc = "mkdir"
          /\ log' = Land(log, PythonLine(append[c].ev), cut)
          /\ append' = [append EXCEPT ![c].pc = pc]
          /\ acked' = IF pc = "resolved" THEN acked \cup {append[c].ev} ELSE acked
          /\ UNCHANGED <<integrity, args, overlapped, sdkVars>>
    BY DEF PythonAppend, PythonAppendFails, Cut
  <1>1. append \in [Caller -> Append_] /\ append[c].ev \in Event /\ log \in Log
    BY AuditPart, LogIsLog DEF TypeInv, TypeOK, AuditTypeOK, AppendHoldsEvent, Append_
  <1>2. log' \in Log
    BY <1>1, PythonLineType, LandType
  <1> DEFINE next == [append[c] EXCEPT !.pc = pc]
  <1>3. /\ next \in Append_
        /\ next.pc = pc
        /\ next.ev = append[c].ev
        /\ append' = [append EXCEPT ![c] = next]
    BY <1>1 DEF Append_, AppendPc
  <1> HIDE DEF next
  <1>4. AppendMoves(c)
    BY <1>1, <1>3 DEF AppendMoves
  <1> QED
    BY <1>2, <1>4 DEF AppendMovesOn

(* A step of an append, of either logger.                                  *)
LEMMA WritesKeep ==
    ASSUME CallInv, NEW c \in Caller, AppendMovesOn(c)
    PROVE  CallInv'
  BY TypeMoves, DecisionMoves, GateMoves, RecordMoves, OutcomeMoves DEF CallInv, KnownInv

(* An exception leaves run_tool; an interrupt may be the callback's own.   *)
Leaves(c) ==
    /\ phase[c] # "returned"
    /\ phase' = [phase EXCEPT ![c] = "returned"]
    /\ append' = [append EXCEPT ![c] = NoAppend]
    /\ callback' \in {callback, [callback EXCEPT ![c] = "threw"]}
    /\ UNCHANGED <<integrity, log, args, acked, overlapped,
                   mode, observed, entered, touched, result>>

(* A call that an exception leaves has no result, and no other call is     *)
(* touched.                                                                *)
LEMMA RaiseKeeps ==
    ASSUME CallInv, NEW c \in Caller, Leaves(c)
    PROVE  CallInv'
  <1>1. /\ append \in [Caller -> Append_]
        /\ phase \in [Caller -> Phase]
        /\ callback \in [Caller -> {"none", "returned", "threw"}]
        /\ TypeInv
    BY DEF CallInv, KnownInv, TypeInv, TypeOK, AuditTypeOK, Append_
  <1>2. /\ append' \in [Caller -> Append_]
        /\ append'[c].pc = "idle"
        /\ phase'[c] = "returned"
        /\ \A d \in Caller \ {c} : /\ append'[d] = append[d]
                                   /\ phase'[d] = phase[d]
                                   /\ callback'[d] = callback[d]
        /\ result[c] = NoResult
    BY <1>1, NoAppendType DEF Leaves, CallInv, OutcomeInv
  <1>3. TypeInv'
    <2>1. AppendHoldsEvent'
      BY <1>1, <1>2 DEF TypeInv, AppendHoldsEvent
    <2>2. AuditTypeOK'
      BY <1>1, <1>2 DEF Leaves, TypeInv, TypeOK, AuditTypeOK, Append_
    <2>3. phase' \in [Caller -> Phase] /\ callback' \in [Caller -> {"none", "returned", "threw"}]
      BY <1>1 DEF Leaves, Phase
    <2> QED
      BY <1>1, <2>1, <2>2, <2>3 DEF Leaves, TypeInv, TypeOK
  <1>4. DecisionInv'
    BY <1>1, <1>2, DecisionKept DEF Leaves, CallInv, KnownInv
  <1>5. GateInv'
    BY <1>1, <1>2, GateKept DEF Leaves, CallInv, KnownInv, GateInv
  <1>6. RecordInv'
    BY <1>2, RecordStays DEF Leaves, CallInv, RecordInv
  <1>7. ToldInv'
    BY <1>1, <1>2, ToldKept DEF Leaves, CallInv
  <1>8. OutcomeInv'
    BY <1>2, <1>7 DEF Leaves, CallInv, OutcomeInv, effective
  <1> QED
    BY <1>3, <1>4, <1>5, <1>6, <1>8 DEF CallInv, KnownInv

(* A process that stops loses its calls in progress, and no others.        *)
LEMMA StopKeeps ==
    ASSUME CallInv, NEW callers \in SUBSET Caller, OneProcessStops(callers)
    PROVE  CallInv'
  <1>1. /\ append \in [Caller -> Append_]
        /\ phase \in [Caller -> Phase]
        /\ TypeInv
    BY DEF CallInv, KnownInv, TypeInv, TypeOK, AuditTypeOK, Append_
  <1>2. \A c \in Caller :
            \/ phase'[c] = phase[c] /\ append'[c] = append[c]
            \/ phase'[c] = "lost" /\ append'[c] = NoAppend /\ phase[c] \notin {"idle", "returned", "lost"}
    BY DEF OneProcessStops, InProcess
  <1>3. TypeInv'
    <2>1. append' \in [Caller -> Append_] /\ AppendHoldsEvent'
      BY <1>1, <1>2, NoAppendType DEF OneProcessStops, TypeInv, AppendHoldsEvent
    <2>2. AuditTypeOK'
      BY <1>1, <2>1 DEF OneProcessStops, TypeInv, TypeOK, AuditTypeOK, Append_
    <2>3. phase' \in [Caller -> Phase]
      BY <1>1 DEF OneProcessStops, Phase
    <2> QED
      BY <1>1, <2>1, <2>2, <2>3 DEF OneProcessStops, TypeInv, TypeOK
  <1>4. DecisionInv'
    BY <1>1, <1>2, NoAppendType, DecisionKept DEF OneProcessStops, CallInv, KnownInv
  <1>5. GateInv'
    BY <1>1, <1>2, NoAppendType, GateKept DEF OneProcessStops, CallInv, KnownInv, GateInv
  <1>6. RecordInv'
    BY <1>2, NoAppendType, RecordStays DEF OneProcessStops, CallInv, RecordInv
  <1>7. ToldInv'
    BY <1>2, ToldKept DEF OneProcessStops, CallInv
  <1>8. OutcomeInv'
    BY <1>2, <1>7 DEF OneProcessStops, CallInv, OutcomeInv, effective
  <1> QED
    BY <1>3, <1>4, <1>5, <1>6, <1>8 DEF CallInv, KnownInv

-----------------------------------------------------------------------------
(* Every step of the two processes.                                        *)

(* The steps of a call that are SdkNode's.                                 *)
SharedStep(c) ==
    \/ EnforceToolCall(c)
    \/ Refused(c)
    \/ EnterCallback(c)
    \/ EvidenceFails(c)
    \/ Closed(c)
    \/ Failed(c)
    \/ CallbackReturns(c)
    \/ CallbackThrows(c)

(* Each step of either process is of one of five kinds.                    *)
LEMMA MixedShape ==
    ASSUME CallInv, [MixedNext]_mixedVars
    PROVE  \/ \E c \in Caller : AppendMovesOn(c)
           \/ \E c \in Caller : SharedStep(c)
           \/ \E c \in PythonCaller : Leaves(c)
           \/ \E callers \in SUBSET Caller : OneProcessStops(callers)
           \/ UNCHANGED vars
  <1>1. PythonCaller \subseteq Caller /\ NodeCaller \subseteq Caller /\ TypeInv
    BY SdkPythonAssumption DEF NodeCaller, CallInv, KnownInv
  <1>2. ASSUME NEW c \in NodeCaller, McpStep(c)
        PROVE  AppendMovesOn(c) \/ SharedStep(c) \/ UNCHANGED vars
    BY <1>1, <1>2, MovesShape DEF McpStep, ContextThrows, CallTool, ReplyToCaller, SdkStep, SharedStep
  <1>3. ASSUME NEW c \in PythonCaller, PythonStep(c)
        PROVE  AppendMovesOn(c) \/ SharedStep(c) \/ Leaves(c)
    <2>1. CASE NoAgent(c)
      BY <2>1 DEF NoAgent, Raise, Goto, Leaves
    <2>2. CASE AuditRaises(c)
      <3>1. phase[c] # "returned"
        BY <1>1, <2>2 DEF AuditRaises, CallInv, RecordInv
      <3> QED
        BY <2>2, <3>1 DEF AuditRaises, Raise, Goto, Leaves
    <2>3. CASE Interrupted(c)
      BY <2>3 DEF Interrupted, InProcess, Raise, Goto, Leaves
    <2> QED
      BY <1>1, <1>3, <2>1, <2>2, <2>3, PythonMoves
         DEF PythonStep, RunTool, PythonReturns, HandlerEnds, SharedStep
  <1> QED
    BY <1>1, <1>2, <1>3 DEF MixedNext, mixedVars

(* Every step keeps CallInv.                                               *)
LEMMA MixedStep == CallInv /\ [MixedNext]_mixedVars => CallInv'
  <1> SUFFICES ASSUME CallInv, [MixedNext]_mixedVars PROVE CallInv'
    OBVIOUS
  <1>1. PythonCaller \subseteq Caller
    BY SdkPythonAssumption
  <1>2. ASSUME [Next]_vars
        PROVE  CallInv'
    BY <1>2, TypeStep, DecisionStep, GateStep, RecordStep, OutcomeStep DEF CallInv, KnownInv
  <1>3. ASSUME NEW c \in Caller, SharedStep(c)
        PROVE  Next
    BY <1>3 DEF SharedStep, Next, SdkStep
  <1> QED
    BY <1>1, <1>2, <1>3, MixedShape, WritesKeep, RaiseKeeps, StopKeeps

(* What is known of a call of either SDK.                                  *)
LEMMA MixedInvariant == MixedSpec => []CallInv
  <1>1. Init => CallInv
    BY InitType, DecisionInit, GateInit, RecordInit, OutcomeInit DEF CallInv, KnownInv
  <1> QED
    BY <1>1, MixedStep, PTL DEF MixedSpec, MixedInit

(* Sharing the audit file and the policy with another SDK, whose process   *)
(* may stop and whose writes may tear the file at any time, takes nothing  *)
(* from the gate: no callback is entered without an effective allow or     *)
(* log_only and the call's own acknowledged decision_logged event.         *)
THEOREM GateHoldsInBoth == MixedSpec => []ExecutionGate
  BY MixedInvariant, PTL DEF CallInv, KnownInv, GateInv

-----------------------------------------------------------------------------
(* A call that has returned.                                               *)

(* Nothing of it changes any more.                                         *)
Settled(c) ==
    /\ phase'[c] = "returned"
    /\ observed'[c] = observed[c]
    /\ entered'[c] = entered[c]
    /\ callback'[c] = callback[c]
    /\ result'[c] = result[c]
    /\ mode' = mode
    /\ \A ev \in acked \cup acked' : ev.caller = c => ev \in acked /\ ev \in acked'

(* No step of either process moves a call that has returned.               *)
LEMMA ReturnedSettles ==
    ASSUME CallInv, [MixedNext]_mixedVars, NEW c \in Caller, phase[c] = "returned"
    PROVE  Settled(c)
  <1>1. /\ append \in [Caller -> Append_]
        /\ phase \in [Caller -> Phase]
        /\ observed \in [Caller -> Decision]
        /\ entered \in [Caller -> Nat]
        /\ callback \in [Caller -> {"none", "returned", "threw"}]
        /\ result \in [Caller -> Result \cup {NoResult}]
        /\ PythonCaller \subseteq Caller
    BY SdkPythonAssumption DEF CallInv, KnownInv, TypeInv, TypeOK, AuditTypeOK, Append_
  <1>2. ASSUME NEW d \in Caller, AppendMovesOn(d)
        PROVE  Settled(c)
    <2>1. UNCHANGED <<mode, phase, observed, entered, callback, result>>
      BY <1>2 DEF AppendMovesOn, sdkVars
    <2>2. PICK next \in Append_ : /\ append[d].pc \in {"mkdir", "read", "write"}
                                  /\ next.ev.caller = append[d].ev.caller
                                  /\ acked' \in {acked, acked \cup {next.ev}}
      BY <1>2 DEF AppendMovesOn, AppendMoves
    <2>3. d # c /\ next.ev.caller = d
      BY <2>2 DEF CallInv, KnownInv, DecisionInv, RecordInv
    <2> QED
      BY <2>1, <2>2, <2>3 DEF Settled
  <1>3. ASSUME NEW d \in Caller, SharedStep(d)
        PROVE  Settled(c)
    <2>1. d # c /\ UNCHANGED <<mode, acked>>
      BY <1>3 DEF SharedStep, EnforceToolCall, Refused, EnterCallback, EvidenceFails, Closed,
                  Failed, CallbackReturns, CallbackThrows, Return
    <2>2. CASE EnforceToolCall(d)
      BY <1>1, <2>1, <2>2 DEF EnforceToolCall, Goto, Settled
    <2>3. CASE EnterCallback(d)
      BY <1>1, <2>1, <2>3 DEF EnterCallback, Goto, Settled
    <2>4. CASE CallbackReturns(d) \/ CallbackThrows(d)
      BY <1>1, <2>1, <2>4 DEF CallbackReturns, CallbackThrows, Goto, Settled
    <2>5. CASE \E r : Return(d, r)
      BY <1>1, <2>1, <2>5 DEF Return, Goto, Settled
    <2> QED
      BY <1>3, <2>2, <2>3, <2>4, <2>5 DEF SharedStep, Refused, EvidenceFails, Closed, Failed
  <1>4. ASSUME NEW d \in Caller, Leaves(d)
        PROVE  Settled(c)
    BY <1>1, <1>4 DEF Leaves, Settled
  <1>5. ASSUME NEW callers \in SUBSET Caller, OneProcessStops(callers)
        PROVE  Settled(c)
    BY <1>5 DEF OneProcessStops, InProcess, Settled
  <1>6. CASE UNCHANGED vars
    BY <1>6 DEF vars, auditVars, sdkVars, Settled
  <1> QED
    BY <1>1, <1>2, <1>3, <1>4, <1>5, <1>6, MixedShape

(* What is on record of it stays.                                          *)
LEMMA SettledRecord ==
    ASSUME NEW c \in Caller, Settled(c)
    PROVE  /\ effective(c)' = effective(c)
           /\ \A status : Acked(c, status)' <=> Acked(c, status)
  BY DEF Settled, effective, Acked

-----------------------------------------------------------------------------
(* The replies of MCP tools.                                               *)

Answered(c) == \E status \in {"executed", "logged"} : Acked(c, status)

(* What McpRepliesAreHonest says of one call.                              *)
ReplyIsHonest(c) ==
    /\ reply[c] \in Reply =>
          /\ reply[c].ok => callback[c] = "returned" /\ Answered(c)
          /\ reply[c].executed <=> entered[c] = 1
          /\ ~reply[c].isError => reply[c].ok
    /\ reply[c] = Rejected =>
          \/ phase[c] = "idle" /\ entered[c] = 0 /\ \A ev \in acked : ev.caller # c
          \/ callback[c] = "returned" /\ Answered(c)

(* Node's calls return a result; a caller that was answered made a call    *)
(* that has returned, or made none.                                        *)
McpInv ==
    /\ \A c \in NodeCaller : phase[c] = "returned" => result[c] # NoResult
    /\ \A c \in Caller : reply[c] # NoReply => c \in NodeCaller /\ phase[c] \in {"idle", "returned"}
    /\ \A c \in Caller : phase[c] = "returned" => ReplyIsHonest(c)
    /\ \A c \in Caller : phase[c] = "idle" => reply[c] \in {NoReply, Rejected}
    /\ reply \in [Caller -> Reply \cup {NoReply, Rejected}]

(* The reply guardMcpTool makes of a result that was told is honest.       *)
LEMMA GuardedReplyIsHonest ==
    ASSUME CallInv, NEW c \in Caller, phase[c] = "returned", result[c] # NoResult,
           NEW data \in Data
    PROVE  LET r == GuardedReply(result[c], data)
           IN  /\ r \in Reply \cup {Rejected}
               /\ r \in Reply =>
                     /\ r.ok => callback[c] = "returned" /\ Answered(c)
                     /\ r.executed <=> entered[c] = 1
                     /\ ~r.isError => r.ok
               /\ r = Rejected => callback[c] = "returned" /\ Answered(c)
  <1> PICK told \in Result : told = result[c]
    BY DEF CallInv, KnownInv, TypeInv, TypeOK
  <1>1. Told(c) /\ Honest(c)
    BY DEF CallInv, OutcomeInv, ToldInv, Told
  <1>2. /\ told.executed <=> entered[c] = 1
        /\ told.ok => callback[c] = "returned" /\ told.executed /\ Answered(c)
        /\ told.decision = effective(c)
    BY <1>1 DEF Told, Honest, Answered
  <1>3. told.decision \in {"block", "require_approval"} => entered[c] # 1
    BY <1>2 DEF CallInv, KnownInv, GateInv, ExecutionGate, Permits
  <1>4. told.decision \in Decision /\ told.executed \in BOOLEAN /\ told.ok \in BOOLEAN
    BY DEF Result
  <1>5. CASE told.decision \in {"block", "require_approval"}
    <2> PICK r : r = GuardedReply(told, data)
      OBVIOUS
    <2>1. r = [ok |-> FALSE, executed |-> FALSE, isError |-> TRUE, decision |-> told.decision]
      BY <1>5 DEF GuardedReply, ErrorReply
    <2>2. r \in Reply
      BY <1>4, <2>1 DEF Reply
    <2>3. r # Rejected
      BY <2>2, McpToolAssumption
    <2>4. ~r.ok /\ ~r.executed /\ r.isError
      BY <2>1
    <2> QED
      BY <1>3, <1>5, <2>2, <2>3, <2>4
  <1>6. CASE told.decision \notin {"block", "require_approval"} /\ told.ok
    <2>1. GuardedReply(told, data) = createSuccessfulResult(told.decision, data)
      BY <1>6 DEF GuardedReply
    <2>2. CASE data = "unprintable"
      BY <1>2, <1>6, <2>1, <2>2, McpToolAssumption DEF createSuccessfulResult
    <2>3. CASE data # "unprintable"
      <3>1. GuardedReply(told, data) =
                [ok |-> TRUE, executed |-> TRUE, isError |-> data = "mcp_error",
                 decision |-> told.decision]
        BY <2>1, <2>3 DEF createSuccessfulResult
      <3>2. GuardedReply(told, data) \in Reply
        BY <1>4, <3>1 DEF Reply
      <3> QED
        BY <1>2, <1>6, <3>1, <3>2, McpToolAssumption
    <2> QED
      BY <2>2, <2>3
  <1>7. CASE told.decision \notin {"block", "require_approval"} /\ ~told.ok
    <2> PICK r : r = GuardedReply(told, data)
      OBVIOUS
    <2>1. r = [ok |-> FALSE, executed |-> told.executed, isError |-> TRUE, decision |-> told.decision]
      BY <1>7 DEF GuardedReply, ErrorReply
    <2>2. r \in Reply
      BY <1>4, <2>1 DEF Reply
    <2>3. r # Rejected
      BY <2>2, McpToolAssumption
    <2>4. ~r.ok /\ r.executed = told.executed /\ r.isError
      BY <2>1
    <2> QED
      BY <1>2, <2>2, <2>3, <2>4
  <1> QED
    BY <1>5, <1>6, <1>7

(* What is unchanged in a settled call keeps its reply honest.             *)
LEMMA ReplyStaysHonest ==
    ASSUME NEW c \in Caller, Settled(c), reply'[c] = reply[c], ReplyIsHonest(c),
           phase[c] = "returned"
    PROVE  ReplyIsHonest(c)'
  <1>1. Answered(c)' <=> Answered(c)
    BY SettledRecord DEF Answered
  <1> QED
    BY <1>1 DEF Settled, ReplyIsHonest

(* Who is answered in a step, and where its call is.                       *)
LEMMA AnswerShape ==
    ASSUME CallInv, McpInv, [MixedNext]_mixedVars, NEW c \in Caller, reply'[c] # reply[c]
    PROVE  /\ c \in NodeCaller
           /\ reply[c] = NoReply
           /\ UNCHANGED vars
           /\ \/ phase[c] = "idle" /\ reply'[c] = Rejected
              \/ /\ phase[c] = "returned"
                 /\ \E data \in Data : reply'[c] = GuardedReply(result[c], data)
  <1>1. PICK d \in NodeCaller : ContextThrows(d) \/ ReplyToCaller(d)
    BY DEF MixedNext, mixedVars, McpStep, PythonStep, CallTool, OneProcessStops
  <1>2. d = c /\ reply \in [Caller -> Reply \cup {NoReply, Rejected}]
    BY <1>1 DEF ContextThrows, ReplyToCaller, McpInv
  <1> QED
    BY <1>1, <1>2 DEF ContextThrows, ReplyToCaller, WrappedReply

(* A call that was not made is made only if its caller has no answer.      *)
LEMMA AnsweredStaysIdle ==
    ASSUME CallInv, McpInv, [MixedNext]_mixedVars, NEW c \in Caller,
           phase[c] = "idle", reply[c] # NoReply
    PROVE  phase'[c] = "idle"
  <1>1. c \in NodeCaller /\ c \notin PythonCaller /\ PythonCaller \subseteq Caller
    BY SdkPythonAssumption DEF McpInv, NodeCaller
  <1>2. phase \in [Caller -> Phase]
    BY DEF CallInv, KnownInv, TypeInv, TypeOK
  <1>3. ASSUME NEW d \in NodeCaller, McpStep(d)
        PROVE  phase'[c] = "idle"
    BY <1>2, <1>3 DEF McpStep, ContextThrows, CallTool, ReplyToCaller, EnforceToolCall, SdkStep,
       AuditStep, sdkVars, Refused, EnterCallback, EvidenceFails, Closed, Failed, Return,
       CallbackReturns, CallbackThrows, Goto, vars
  <1>4. ASSUME NEW d \in PythonCaller, PythonStep(d)
        PROVE  phase'[c] = "idle"
    BY <1>1, <1>2, <1>4 DEF PythonStep, NoAgent, RunTool, EnforceToolCall, PythonAppend,
       PythonAppendFails, AuditRaises, PythonReturns, HandlerEnds, Interrupted, Raise,
       sdkVars, Refused, EnterCallback, EvidenceFails, Closed, Failed, Return,
       CallbackReturns, CallbackThrows, Goto
  <1> QED
    BY <1>3, <1>4 DEF MixedNext, mixedVars, vars, sdkVars, OneProcessStops, InProcess

(* A Node call returns with a result.                                      *)
LEMMA NodeReturns ==
    ASSUME CallInv, McpInv, [MixedNext]_mixedVars, NEW c \in NodeCaller, phase'[c] = "returned"
    PROVE  result'[c] # NoResult
  <1>1. /\ c \in Caller /\ c \notin PythonCaller
        /\ PythonCaller \subseteq Caller /\ NodeCaller \subseteq Caller
        /\ phase \in [Caller -> Phase]
        /\ result \in [Caller -> Result \cup {NoResult}]
        /\ TypeInv
    BY SdkPythonAssumption DEF NodeCaller, CallInv, KnownInv, TypeInv, TypeOK
  <1>2. CASE phase[c] = "returned"
    BY <1>1, <1>2, ReturnedSettles DEF Settled, McpInv
  <1>3. CASE phase[c] # "returned"
    <2>1. PICK d \in Caller, r \in Result : Return(d, r)
      <3>1. ASSUME NEW d \in Caller, Refused(d) \/ EvidenceFails(d) \/ Closed(d) \/ Failed(d)
            PROVE  \E r \in Result : Return(d, r)
        BY <1>1, <3>1, EffectiveType DEF Refused, EvidenceFails, Closed, Failed, Result
      <3>2. ASSUME NEW d \in Caller, SharedStep(d)
            PROVE  Refused(d) \/ EvidenceFails(d) \/ Closed(d) \/ Failed(d)
        BY <1>1, <1>3, <3>2 DEF SharedStep, EnforceToolCall, EnterCallback, CallbackReturns,
           CallbackThrows, Goto
      <3>3. ASSUME NEW d \in PythonCaller, Leaves(d)
            PROVE  FALSE
        BY <1>1, <1>3, <3>3 DEF Leaves
      <3>4. \A callers \in SUBSET Caller : ~OneProcessStops(callers)
        BY <1>1, <1>3 DEF OneProcessStops
      <3>5. ~UNCHANGED vars /\ \A d \in Caller : ~AppendMovesOn(d)
        BY <1>3 DEF vars, sdkVars, AppendMovesOn
      <3> QED
        BY <3>1, <3>2, <3>3, <3>4, <3>5, MixedShape
    <2>2. d = c
      BY <1>1, <1>3, <2>1 DEF Return, Goto
    <2> QED
      BY <1>1, <2>1, <2>2, NoResultAssumption DEF Return
  <1> QED
    BY <1>2, <1>3

(* Every step keeps McpInv.                                                *)
LEMMA McpStepKeeps == CallInv /\ McpInv /\ [MixedNext]_mixedVars => McpInv'
  <1> SUFFICES ASSUME CallInv, McpInv, [MixedNext]_mixedVars PROVE McpInv'
    OBVIOUS
  <1>1. ASSUME NEW c \in Caller, reply'[c] # reply[c]
        PROVE  /\ reply'[c] \in Reply \cup {Rejected}
               /\ c \in NodeCaller /\ phase'[c] \in {"idle", "returned"}
               /\ phase'[c] = "returned" => ReplyIsHonest(c)'
               /\ phase'[c] = "idle" => reply'[c] = Rejected
    <2>1. /\ c \in NodeCaller
          /\ UNCHANGED vars
          /\ \/ phase[c] = "idle" /\ reply'[c] = Rejected
             \/ /\ phase[c] = "returned"
                /\ \E data \in Data : reply'[c] = GuardedReply(result[c], data)
      BY <1>1, AnswerShape
    <2>2. /\ UNCHANGED <<mode, phase, observed, entered, callback, acked>>
          /\ Answered(c)' <=> Answered(c)
      BY <2>1 DEF vars, auditVars, sdkVars, Answered, Acked, effective
    <2>3. CASE phase[c] = "idle"
      BY <2>1, <2>2, <2>3
    <2>4. CASE phase[c] = "returned"
      <3>1. PICK data \in Data : reply'[c] = GuardedReply(result[c], data)
        BY <2>1, <2>4
      <3>2. result[c] # NoResult
        BY <2>1, <2>4 DEF McpInv
      <3> QED
        BY <2>1, <2>2, <2>4, <3>1, <3>2, GuardedReplyIsHonest DEF ReplyIsHonest
    <2> QED
      BY <2>1, <2>3, <2>4
  <1>2. ASSUME NEW c \in Caller, reply'[c] = reply[c], reply[c] # NoReply
        PROVE  c \in NodeCaller /\ phase'[c] \in {"idle", "returned"}
    <2>1. c \in NodeCaller /\ phase[c] \in {"idle", "returned"}
      BY <1>2 DEF McpInv
    <2> QED
      BY <1>2, <2>1, AnsweredStaysIdle, ReturnedSettles DEF Settled
  <1>3. ASSUME NEW c \in Caller, reply'[c] = reply[c], phase'[c] = "returned"
        PROVE  ReplyIsHonest(c)'
    <2>1. CASE reply[c] = NoReply
      BY <1>3, <2>1, McpToolAssumption DEF ReplyIsHonest
    <2>2. CASE reply[c] # NoReply
      <3>1. phase[c] = "returned"
        BY <1>3, <2>2, AnsweredStaysIdle DEF McpInv
      <3> QED
        BY <1>3, <3>1, ReturnedSettles, ReplyStaysHonest DEF McpInv
    <2> QED
      BY <2>1, <2>2
  <1>4. ASSUME NEW c \in Caller, reply'[c] = reply[c], phase'[c] = "idle"
        PROVE  reply'[c] \in {NoReply, Rejected}
    <2>1. reply[c] # NoReply => phase[c] = "idle"
      BY <1>4, ReturnedSettles DEF McpInv, Settled
    <2> QED
      BY <1>4, <2>1 DEF McpInv
  <1>5. reply' \in [Caller -> Reply \cup {NoReply, Rejected}]
    <2>1. reply \in [Caller -> Reply \cup {NoReply, Rejected}]
      BY DEF McpInv
    <2>2. reply' = reply \/ \E c \in Caller : \E v : reply' = [reply EXCEPT ![c] = v]
      BY DEF MixedNext, mixedVars, McpStep, ContextThrows, CallTool, ReplyToCaller, PythonStep,
             OneProcessStops, NodeCaller
    <2>3. CASE reply' = reply
      BY <2>1, <2>3
    <2>4. ASSUME NEW c \in Caller, NEW v, reply' = [reply EXCEPT ![c] = v]
          PROVE  reply' \in [Caller -> Reply \cup {NoReply, Rejected}]
      <3>1. reply'[c] = v
        BY <2>1, <2>4
      <3>2. v \in Reply \cup {NoReply, Rejected}
        BY <1>1, <2>1, <3>1
      <3> QED
        BY <2>1, <2>4, <3>2
    <2> QED
      BY <2>2, <2>3, <2>4
  <1>6. \A c \in NodeCaller : phase'[c] = "returned" => result'[c] # NoResult
    BY NodeReturns
  <1> QED
    BY <1>1, <1>2, <1>3, <1>4, <1>5, <1>6 DEF McpInv

(* An MCP caller that reads an ok reply may believe that the tool ran and  *)
(* that the audit log has its outcome; one whose promise rejects cannot    *)
(* tell a call that was never made from one that was carried out, but      *)
(* there is no third case.                                                 *)
THEOREM McpRepliesHonest == MixedSpec => []McpRepliesAreHonest
  <1>1. MixedInit => McpInv
    BY McpToolAssumption DEF MixedInit, Init, McpInit, McpInv, ReplyIsHonest, NodeCaller
  <1>2. CallInv /\ McpInv => McpRepliesAreHonest
    <2> SUFFICES ASSUME CallInv, McpInv, NEW c \in Caller PROVE ReplyIsHonest(c)
      BY DEF McpRepliesAreHonest, ReplyIsHonest, Answered
    <2>1. CASE reply[c] = NoReply
      BY <2>1, McpToolAssumption DEF ReplyIsHonest
    <2>2. CASE phase[c] = "returned"
      BY <2>2 DEF McpInv
    <2>3. CASE phase[c] = "idle"
      <3>1. entered[c] = 0 /\ \A ev \in acked : ev.caller # c
        BY <2>3 DEF CallInv, KnownInv, GateInv, DecisionInv
      <3>2. reply[c] \in {NoReply, Rejected}
        BY <2>3 DEF McpInv
      <3> QED
        BY <2>3, <3>1, <3>2, McpToolAssumption DEF ReplyIsHonest
    <2> QED
      BY <2>1, <2>2, <2>3 DEF McpInv
  <1> QED
    BY <1>1, <1>2, McpStepKeeps, MixedInvariant, PTL DEF MixedSpec

-----------------------------------------------------------------------------
(* What leaves run_tool.                                                   *)

(* What PythonOutcomesAreBacked says of one call that has returned.        *)
Backed(c) ==
    LET settled == \E status \in Status \ {"decision_logged"} : Acked(c, status)
    IN  /\ raised[c] = "none" =>
              /\ settled
              /\ result[c].executed <=> entered[c] = 1
              /\ result[c].ok <=> callback[c] = "returned"
        /\ raised[c] \in {"agent", "audit"} =>
              /\ ~settled
              /\ entered[c] = 1 <=> Acked(c, "decision_logged")
        /\ raised[c] = "interrupt" =>
              /\ entered[c] = 1 => Acked(c, "decision_logged")
              /\ Acked(c, "executed") \/ Acked(c, "logged") => callback[c] = "returned"
              /\ Acked(c, "failed") => callback[c] = "threw"
              /\ Acked(c, "blocked") \/ Acked(c, "pending_approval") => entered[c] = 0

(* Only a call that has returned has raised.                               *)
PythonInv ==
    /\ raised \in [PythonCaller -> {"none", "agent", "audit", "interrupt"}]
    /\ \A c \in PythonCaller : raised[c] # "none" => phase[c] = "returned"
    /\ \A c \in PythonCaller : phase[c] = "returned" => Backed(c)

(* The outcome on record of a call in progress is one its phase reports.   *)
Fits(c) ==
    \A ev \in acked : ev.caller = c =>
        /\ phase[c] = "refusing" => ev.status \in Refusals
        /\ phase[c] = "closing" => ev.status \in {"decision_logged", "executed", "logged"}
        /\ phase[c] = "failing" => ev.status \in {"decision_logged", "failed"}

FitsInv == \A c \in Caller : Fits(c)

(* Every step keeps FitsInv: an event is acknowledged in the phase that    *)
(* appended it, and no outcome is on record where a phase begins.          *)
LEMMA FitsStep == CallInv /\ FitsInv /\ [MixedNext]_mixedVars => FitsInv'
  <1> SUFFICES ASSUME CallInv, FitsInv, [MixedNext]_mixedVars, NEW c \in Caller
               PROVE  Fits(c)'
    BY DEF FitsInv
  <1>1. phase \in [Caller -> Phase] /\ Fits(c)
    BY DEF CallInv, KnownInv, TypeInv, TypeOK, FitsInv
  <1>2. CASE acked' = acked /\ phase'[c] \in {phase[c], "running", "returned", "lost", "evidence"}
    BY <1>1, <1>2 DEF Fits
  <1>3. ASSUME NEW d \in Caller, AppendMovesOn(d)
        PROVE  Fits(c)'
    <2>1. UNCHANGED phase
      BY <1>3 DEF AppendMovesOn, sdkVars
    <2>2. PICK next \in Append_ : /\ append[d].pc # "idle"
                                  /\ next.ev.caller = append[d].ev.caller
                                  /\ next.ev.status = append[d].ev.status
                                  /\ acked' \in {acked, acked \cup {next.ev}}
      BY <1>3 DEF AppendMovesOn, AppendMoves
    <2>3. next.ev.caller = d
      BY <2>2 DEF CallInv, KnownInv, DecisionInv
    <2>4. /\ phase[d] = "refusing" => next.ev.status \in Refusals
          /\ phase[d] = "closing" => next.ev.status \in {"executed", "logged"}
          /\ phase[d] = "failing" => next.ev.status = "failed"
      BY <2>2 DEF CallInv, RecordInv
    <2> QED
      BY <1>1, <2>1, <2>2, <2>3, <2>4 DEF Fits
  <1>4. ASSUME NEW d \in Caller, SharedStep(d)
        PROVE  Fits(c)'
    <2>1. acked' = acked
      BY <1>4 DEF SharedStep, EnforceToolCall, Refused, EnterCallback, EvidenceFails, Closed,
                  Failed, CallbackReturns, CallbackThrows, Return
    <2>2. CASE phase[c] = "idle"
      <3>1. \A ev \in acked' : ev.caller # c
        BY <2>1, <2>2 DEF CallInv, KnownInv, DecisionInv
      <3> QED
        BY <3>1 DEF Fits
    <2>3. CASE phase[c] = "running"
      <3>1. \A ev \in acked' : ev.caller = c => ev.status = "decision_logged"
        BY <2>1, <2>3 DEF CallInv, RecordInv, Recorded
      <3>2. phase'[c] # "refusing"
        BY <1>1, <1>4, <2>3 DEF SharedStep, EnforceToolCall, Refused, EnterCallback, EvidenceFails,
           Closed, Failed, CallbackReturns, CallbackThrows, Return, Goto
      <3> QED
        BY <3>1, <3>2 DEF Fits
    <2>4. CASE phase[c] \notin {"idle", "running"}
      <3>1. phase'[c] \in {phase[c], "running", "returned"}
        BY <1>1, <1>4, <2>4 DEF SharedStep, EnforceToolCall, Refused, EnterCallback, EvidenceFails,
           Closed, Failed, CallbackReturns, CallbackThrows, Return, Goto
      <3> QED
        BY <1>2, <2>1, <3>1
    <2> QED
      BY <2>2, <2>3, <2>4
  <1>5. ASSUME NEW d \in PythonCaller, Leaves(d)
        PROVE  Fits(c)'
    BY <1>1, <1>2, <1>5, SdkPythonAssumption DEF Leaves
  <1>6. ASSUME NEW callers \in SUBSET Caller, OneProcessStops(callers)
        PROVE  Fits(c)'
    BY <1>1, <1>2, <1>6 DEF OneProcessStops
  <1>7. CASE UNCHANGED vars
    BY <1>2, <1>7 DEF vars, auditVars, sdkVars
  <1> QED
    BY <1>3, <1>4, <1>5, <1>6, <1>7, MixedShape

(* What is on record of a call that has not returned, and of its handler,  *)
(* where an exception can leave it.                                        *)
LEMMA UnsettledRecord ==
    ASSUME CallInv, NEW c \in Caller,
           \/ phase[c] \in {"idle", "running"}
           \/ append[c].pc = "rejected"
    PROVE  /\ \A status \in Status \ {"decision_logged"} : ~Acked(c, status)
           /\ entered[c] = 1 <=> Acked(c, "decision_logged")
  <1>1. phase \in [Caller -> Phase]
    BY DEF CallInv, KnownInv, TypeInv, TypeOK
  <1>2. phase[c] \in {"idle", "running", "refusing", "evidence", "closing", "failing"}
    BY <1>1 DEF CallInv, RecordInv, Phase
  <1>3. c \notin Recorded
    BY <1>2 DEF CallInv, RecordInv
  <1>4. \A status \in Status \ {"decision_logged"} : ~Acked(c, status)
    BY <1>3 DEF Acked, Recorded
  <1>5. phase[c] \in {"running", "closing", "failing"} =>
            entered[c] = 1 /\ Acked(c, "decision_logged")
    BY DEF CallInv, OutcomeInv, KnownInv, GateInv, ExecutionGate
  <1>6. phase[c] \in {"idle", "refusing", "evidence"} =>
            entered[c] = 0 /\ c \notin Attested
    BY DEF CallInv, KnownInv, GateInv, RecordInv
  <1>7. c \notin Attested => ~Acked(c, "decision_logged")
    BY DEF Acked, Attested
  <1> QED
    BY <1>2, <1>4, <1>5, <1>6, <1>7

(* An exception leaves nothing but a record of how far the call got.       *)
LEMMA RaiseIsBacked ==
    ASSUME CallInv, PythonInv, NEW c \in PythonCaller,
           NoAgent(c) \/ AuditRaises(c)
    PROVE  Backed(c)' /\ raised'[c] \in {"agent", "audit"}
  <1>1. /\ c \in Caller
        /\ raised \in [PythonCaller -> {"none", "agent", "audit", "interrupt"}]
    BY SdkPythonAssumption DEF PythonInv
  <1>2. /\ phase[c] = "idle" \/ append[c].pc = "rejected"
        /\ UNCHANGED <<mode, observed, entered, acked>>
        /\ raised'[c] \in {"agent", "audit"}
    BY <1>1 DEF NoAgent, AuditRaises, Raise
  <1>3. /\ \A status \in Status \ {"decision_logged"} : ~Acked(c, status)
        /\ entered[c] = 1 <=> Acked(c, "decision_logged")
    BY <1>1, <1>2, UnsettledRecord
  <1>4. \A status : Acked(c, status)' <=> Acked(c, status)
    BY <1>2 DEF Acked, effective
  <1> QED
    BY <1>2, <1>3, <1>4 DEF Backed

(* An interrupt leaves no record of what did not happen.                   *)
LEMMA InterruptIsBacked ==
    ASSUME CallInv, PythonInv, FitsInv, NEW c \in PythonCaller, Interrupted(c)
    PROVE  Backed(c)' /\ raised'[c] = "interrupt"
  <1>1. /\ c \in Caller
        /\ raised \in [PythonCaller -> {"none", "agent", "audit", "interrupt"}]
        /\ InProcess(c)
        /\ UNCHANGED <<mode, observed, entered, acked>>
        /\ raised'[c] = "interrupt"
        /\ phase[c] # "running" => callback' = callback
    BY SdkPythonAssumption DEF PythonInv, Interrupted, Raise
  <1>2. \A status : Acked(c, status)' <=> Acked(c, status)
    BY <1>1 DEF Acked, effective
  <1>3. entered[c] = 1 => Acked(c, "decision_logged")
    BY <1>1 DEF CallInv, KnownInv, GateInv, ExecutionGate
  <1>4. CASE phase[c] \in {"evidence", "running"}
    <2>1. \A status \in Status \ {"decision_logged"} : ~Acked(c, status)
      BY <1>1, <1>4 DEF CallInv, RecordInv, Recorded, Acked
    <2> QED
      BY <1>1, <1>2, <1>3, <2>1 DEF Backed, Status
  <1>5. CASE phase[c] = "refusing"
    <2>1. entered[c] = 0 /\ \A status : Acked(c, status) => status \in Refusals
      BY <1>1, <1>5 DEF CallInv, KnownInv, GateInv, FitsInv, Fits, Acked
    <2> QED
      BY <1>1, <1>2, <1>3, <2>1 DEF Backed, Refusals
  <1>6. CASE phase[c] = "closing"
    <2>1. /\ callback'[c] = "returned"
          /\ \A status : Acked(c, status) => status \in {"decision_logged", "executed", "logged"}
      BY <1>1, <1>6 DEF CallInv, OutcomeInv, FitsInv, Fits, Acked
    <2> QED
      BY <1>1, <1>2, <1>3, <2>1 DEF Backed
  <1>7. CASE phase[c] = "failing"
    <2>1. /\ callback'[c] = "threw"
          /\ \A status : Acked(c, status) => status \in {"decision_logged", "failed"}
      BY <1>1, <1>7 DEF CallInv, OutcomeInv, FitsInv, Fits, Acked
    <2> QED
      BY <1>1, <1>2, <1>3, <2>1 DEF Backed
  <1> QED
    BY <1>1, <1>4, <1>5, <1>6, <1>7 DEF InProcess

(* A result is returned only where its event was written.                  *)
LEMMA ReturnIsBacked ==
    ASSUME CallInv, PythonInv, NEW c \in PythonCaller, PythonReturns(c), phase'[c] = "returned"
    PROVE  Backed(c)'
  <1>1. /\ c \in Caller
        /\ phase \in [Caller -> Phase]
        /\ result \in [Caller -> Result \cup {NoResult}]
        /\ TypeInv
    BY SdkPythonAssumption DEF CallInv, KnownInv, TypeInv, TypeOK
  <1>2. /\ append[c].pc = "resolved"
        /\ Refused(c) \/ Closed(c) \/ Failed(c)
        /\ phase[c] \in {"refusing", "closing", "failing"}
        /\ raised' = raised
    BY <1>1 DEF PythonReturns, EnterCallback, Goto, Refused, Closed, Failed
  <1>3. PICK r \in Result : /\ Return(c, r)
                            /\ r.executed <=> phase[c] \in {"closing", "failing"}
                            /\ r.ok <=> phase[c] = "closing"
    <2>1. CASE Refused(c)
      <3> DEFINE failed == append[c].pc = "rejected"
                 s == [ok |-> FALSE, decision |-> effective(c), executed |-> FALSE,
                       auditFailed |-> failed, data |-> FALSE,
                       error |-> IF failed THEN "audit" ELSE "none"]
      <3>1. Return(c, s) /\ phase[c] = "refusing"
        BY <2>1 DEF Refused
      <3>2. s \in Result
        BY <1>1, EffectiveType DEF Result
      <3>3. ~failed
        BY <1>2
      <3>4. s.executed = FALSE /\ s.ok = FALSE
        BY <3>3
      <3> HIDE DEF s
      <3> QED
        BY <3>1, <3>2, <3>4
    <2>2. CASE Closed(c)
      <3> DEFINE failed == append[c].pc = "rejected"
                 s == [ok |-> ~failed, decision |-> effective(c), executed |-> TRUE,
                       auditFailed |-> failed, data |-> TRUE,
                       error |-> IF failed THEN "audit" ELSE "none"]
      <3>1. Return(c, s) /\ phase[c] = "closing"
        BY <2>2 DEF Closed
      <3>2. s \in Result
        BY <1>1, EffectiveType DEF Result
      <3>3. ~failed
        BY <1>2
      <3>4. s.executed = TRUE /\ s.ok = TRUE
        BY <3>3
      <3> HIDE DEF s
      <3> QED
        BY <3>1, <3>2, <3>4
    <2>3. CASE Failed(c)
      <3> DEFINE failed == append[c].pc = "rejected"
                 s == [ok |-> FALSE, decision |-> effective(c), executed |-> TRUE,
                       auditFailed |-> append[c].pc = "rejected", data |-> FALSE,
                       error |-> "callback"]
      <3>1. Return(c, s) /\ phase[c] = "failing"
        BY <2>3 DEF Failed
      <3>2. s \in Result
        BY <1>1, EffectiveType DEF Result
      <3>3. ~failed
        BY <1>2
      <3>4. s.executed = TRUE /\ s.ok = FALSE
        BY <3>3
      <3> HIDE DEF s
      <3> QED
        BY <3>1, <3>2, <3>4
    <2> QED
      BY <1>2, <2>1, <2>2, <2>3
  <1>4. /\ result'[c] = r
        /\ UNCHANGED <<mode, observed, entered, callback, acked>>
    BY <1>1, <1>3 DEF Return
  <1>5. c \in Recorded
    BY <1>1, <1>2 DEF CallInv, RecordInv
  <1>6. PICK status \in Status \ {"decision_logged"} : Acked(c, status)
    BY <1>5, RecordedIsAcked DEF CallInv
  <1>7. Acked(c, status)'
    BY <1>4, <1>6 DEF Acked, effective
  <1>8. /\ entered[c] = 1 <=> phase[c] \in {"closing", "failing"}
        /\ callback[c] = "returned" <=> phase[c] = "closing"
    BY <1>1, <1>2 DEF CallInv, OutcomeInv, KnownInv, GateInv
  <1>9. raised[c] = "none"
    BY <1>2 DEF PythonInv
  <1> QED
    BY <1>2, <1>3, <1>4, <1>7, <1>8, <1>9 DEF Backed

(* Every step keeps PythonInv.                                             *)
LEMMA PythonStepKeeps ==
    CallInv /\ FitsInv /\ PythonInv /\ [MixedNext]_mixedVars => PythonInv'
  <1> SUFFICES ASSUME CallInv, FitsInv, PythonInv, [MixedNext]_mixedVars PROVE PythonInv'
    OBVIOUS
  <1>1. /\ PythonCaller \subseteq Caller /\ NodeCaller \cap PythonCaller = {}
        /\ raised \in [PythonCaller -> {"none", "agent", "audit", "interrupt"}]
        /\ phase \in [Caller -> Phase]
    BY SdkPythonAssumption DEF NodeCaller, PythonInv, CallInv, KnownInv, TypeInv, TypeOK
  <1> DEFINE Kept(c) == /\ raised'[c] = raised[c]
                        /\ phase'[c] = "returned" => phase[c] = "returned"
  <1>2. ASSUME NEW c \in PythonCaller
        PROVE  \/ Kept(c)
               \/ NoAgent(c) \/ AuditRaises(c) \/ Interrupted(c)
               \/ PythonReturns(c) /\ phase'[c] = "returned" /\ raised' = raised
    <2>1. ASSUME NEW d \in NodeCaller, McpStep(d), raised' = raised
          PROVE  Kept(c)
      <3>1. d # c
        BY <1>1
      <3> QED
        BY <1>1, <2>1, <3>1
           DEF McpStep, ContextThrows, CallTool, ReplyToCaller, EnforceToolCall, SdkStep, AuditStep,
               Refused, EnterCallback, EvidenceFails, Closed, Failed, Return, CallbackReturns,
               CallbackThrows, Goto, vars, sdkVars
    <2>2. ASSUME NEW d \in PythonCaller, PythonStep(d)
          PROVE  \/ Kept(c)
                 \/ NoAgent(c) \/ AuditRaises(c) \/ Interrupted(c)
                 \/ PythonReturns(c) /\ phase'[c] = "returned" /\ raised' = raised
      <3>1. CASE NoAgent(d) \/ AuditRaises(d) \/ Interrupted(d)
        BY <1>1, <3>1 DEF NoAgent, AuditRaises, Interrupted, Raise, Goto
      <3>2. CASE RunTool(d)
        BY <1>1, <3>2 DEF RunTool, EnforceToolCall, Goto
      <3>3. CASE PythonAppend(d) \/ \E cut \in Cut : PythonAppendFails(d, cut)
        BY <3>3 DEF PythonAppend, PythonAppendFails, sdkVars
      <3>4. CASE PythonReturns(d)
        BY <1>1, <3>4 DEF PythonReturns, Refused, EnterCallback, Closed, Failed, Return, Goto
      <3>5. CASE HandlerEnds(d)
        BY <1>1, <3>5 DEF HandlerEnds, CallbackReturns, CallbackThrows, Goto
      <3> QED
        BY <2>2, <3>1, <3>2, <3>3, <3>4, <3>5 DEF PythonStep
    <2>3. ASSUME NEW callers, OneProcessStops(callers)
          PROVE  Kept(c)
      BY <1>1, <2>3 DEF OneProcessStops
    <2>4. CASE UNCHANGED mixedVars
      BY <2>4 DEF mixedVars, vars, sdkVars
    <2> QED
      BY <2>1, <2>2, <2>3, <2>4 DEF MixedNext
  <1>3. ASSUME NEW c \in PythonCaller, phase'[c] = "returned"
        PROVE  Backed(c)'
    <2>1. CASE Kept(c)
      <3>1. phase[c] = "returned" /\ raised'[c] = raised[c] /\ c \in Caller
        BY <1>1, <1>3, <2>1
      <3>2. Backed(c) /\ Settled(c)
        BY <3>1, ReturnedSettles DEF PythonInv
      <3> QED
        BY <3>1, <3>2, SettledRecord DEF Settled, Backed
    <2> QED
      BY <1>2, <1>3, <2>1, RaiseIsBacked, InterruptIsBacked, ReturnIsBacked
  <1>4. ASSUME NEW c \in PythonCaller, raised'[c] # "none"
        PROVE  phase'[c] = "returned"
    <2>1. CASE Kept(c)
      <3>1. phase[c] = "returned" /\ c \in Caller
        BY <1>1, <1>4, <2>1 DEF PythonInv
      <3> QED
        BY <3>1, ReturnedSettles DEF Settled
    <2>2. CASE NoAgent(c) \/ AuditRaises(c) \/ Interrupted(c)
      BY <1>1, <2>2 DEF NoAgent, AuditRaises, Interrupted, Raise, Goto
    <2> QED
      BY <1>2, <2>1, <2>2
  <1>5. raised' \in [PythonCaller -> {"none", "agent", "audit", "interrupt"}]
    <2>1. raised' = raised \/ \E c \in PythonCaller, e \in {"agent", "audit", "interrupt"} :
              raised' = [raised EXCEPT ![c] = e]
      BY DEF MixedNext, mixedVars, PythonStep, NoAgent, RunTool, PythonAppend, PythonAppendFails,
             AuditRaises, PythonReturns, HandlerEnds, Interrupted, Raise, OneProcessStops
    <2> QED
      BY <1>1, <2>1
  <1> QED
    BY <1>3, <1>4, <1>5 DEF PythonInv

(* Whoever called run_tool can tell what happened: a result it returned is *)
(* backed by an acknowledged outcome; after a failed write no outcome is,  *)
(* while the decision_logged event is if and only if the handler was       *)
(* entered; and after an interrupt, wherever it was, what is on record     *)
(* did happen.                                                             *)
THEOREM PythonOutcomesBacked == MixedSpec => []PythonOutcomesAreBacked
  <1>1. MixedInit => PythonInv /\ FitsInv
    BY SdkPythonAssumption
       DEF MixedInit, Init, AuditInit, PythonInit, PythonInv, FitsInv, Fits
  <1>2. PythonInv => PythonOutcomesAreBacked
    BY DEF PythonInv, PythonOutcomesAreBacked, Backed
  <1> QED
    BY <1>1, <1>2, FitsStep, PythonStepKeeps, MixedInvariant, PTL DEF MixedSpec

-----------------------------------------------------------------------------
(* What enforra report counts.                                             *)

Openings == Status \ Endings

InFlightPc == {"mkdir", "read", "write"}

Ended == {"closing", "failing", "returned", "lost"}

(* A call that was made: one without an agent leaves nothing behind.       *)
Made(c) == phase[c] # "idle" /\ ~(c \in PythonCaller /\ raised[c] = "agent")

(* An event is of a call that was made and names its decision.             *)
Counts(ev) == Made(ev.caller) /\ ev.decision = effective(ev.caller)

(* A call has at most one line from before its callback and one from after *)
(* it, none of the kind it is about to write, and the second only if it    *)
(* was let through and its callback has ended.                             *)
OnceEach(c) ==
    /\ \A statuses \in {Openings, Endings} :
          /\ \A i, j \in StatusLines(c, statuses) : i = j
          /\ (append[c].pc \in InFlightPc /\ append[c].ev.status \in statuses) =>
                StatusLines(c, statuses) = {}
    /\ StatusLines(c, Endings) # {} => effective(c) \in Permits /\ phase[c] \in Ended

(* Every line counts for its call.                                         *)
CountInv ==
    /\ \A i \in DOMAIN log.lines : Parses(log.lines[i]) =>
          \E ev \in Event : log.lines[i].ev = ev /\ Counts(ev)
    /\ \A c \in Caller : OnceEach(c)

(* While no line is torn, every acknowledged event is on file.             *)
AckInv == GarbageLines = {} => \A ev \in acked : OnFile(ev)

(* A step of an append, of either logger: it leaves the file alone and     *)
(* acknowledges nothing, or it settles and has written a line of its       *)
(* event, or a torn one.                                                   *)
AppendWrites(c) ==
    /\ append[c].pc \in InFlightPc
    /\ \E next \in Append_ :
          /\ append' = [append EXCEPT ![c] = next]
          /\ next.ev \in Event
          /\ next.ev.caller = append[c].ev.caller
          /\ next.ev.status = append[c].ev.status
          /\ next.ev.decision = append[c].ev.decision
          /\ \/ UNCHANGED <<log, acked>>
             \/ /\ next.pc \in {"resolved", "rejected"}
                /\ acked' \in {acked, acked \cup {next.ev}}
                /\ \E line \in Line : /\ line = Garbage \/ line.ev = next.ev
                                      /\ Merges(log, log') \/ Extends(log, log', line)
    /\ log' \in Log
    /\ UNCHANGED <<sdkVars, raised>>

(* The Node logger does one of the two.                                    *)
LEMMA NodeAppendWrites ==
    ASSUME TypeInv, NEW c \in Caller, AuditStep(c), UNCHANGED raised
    PROVE  AppendWrites(c)
  <1>1. /\ AppendMoves(c) /\ log' \in Log /\ UNCHANGED sdkVars
        /\ Writes(c) \/ Prepares(c)
        /\ append \in [Caller -> Append_]
    BY AuditPart, AppendStepShape, WriteShape DEF AuditStep, TypeInv, TypeOK, AuditTypeOK, Append_
  <1>2. PICK next \in Append_ :
            /\ append' = [append EXCEPT ![c] = next]
            /\ next.ev \in Event
            /\ next.ev.caller = append[c].ev.caller
            /\ next.ev.status = append[c].ev.status
            /\ next.ev.decision = append[c].ev.decision
    BY <1>1 DEF AppendMoves
  <1>3. CASE Prepares(c)
    BY <1>1, <1>2, <1>3 DEF Prepares, AppendMoves, AppendWrites, InFlightPc
  <1>4. CASE Writes(c)
    <2>1. PICK cut \in Cut \ {"nothing"}, pc \in {"resolved", "rejected"} :
              /\ append' = [append EXCEPT ![c].pc = pc]
              /\ acked' = IF pc = "resolved" THEN acked \cup {append[c].ev} ELSE acked
              /\ \/ Merges(log, log')
                 \/ Extends(log, log', IF cut = "partial" THEN Garbage ELSE LineOf(c))
      BY <1>4 DEF Writes
    <2>2. next.pc = pc /\ next.ev = append[c].ev
      <3>1. append'[c] = next /\ append'[c] = [append[c] EXCEPT !.pc = pc]
        BY <1>1, <1>2, <2>1
      <3>2. append[c] \in Append_
        BY <1>1
      <3> QED
        BY <3>1, <3>2 DEF Append_
    <2>3. PICK line \in {Garbage, LineOf(c)} : Merges(log, log') \/ Extends(log, log', line)
      BY <2>1
    <2>4. line \in Line /\ (line = Garbage \/ line.ev = next.ev)
      BY <1>4, <2>2, <2>3, LineOfEvent, HashType DEF Writes
    <2>5. append[c].pc \in InFlightPc
      BY <1>4 DEF Writes, InFlightPc
    <2> QED
      BY <1>1, <1>2, <2>1, <2>2, <2>3, <2>4, <2>5 DEF AppendWrites
  <1> QED
    BY <1>1, <1>3, <1>4

(* So does the Python logger.                                              *)
LEMMA PythonAppendWrites ==
    ASSUME TypeInv, NEW c \in Caller,
           PythonAppend(c) \/ \E cut \in Cut : PythonAppendFails(c, cut)
    PROVE  AppendWrites(c)
  <1>1. PICK pc \in {"resolved", "rejected"}, cut \in Cut :
          /\ append[c].pc = "mkdir"
          /\ log' = Land(log, PythonLine(append[c].ev), cut)
          /\ append' = [append EXCEPT ![c].pc = pc]
          /\ acked' = IF pc = "resolved" THEN acked \cup {append[c].ev} ELSE acked
          /\ pc = "resolved" => cut = "whole"
          /\ UNCHANGED <<integrity, args, overlapped, sdkVars, raised>>
    BY DEF PythonAppend, PythonAppendFails, Cut
  <1>2. append \in [Caller -> Append_] /\ append[c].ev \in Event /\ log \in Log
    BY <1>1, AuditPart, LogIsLog DEF TypeInv, TypeOK, AuditTypeOK, AppendHoldsEvent, Append_
  <1> DEFINE next == [append[c] EXCEPT !.pc = pc]
  <1>3. /\ next \in Append_ /\ next.pc = pc /\ next.ev = append[c].ev
        /\ append' = [append EXCEPT ![c] = next]
    BY <1>1, <1>2 DEF Append_, AppendPc
  <1> HIDE DEF next
  <1> DEFINE text == PythonLine(append[c].ev)
  <1>4. /\ text \in Line /\ log' \in Log
        /\ text = Garbage \/ text.ev = append[c].ev
    BY <1>1, <1>2, PythonLineType, LandType DEF PythonLine, PlainLine
  <1>5. \/ UNCHANGED <<log, acked>>
        \/ \E line \in {Garbage, text} : Merges(log, log') \/ Extends(log, log', line)
    <2> HIDE DEF text
    <2>1. log' = Land(log, text, cut)
      BY <1>1 DEF text
    <2> QED
      BY <1>1, <1>2, <1>4, <2>1, LandShape
  <1>6. Garbage \in Line /\ append[c].pc \in InFlightPc
    BY <1>1, HashType DEF InFlightPc
  <1> HIDE DEF text
  <1> QED
    BY <1>1, <1>2, <1>3, <1>4, <1>5, <1>6 DEF AppendWrites

-----------------------------------------------------------------------------
(* The lines of a call under every step.                                   *)

(* A step that leaves the file alone.                                      *)
LEMMA CountKept ==
    ASSUME CountInv, UNCHANGED <<mode, log>>,
           \A c \in Caller :
               \/ phase[c] = "idle"
               \/ /\ observed'[c] = observed[c]
                  /\ Made(c) => Made(c)'
                  /\ phase[c] \in Ended => phase'[c] \in Ended
                  /\ append'[c].pc \in InFlightPc =>
                        \/ /\ append[c].pc \in InFlightPc
                           /\ append'[c].ev.status = append[c].ev.status
                        \/ phase[c] = "running" /\ append'[c].ev.status \in Endings
    PROVE  CountInv'
  <1>1. \A c \in Caller : \A statuses : StatusLines(c, statuses)' = StatusLines(c, statuses)
    BY DEF StatusLines
  <1>2. ASSUME NEW c \in Caller, phase[c] = "idle", NEW statuses
        PROVE  StatusLines(c, statuses) = {}
    BY <1>2 DEF CountInv, StatusLines, Made, Counts, Event
  <1>3. ASSUME NEW i \in DOMAIN log'.lines, Parses(log'.lines[i])
        PROVE  \E ev \in Event : log'.lines[i].ev = ev /\ Counts(ev)'
    <2> PICK ev \in Event : log.lines[i].ev = ev /\ Counts(ev)
      BY <1>3 DEF CountInv
    <2>1. ev.caller \in Caller /\ phase[ev.caller] # "idle"
      BY DEF Event, Counts, Made
    <2>2. effective(ev.caller)' = effective(ev.caller)
      BY <2>1 DEF effective
    <2> QED
      BY <2>1, <2>2 DEF Counts
  <1>4. ASSUME NEW c \in Caller
        PROVE  OnceEach(c)'
    <2>1. CASE phase[c] = "idle"
      BY <1>1, <1>2, <2>1 DEF OnceEach
    <2>2. CASE phase[c] # "idle"
      <3>1. OnceEach(c) /\ effective(c)' = effective(c)
        BY <2>2 DEF CountInv, effective
      <3>2. phase[c] = "running" => StatusLines(c, Endings) = {}
        BY <3>1 DEF OnceEach, Ended
      <3>3. ASSUME NEW statuses \in {Openings, Endings},
                   append'[c].pc \in InFlightPc, append'[c].ev.status \in statuses
            PROVE  StatusLines(c, statuses) = {}
        <4>1. CASE append[c].pc \in InFlightPc /\ append'[c].ev.status = append[c].ev.status
          BY <3>1, <3>3, <4>1 DEF OnceEach
        <4>2. CASE phase[c] = "running" /\ append'[c].ev.status \in Endings
          BY <3>2, <3>3, <4>2 DEF Openings
        <4> QED
          BY <2>2, <3>3, <4>1, <4>2
      <3> QED
        BY <1>1, <2>2, <3>1, <3>3 DEF OnceEach
    <2> QED
      BY <2>1, <2>2
  <1> QED
    BY <1>3, <1>4 DEF CountInv

(* A write adds a line of the kind the call had none of yet.               *)
LEMMA CountWritten ==
    ASSUME CallInv, PythonInv, CountInv, NEW c \in Caller, AppendWrites(c), log' # log
    PROVE  CountInv'
  <1>1. /\ append \in [Caller -> Append_]
        /\ append[c].pc \in InFlightPc
        /\ log \in Log /\ log' \in Log
        /\ UNCHANGED <<mode, phase, observed, raised>>
    BY AuditPart, LogIsLog DEF CallInv, KnownInv, TypeInv, TypeOK, AuditTypeOK, Append_, AppendWrites, sdkVars
  <1>2. PICK next \in Append_, line \in Line :
            /\ append' = [append EXCEPT ![c] = next]
            /\ next.pc \notin InFlightPc
            /\ next.ev \in Event
            /\ next.ev.caller = append[c].ev.caller
            /\ next.ev.status = append[c].ev.status
            /\ next.ev.decision = append[c].ev.decision
            /\ line = Garbage \/ line.ev = next.ev
            /\ Merges(log, log') \/ Extends(log, log', line)
    BY DEF AppendWrites, InFlightPc
  <1> PICK ev \in Event, n \in Nat : ev = next.ev /\ n = Len(log.lines)
    BY <1>1, <1>2, LogFacts
  <1>3. ev.caller = c /\ ev.decision = effective(c) /\ ev.status = append[c].ev.status
    BY <1>1, <1>2 DEF CallInv, KnownInv, DecisionInv, InFlightPc
  <1>4. phase[c] \in {"refusing", "evidence", "closing", "failing"}
    BY <1>1 DEF CallInv, KnownInv, TypeInv, TypeOK, Phase, DecisionInv, RecordInv, InFlightPc
  <1>5. ev.status \in Endings => effective(c) \in Permits /\ phase[c] \in Ended
    BY <1>3, <1>4 DEF CallInv, KnownInv, GateInv, ExecutionGate, RecordInv, OutcomeInv, Ended,
                      Endings, Refusals
  <1>6. Counts(ev) /\ Counts(ev)'
    <2>1. Made(c)
      BY <1>4 DEF Made, PythonInv
    <2>2. Made(c)' /\ effective(c)' = effective(c)
      BY <1>1, <2>1 DEF Made, effective
    <2> QED
      BY <1>3, <2>1, <2>2 DEF Counts
  <1>7. ASSUME NEW i \in DOMAIN log'.lines, Parses(log'.lines[i])
        PROVE  \/ i \in DOMAIN log.lines /\ log'.lines[i] = log.lines[i]
               \/ i = n + 1 /\ log'.lines[i].ev = ev
    <2>1. DOMAIN log.lines = 1 .. n /\ DOMAIN log'.lines = 1 .. Len(log'.lines) /\ Len(log'.lines) \in Nat
      BY <1>1, LogFacts
    <2>2. CASE Merges(log, log')
      BY <1>7, <2>1, <2>2 DEF Merges, Parses
    <2>3. CASE Extends(log, log', line)
      BY <1>2, <1>7, <2>1, <2>3 DEF Extends, Parses
    <2> QED
      BY <1>2, <2>2, <2>3
  <1>8. ASSUME NEW i \in DOMAIN log'.lines, Parses(log'.lines[i])
        PROVE  \E e \in Event : log'.lines[i].ev = e /\ Counts(e)'
    <2>1. CASE i \in DOMAIN log.lines /\ log'.lines[i] = log.lines[i]
      <3>1. PICK e \in Event : log.lines[i].ev = e /\ Counts(e)
        BY <1>8, <2>1 DEF CountInv
      <3>2. Counts(e)'
        BY <1>1, <3>1 DEF Counts, Made, effective
      <3> QED
        BY <2>1, <3>1, <3>2
    <2> QED
      BY <1>6, <1>7, <1>8, <2>1
  <1>9. ASSUME NEW d \in Caller, NEW statuses
        PROVE  /\ StatusLines(d, statuses)' \subseteq StatusLines(d, statuses) \cup {n + 1}
               /\ (d # c \/ ev.status \notin statuses) =>
                     StatusLines(d, statuses)' \subseteq StatusLines(d, statuses)
    BY <1>3, <1>7 DEF StatusLines
  <1>10. \A statuses \in {Openings, Endings} : ev.status \in statuses => StatusLines(c, statuses) = {}
    BY <1>1, <1>3 DEF CountInv, OnceEach
  <1>11. ASSUME NEW d \in Caller
         PROVE  OnceEach(d)'
    <2>1. OnceEach(d) /\ effective(d)' = effective(d) /\ phase'[d] = phase[d]
      BY <1>1 DEF CountInv, effective
    <2>2. CASE d # c
      <3>1. append'[d] = append[d]
        BY <1>1, <1>2, <2>2
      <3>2. \A statuses : StatusLines(d, statuses)' \subseteq StatusLines(d, statuses)
        BY <1>9, <2>2
      <3> QED
        BY <2>1, <3>1, <3>2 DEF OnceEach
    <2>3. CASE d = c
      <3>1. append'[d].pc \notin InFlightPc
        BY <1>1, <1>2, <2>3
      <3>2. ASSUME NEW statuses \in {Openings, Endings}
            PROVE  \A i, j \in StatusLines(d, statuses)' : i = j
        <4>1. CASE ev.status \in statuses
          <5>1. StatusLines(c, statuses) = {}
            BY <1>10, <4>1
          <5> QED
            BY <1>9, <2>3, <5>1
        <4>2. CASE ev.status \notin statuses
          <5>1. StatusLines(d, statuses)' \subseteq StatusLines(d, statuses)
            BY <1>9, <4>2
          <5> QED
            BY <2>1, <5>1 DEF OnceEach
        <4> QED
          BY <4>1, <4>2
      <3>3. StatusLines(d, Endings)' # {} => effective(d) \in Permits /\ phase[d] \in Ended
        <4>1. CASE ev.status \in Endings
          BY <1>5, <2>3, <4>1
        <4>2. CASE ev.status \notin Endings
          <5>1. StatusLines(d, Endings)' \subseteq StatusLines(d, Endings)
            BY <1>9, <4>2
          <5> QED
            BY <2>1, <5>1 DEF OnceEach
        <4> QED
          BY <4>1, <4>2
      <3> QED
        BY <2>1, <3>1, <3>2, <3>3 DEF OnceEach
    <2> QED
      BY <2>2, <2>3
  <1> QED
    BY <1>8, <1>11 DEF CountInv

(* Every step of the two processes, as far as the file is concerned.       *)
LEMMA CountShape ==
    ASSUME CallInv, [MixedNext]_mixedVars
    PROVE  \/ \E c \in Caller : AppendWrites(c)
           \/ \E c \in Caller : SharedStep(c) /\ UNCHANGED raised
           \/ \E c \in PythonCaller, e \in {"agent", "audit", "interrupt"} :
                 /\ Leaves(c)
                 /\ raised' = [raised EXCEPT ![c] = e]
                 /\ e = "agent" => phase[c] = "idle"
           \/ \E callers \in SUBSET Caller : OneProcessStops(callers)
           \/ UNCHANGED <<vars, raised>>
  <1>1. PythonCaller \subseteq Caller /\ NodeCaller \subseteq Caller /\ TypeInv
    BY SdkPythonAssumption DEF NodeCaller, CallInv, KnownInv
  <1>2. ASSUME NEW c \in NodeCaller, McpStep(c), UNCHANGED raised
        PROVE  AppendWrites(c) \/ SharedStep(c) \/ UNCHANGED <<vars, raised>>
    BY <1>1, <1>2, NodeAppendWrites DEF McpStep, ContextThrows, CallTool, ReplyToCaller, SdkStep, SharedStep
  <1>3. ASSUME NEW c \in PythonCaller, PythonStep(c)
        PROVE  \/ AppendWrites(c)
               \/ SharedStep(c) /\ UNCHANGED raised
               \/ \E e \in {"agent", "audit", "interrupt"} :
                     /\ Leaves(c)
                     /\ raised' = [raised EXCEPT ![c] = e]
                     /\ e = "agent" => phase[c] = "idle"
    <2>1. CASE NoAgent(c)
      BY <2>1 DEF NoAgent, Raise, Goto, Leaves
    <2>2. CASE AuditRaises(c)
      <3>1. phase[c] # "returned"
        BY <1>1, <2>2 DEF AuditRaises, CallInv, RecordInv
      <3> QED
        BY <2>2, <3>1 DEF AuditRaises, Raise, Goto, Leaves
    <2>3. CASE Interrupted(c)
      BY <2>3 DEF Interrupted, InProcess, Raise, Goto, Leaves
    <2> QED
      BY <1>1, <1>3, <2>1, <2>2, <2>3, PythonAppendWrites
         DEF PythonStep, RunTool, PythonReturns, HandlerEnds, SharedStep
  <1> QED
    BY <1>1, <1>2, <1>3 DEF MixedNext, mixedVars

(* Every step keeps CountInv.                                              *)
LEMMA CountStep == CallInv /\ PythonInv /\ CountInv /\ [MixedNext]_mixedVars => CountInv'
  <1> SUFFICES ASSUME CallInv, PythonInv, CountInv, [MixedNext]_mixedVars PROVE CountInv'
    OBVIOUS
  <1>1. /\ append \in [Caller -> Append_]
        /\ phase \in [Caller -> Phase]
        /\ observed \in [Caller -> Decision]
        /\ raised \in [PythonCaller -> {"none", "agent", "audit", "interrupt"}]
    BY DEF CallInv, KnownInv, TypeInv, TypeOK, AuditTypeOK, Append_, PythonInv
  <1>2. ASSUME NEW c \in Caller, AppendWrites(c)
        PROVE  CountInv'
    <2>1. CASE log' = log
      <3>1. PICK next \in Append_ : /\ append' = [append EXCEPT ![c] = next]
                                    /\ next.ev.status = append[c].ev.status
        BY <1>2 DEF AppendWrites
      <3>2. UNCHANGED <<mode, phase, observed, raised>> /\ append[c].pc \in InFlightPc
        BY <1>2 DEF AppendWrites, sdkVars
      <3> QED
        BY <1>1, <2>1, <3>1, <3>2, CountKept DEF Made
    <2> QED
      BY <1>2, <2>1, CountWritten
  <1>3. ASSUME NEW c \in Caller, EnforceToolCall(c), UNCHANGED raised
        PROVE  CountInv'
    <2>1. /\ phase[c] = "idle"
          /\ \A d \in Caller \ {c} : /\ phase'[d] = phase[d]
                                     /\ observed'[d] = observed[d]
                                     /\ append'[d] = append[d]
          /\ UNCHANGED <<mode, log>>
      BY <1>1, <1>3 DEF EnforceToolCall, Goto, CallAppend
    <2> QED
      BY <1>3, <2>1, CountKept DEF Made
  <1>4. ASSUME NEW c \in Caller, CallbackReturns(c) \/ CallbackThrows(c), UNCHANGED raised
        PROVE  CountInv'
    <2>1. /\ phase[c] = "running"
          /\ phase'[c] \in {"closing", "failing"}
          /\ append'[c].ev.status \in Endings
          /\ \A d \in Caller \ {c} : phase'[d] = phase[d] /\ append'[d] = append[d]
          /\ UNCHANGED <<mode, log, observed>>
      BY <1>1, <1>4 DEF CallbackReturns, CallbackThrows, Goto, CallAppend, FinalStatus, Endings
    <2> QED
      BY <1>4, <2>1, CountKept DEF Made, Ended
  <1>5. ASSUME NEW c \in Caller, EnterCallback(c) \/ (\E r : Return(c, r)), UNCHANGED raised,
               phase[c] \in {"evidence", "refusing", "closing", "failing"}
        PROVE  CountInv'
    <2>1. /\ phase'[c] \in {"running", "returned"}
          /\ phase[c] \in Ended => phase'[c] \in Ended
          /\ append'[c].pc \notin InFlightPc
          /\ \A d \in Caller \ {c} : phase'[d] = phase[d] /\ append'[d] = append[d]
          /\ UNCHANGED <<mode, log, observed>>
      BY <1>1, <1>5, NoAppendType DEF EnterCallback, Return, Goto, InFlightPc, Ended
    <2> QED
      BY <1>5, <2>1, CountKept DEF Made, Ended
  <1>6. ASSUME NEW c \in Caller, SharedStep(c), UNCHANGED raised
        PROVE  CountInv'
    BY <1>3, <1>4, <1>5, <1>6
       DEF SharedStep, Refused, EvidenceFails, Closed, Failed, EnterCallback
  <1>7. ASSUME NEW c \in PythonCaller, NEW e \in {"agent", "audit", "interrupt"}, Leaves(c),
               raised' = [raised EXCEPT ![c] = e], e = "agent" => phase[c] = "idle"
        PROVE  CountInv'
    <2>1. /\ phase'[c] = "returned" /\ append'[c].pc \notin InFlightPc
          /\ raised'[c] = e /\ c \in Caller
          /\ \A d \in Caller \ {c} : /\ phase'[d] = phase[d]
                                     /\ append'[d] = append[d]
                                     /\ d \in PythonCaller => raised'[d] = raised[d]
          /\ UNCHANGED <<mode, log, observed>>
      BY <1>1, <1>7, NoAppendType, SdkPythonAssumption DEF Leaves, InFlightPc
    <2>2. ASSUME NEW d \in Caller, phase[d] # "idle"
          PROVE  Made(d) => Made(d)'
      <3>1. CASE d = c
        BY <1>7, <2>1, <2>2, <3>1 DEF Made
      <3>2. CASE d # c
        BY <2>1, <3>2 DEF Made
      <3> QED
        BY <3>1, <3>2
    <2>3. "returned" \in Ended
      BY DEF Ended
    <2> QED
      BY <2>1, <2>2, <2>3, CountKept
  <1>8. ASSUME NEW callers \in SUBSET Caller, OneProcessStops(callers)
        PROVE  CountInv'
    <2>1. /\ \A d \in Caller :
                \/ phase'[d] = phase[d] /\ append'[d] = append[d]
                \/ phase'[d] = "lost" /\ append'[d].pc \notin InFlightPc
          /\ UNCHANGED <<mode, log, observed, raised>>
      BY <1>8, NoAppendType DEF OneProcessStops, InFlightPc
    <2> QED
      BY <2>1, CountKept DEF Made, Ended
  <1>9. CASE UNCHANGED <<vars, raised>>
    BY <1>9, CountKept DEF vars, auditVars, sdkVars, Made
  <1> QED
    BY <1>2, <1>6, <1>7, <1>8, <1>9, CountShape

(* A step acknowledges an event only with its line, unless that is torn.   *)
LEMMA AckStep == CallInv /\ AckInv /\ [MixedNext]_mixedVars => AckInv'
  <1> SUFFICES ASSUME CallInv, AckInv, [MixedNext]_mixedVars, GarbageLines' = {}
               PROVE  \A ev \in acked' : OnFile(ev)'
    BY DEF AckInv
  <1>1. CASE UNCHANGED <<log, acked>>
    BY <1>1 DEF AckInv, GarbageLines, OnFile
  <1>2. ASSUME NEW c \in Caller, AppendWrites(c), ~UNCHANGED <<log, acked>>
        PROVE  \A ev \in acked' : OnFile(ev)'
    <2>1. log \in Log /\ log' \in Log
      BY <1>2, AuditPart, LogIsLog DEF AppendWrites, CallInv, KnownInv
    <2>2. PICK ev \in Event, line \in Line :
              /\ acked' \in {acked, acked \cup {ev}}
              /\ line = Garbage \/ line.ev = ev
              /\ Merges(log, log') \/ Extends(log, log', line)
      BY <1>2 DEF AppendWrites
    <2> PICK n \in Nat : n = Len(log.lines)
      BY <2>1, LogFacts
    <2>3. /\ DOMAIN log.lines = 1 .. n
          /\ DOMAIN log'.lines = 1 .. Len(log'.lines)
          /\ \A i \in DOMAIN log'.lines : log'.lines[i] # Garbage
      BY <2>1, LogFacts DEF GarbageLines, Parses
    <2>4. Extends(log, log', line)
      BY <2>2, <2>3 DEF Merges
    <2>5. /\ DOMAIN log'.lines = 1 .. n + 1
          /\ \A i \in 1 .. n : log'.lines[i] = log.lines[i]
          /\ log'.lines[n + 1].ev = ev
      BY <2>2, <2>3, <2>4 DEF Extends
    <2>6. GarbageLines = {}
      BY <2>3, <2>5 DEF GarbageLines, Parses
    <2> QED
      BY <2>2, <2>3, <2>5, <2>6 DEF AckInv, OnFile
  <1>3. ASSUME NEW c \in Caller, SharedStep(c)
        PROVE  UNCHANGED <<log, acked>>
    BY <1>3 DEF SharedStep, EnforceToolCall, Refused, EnterCallback, EvidenceFails, Closed,
                Failed, CallbackReturns, CallbackThrows, Return
  <1>4. ASSUME NEW c, Leaves(c) \/ OneProcessStops(c)
        PROVE  UNCHANGED <<log, acked>>
    BY <1>4 DEF Leaves, OneProcessStops
  <1> QED
    BY <1>1, <1>2, <1>3, <1>4, CountShape DEF vars, auditVars

(* Only finitely many calls have been made.                                *)
FiniteInv == IsFiniteSet({c \in Caller : phase[c] # "idle"})

(* A step makes at most one call.                                          *)
LEMMA FiniteStep == CallInv /\ FiniteInv /\ [MixedNext]_mixedVars => FiniteInv'
  <1> SUFFICES ASSUME CallInv, FiniteInv, [MixedNext]_mixedVars PROVE FiniteInv'
    OBVIOUS
  <1> DEFINE calls == {c \in Caller : phase[c] # "idle"}
  <1>1. phase \in [Caller -> Phase]
    BY DEF CallInv, KnownInv, TypeInv, TypeOK
  <1>2. ASSUME NEW c, calls' \subseteq calls \cup {c}
        PROVE  FiniteInv'
    <2>1. IsFiniteSet(calls \cup {c})
      BY FS_AddElement DEF FiniteInv
    <2> QED
      BY <1>2, <2>1, FS_Subset DEF FiniteInv
  <1>3. ASSUME NEW c, phase' = phase \/ \E p : phase' = [phase EXCEPT ![c] = p]
        PROVE  FiniteInv'
    <2>1. calls' \subseteq calls \cup {c}
      BY <1>1, <1>3
    <2> QED
      BY <1>2, <2>1
  <1>4. ASSUME NEW c \in Caller, AppendWrites(c)
        PROVE  phase' = phase
    BY <1>4 DEF AppendWrites, sdkVars
  <1>5. ASSUME NEW c \in Caller, SharedStep(c)
        PROVE  \E p : phase' = [phase EXCEPT ![c] = p]
    BY <1>5 DEF SharedStep, EnforceToolCall, Refused, EnterCallback, EvidenceFails, Closed,
                Failed, CallbackReturns, CallbackThrows, Return, Goto
  <1>6. ASSUME NEW callers \in SUBSET Caller, OneProcessStops(callers)
        PROVE  FiniteInv'
    <2>1. calls' \subseteq calls \cup {callers}
      BY <1>6 DEF OneProcessStops, InProcess
    <2> QED
      BY <1>2, <2>1
  <1>7. CASE UNCHANGED <<vars, raised>>
    BY <1>3, <1>7 DEF vars, sdkVars
  <1>8. ASSUME NEW c \in PythonCaller, Leaves(c)
        PROVE  \E p : phase' = [phase EXCEPT ![c] = p]
    BY <1>8 DEF Leaves
  <1> QED
    BY <1>3, <1>4, <1>5, <1>6, <1>7, <1>8, CountShape

-----------------------------------------------------------------------------
(* Counting.                                                               *)

(* Callers that each left one of some lines are not more than the lines.   *)
LEMMA CallersLeaveLines ==
    ASSUME log \in Log, NEW lines \in SUBSET (DOMAIN log.lines), NEW callers,
           \A c \in callers : \E i \in lines : log.lines[i].ev.caller = c
    PROVE  Cardinality(callers) <= Cardinality(lines)
  <1> DEFINE f == [c \in callers |-> CHOOSE i \in lines : log.lines[i].ev.caller = c]
  <1>1. IsFiniteSet(lines)
    <2> PICK n \in Nat : n = Len(log.lines)
      BY LogFacts
    <2>1. DOMAIN log.lines = 1 .. n
      BY LogFacts
    <2>2. IsFiniteSet(1 .. n)
      BY FS_Interval
    <2> QED
      BY <2>1, <2>2, FS_Subset
  <1>2. \A c \in callers : f[c] \in lines /\ log.lines[f[c]].ev.caller = c
    OBVIOUS
  <1>3. f \in Injection(callers, lines)
    <2>1. f \in [callers -> lines]
      BY <1>2
    <2>2. \A c, d \in callers : f[c] = f[d] => c = d
      BY <1>2
    <2> QED
      BY <2>1, <2>2 DEF Injection, IsInjective
  <1> QED
    BY <1>1, <1>3, FS_Injection

(* Lines of which no two are of one caller are not more than the callers.  *)
LEMMA LinesHaveCallers ==
    ASSUME NEW lines, NEW callers, IsFiniteSet(callers),
           \A i \in lines : log.lines[i].ev.caller \in callers,
           \A i, j \in lines : log.lines[i].ev.caller = log.lines[j].ev.caller => i = j
    PROVE  Cardinality(lines) <= Cardinality(callers)
  <1> DEFINE f == [i \in lines |-> log.lines[i].ev.caller]
  <1>1. f \in Injection(lines, callers)
    BY DEF Injection, IsInjective
  <1> QED
    BY <1>1, FS_Injection

(* The lines a report takes for events, and those of a decision.           *)
Events == {i \in DOMAIN log.lines : Parses(log.lines[i])}
EventsOf(decisions) == {i \in Events : log.lines[i].ev.decision \in decisions}

(* What enforra report counts of the whole file.                           *)
LEMMA WholeReport ==
    LET r == Report(log.lines, NoFilters)
    IN  /\ r.total = Cardinality(Events)
        /\ r.skipped = Cardinality(GarbageLines)
        /\ \A d \in Decision : r.decisions[d] = Cardinality(EventsOf({d}))
        /\ DOMAIN r.agents = {Agent[log.lines[i].ev.caller] : i \in Events}
        /\ \A a \in DOMAIN r.agents :
              r.agents[a] = Cardinality({i \in Events : Agent[log.lines[i].ev.caller] = a})
  <1>1. Reported(log.lines, NoFilters) = Events
    BY DEF Reported, Matches, NoFilters, Events
  <1>2. \A d : {i \in Events : log.lines[i].ev.decision = d} = EventsOf({d})
    BY DEF EventsOf
  <1> QED
    BY <1>1, <1>2 DEF Report, GarbageLines

(* Every line is an event or is skipped.                                   *)
LEMMA EveryLineCounts ==
    ASSUME log \in Log
    PROVE  /\ IsFiniteSet(Events) /\ IsFiniteSet(GarbageLines)
           /\ Cardinality(Events) + Cardinality(GarbageLines) = Len(log.lines)
  <1> PICK n \in Nat : n = Len(log.lines)
    BY LogFacts
  <1>1. DOMAIN log.lines = 1 .. n
    BY LogFacts
  <1>2. IsFiniteSet(1 .. n) /\ Cardinality(1 .. n) = n
    BY FS_Interval
  <1>3. /\ Events \cup GarbageLines = 1 .. n
        /\ Events \cap GarbageLines = {}
    BY <1>1 DEF Events, GarbageLines
  <1>4. IsFiniteSet(Events) /\ IsFiniteSet(GarbageLines)
    BY <1>2, <1>3, FS_Subset
  <1>5. Cardinality(Events) \in Nat /\ Cardinality(GarbageLines) \in Nat
    BY <1>4, FS_CardinalityType
  <1>6. Cardinality(Events \cup GarbageLines) =
            Cardinality(Events) + Cardinality(GarbageLines) - Cardinality(Events \cap GarbageLines)
    BY <1>4, FS_Union
  <1>7. Cardinality({}) = 0
    BY FS_EmptySet
  <1>8. n = Cardinality(Events) + Cardinality(GarbageLines) - 0
    BY <1>2, <1>3, <1>6, <1>7
  <1> QED
    BY <1>4, <1>5, <1>8

(* The decisions of two kinds of events are counted apart.                 *)
LEMMA DecisionsAddUp ==
    ASSUME IsFiniteSet(Events), NEW d, NEW e, d # e
    PROVE  Cardinality(EventsOf({d, e})) = Cardinality(EventsOf({d})) + Cardinality(EventsOf({e}))
  <1>1. /\ EventsOf({d, e}) = EventsOf({d}) \cup EventsOf({e})
        /\ EventsOf({d}) \cap EventsOf({e}) = {}
    BY DEF EventsOf
  <1>2. IsFiniteSet(EventsOf({d})) /\ IsFiniteSet(EventsOf({e}))
    BY FS_Subset DEF EventsOf
  <1>3. Cardinality(EventsOf({d})) \in Nat /\ Cardinality(EventsOf({e})) \in Nat
    BY <1>2, FS_CardinalityType
  <1>4. Cardinality(EventsOf({d}) \cup EventsOf({e})) =
            Cardinality(EventsOf({d})) + Cardinality(EventsOf({e})) -
            Cardinality(EventsOf({d}) \cap EventsOf({e}))
    <2> DEFINE ofD == EventsOf({d})
               ofE == EventsOf({e})
    <2> HIDE DEF ofD, ofE
    <2>1. IsFiniteSet(ofD) /\ IsFiniteSet(ofE)
      BY <1>2 DEF ofD, ofE
    <2>2. Cardinality(ofD \cup ofE) = Cardinality(ofD) + Cardinality(ofE) - Cardinality(ofD \cap ofE)
      BY <2>1, FS_Union
    <2> QED
      BY <2>2 DEF ofD, ofE
  <1>5. Cardinality({}) = 0
    BY FS_EmptySet
  <1>6. Cardinality(EventsOf({d, e})) = Cardinality(EventsOf({d})) + Cardinality(EventsOf({e})) - 0
    BY <1>1, <1>4, <1>5
  <1> QED
    BY <1>3, <1>6

(* The calls made under some decisions.                                    *)
CallsUnder(decisions) == {c \in Caller : Made(c) /\ effective(c) \in decisions}

(* Only finitely many calls have been made.                                *)
LEMMA CallsAreFinite ==
    ASSUME FiniteInv, NEW decisions
    PROVE  IsFiniteSet(CallsUnder(decisions)) /\ Cardinality(CallsUnder(decisions)) \in Nat
  <1>1. CallsUnder(decisions) \subseteq {c \in Caller : phase[c] # "idle"}
    BY DEF CallsUnder, Made
  <1> QED
    BY <1>1, FS_Subset, FS_CardinalityType DEF FiniteInv

(* A line is of a call that was made, under the line's decision.           *)
LEMMA LineOfACall ==
    ASSUME CountInv, NEW i \in Events
    PROVE  LET ev == log.lines[i].ev
           IN  /\ ev.caller \in Caller /\ Made(ev.caller)
               /\ ev.decision = effective(ev.caller)
               /\ \/ ev.status \in Openings /\ i \in StatusLines(ev.caller, Openings)
                  \/ ev.status \in Endings /\ i \in StatusLines(ev.caller, Endings)
  <1> PICK ev \in Event : log.lines[i].ev = ev /\ Counts(ev)
    BY DEF CountInv, Events
  <1>1. ev.caller \in Caller /\ ev.status \in Status
    BY DEF Event
  <1>2. i \in DOMAIN log.lines /\ Parses(log.lines[i])
    BY DEF Events
  <1>3. \A statuses : ev.status \in statuses => i \in StatusLines(ev.caller, statuses)
    BY <1>2 DEF StatusLines
  <1> QED
    BY <1>1, <1>3 DEF Counts, Openings

(* Events of one of the two kinds are not more than their calls.           *)
LEMMA OneKindOfLines ==
    ASSUME CountInv, FiniteInv, NEW statuses \in {Openings, Endings}, NEW decisions,
           NEW lines \in SUBSET EventsOf(decisions),
           \A i \in lines : log.lines[i].ev.status \in statuses
    PROVE  Cardinality(lines) <= Cardinality(CallsUnder(decisions))
  <1>1. ASSUME NEW i \in lines
        PROVE  /\ log.lines[i].ev.caller \in CallsUnder(decisions)
               /\ i \in StatusLines(log.lines[i].ev.caller, statuses)
    <2>1. i \in Events /\ log.lines[i].ev.decision \in decisions
      BY DEF EventsOf
    <2>2. log.lines[i].ev.caller \in CallsUnder(decisions)
      BY <2>1, LineOfACall DEF CallsUnder
    <2>3. i \in StatusLines(log.lines[i].ev.caller, statuses)
      BY <2>1 DEF StatusLines, Events
    <2> QED
      BY <2>2, <2>3
  <1>2. ASSUME NEW i \in lines, NEW j \in lines, log.lines[i].ev.caller = log.lines[j].ev.caller
        PROVE  i = j
    <2> PICK c \in Caller : c = log.lines[i].ev.caller
      BY <1>1 DEF CallsUnder
    <2>1. i \in StatusLines(c, statuses) /\ j \in StatusLines(c, statuses)
      BY <1>1, <1>2
    <2> QED
      BY <2>1 DEF CountInv, OnceEach
  <1> QED
    BY <1>1, <1>2, CallsAreFinite, LinesHaveCallers

(* A report by agent counts what the whole report counts of that agent.    *)
LEMMA AgentsSplitTheReport ==
    ASSUME CountInv
    PROVE  LET r == Report(log.lines, NoFilters)
           IN  \A a \in DOMAIN r.agents :
                  r.agents[a] = Report(log.lines, [NoFilters EXCEPT !.agent = a]).total
  <1> DEFINE agents == {Agent[log.lines[i].ev.caller] : i \in Events}
             of(a) == {i \in Events : Agent[log.lines[i].ev.caller] = a}
  <1>1. ASSUME NEW a \in agents
        PROVE  Report(log.lines, [NoFilters EXCEPT !.agent = a]).total = Cardinality(of(a))
    <2>1. PICK i \in Events : a = Agent[log.lines[i].ev.caller]
      BY <1>1
    <2>2. a # Any
      BY <2>1, LineOfACall, MixedSdksAssumption
    <2>3. Reported(log.lines, [NoFilters EXCEPT !.agent = a]) = of(a)
      BY <2>2 DEF Reported, Matches, NoFilters, Events
    <2> QED
      BY <2>3 DEF Report
  <1> QED
    BY <1>1, WholeReport

(* Refusals are counted once, if the calls were refused, and at least if   *)
(* they were told so.                                                      *)
LEMMA RefusalsCount ==
    ASSUME log \in Log, CountInv, AckInv, FiniteInv, GarbageLines = {},
           NEW d \in Decision \ Permits,
           NEW told \in SUBSET {c \in CallsUnder({d}) : Acked(c, FirstStatus(d))}
    PROVE  /\ Cardinality(told) <= Cardinality(EventsOf({d}))
           /\ Cardinality(EventsOf({d})) <= Cardinality(CallsUnder({d}))
  <1>1. ASSUME NEW c \in told
        PROVE  \E i \in EventsOf({d}) : log.lines[i].ev.caller = c
    <2>1. PICK ev \in acked : ev.caller = c /\ ev.decision = d
      BY DEF CallsUnder, Acked
    <2>2. PICK i \in DOMAIN log.lines : log.lines[i].ev = ev
      BY <2>1 DEF AckInv, OnFile
    <2> QED
      BY <2>1, <2>2 DEF EventsOf, Events, GarbageLines
  <1>2. EventsOf({d}) \in SUBSET (DOMAIN log.lines)
    BY DEF EventsOf, Events
  <1>3. ASSUME NEW i \in EventsOf({d})
        PROVE  log.lines[i].ev.status \in Openings
    BY LineOfACall DEF EventsOf, CountInv, OnceEach
  <1> QED
    BY <1>1, <1>2, <1>3, CallersLeaveLines, OneKindOfLines

(* Calls that were let through count at least once if their callback was   *)
(* entered, and at most twice.                                             *)
LEMMA ExecutionsCount ==
    ASSUME log \in Log, CountInv, AckInv, FiniteInv, ExecutionGate, GarbageLines = {}
    PROVE  /\ Cardinality({c \in Caller : entered[c] = 1}) <= Cardinality(EventsOf(Permits))
           /\ Cardinality(EventsOf(Permits)) <= 2 * Cardinality(CallsUnder(Permits))
  <1>1. ASSUME NEW c \in Caller, entered[c] = 1
        PROVE  \E i \in EventsOf(Permits) : log.lines[i].ev.caller = c
    <2>1. PICK ev \in acked : ev.caller = c /\ ev.decision \in Permits
      BY <1>1 DEF ExecutionGate, Acked
    <2>2. PICK i \in DOMAIN log.lines : log.lines[i].ev = ev
      BY <2>1 DEF AckInv, OnFile
    <2> QED
      BY <2>1, <2>2 DEF EventsOf, Events, GarbageLines
  <1>2. EventsOf(Permits) \in SUBSET (DOMAIN log.lines)
    BY DEF EventsOf, Events
  <1>3. Cardinality({c \in Caller : entered[c] = 1}) <= Cardinality(EventsOf(Permits))
    BY <1>1, <1>2, CallersLeaveLines
  <1> DEFINE first == {i \in EventsOf(Permits) : log.lines[i].ev.status \in Openings}
             last == {i \in EventsOf(Permits) : log.lines[i].ev.status \in Endings}
             calls == CallsUnder(Permits)
  <1>4. Cardinality(first) <= Cardinality(calls) /\ Cardinality(last) <= Cardinality(calls)
    BY OneKindOfLines
  <1>5. EventsOf(Permits) = first \cup last
    BY LineOfACall DEF EventsOf
  <1>6. IsFiniteSet(first) /\ IsFiniteSet(last)
    BY EveryLineCounts, FS_Subset DEF EventsOf
  <1>7. Cardinality(calls) \in Nat
    BY CallsAreFinite
  <1> HIDE DEF first, last, calls
  <1>8. IsFiniteSet(first \cap last)
    BY <1>6, FS_Subset
  <1>9. /\ Cardinality(first) \in Nat /\ Cardinality(last) \in Nat
        /\ Cardinality(first \cap last) \in Nat
    BY <1>6, <1>8, FS_CardinalityType
  <1>10. Cardinality(first \cup last) = Cardinality(first) + Cardinality(last) - Cardinality(first \cap last)
    BY <1>6, FS_Union
  <1>11. Cardinality(EventsOf(Permits)) <= 2 * Cardinality(calls)
    BY <1>4, <1>5, <1>7, <1>9, <1>10
  <1> QED
    BY <1>3, <1>11 DEF calls

(* What holds of the lines makes a report account for the calls.           *)
LEMMA LinesAccountForCalls ==
    ASSUME CallInv, CountInv, AckInv, FiniteInv
    PROVE  ReportAccountsForCalls
  <1>1. log \in Log /\ ExecutionGate
    BY AuditPart, LogIsLog DEF CallInv, KnownInv, TypeInv, TypeOK, AuditTypeOK, GateInv
  <1> DEFINE r == Report(log.lines, NoFilters)
             made == {c \in Caller : phase[c] # "idle" /\ ~(c \in PythonCaller /\ raised[c] = "agent")}
             refused(d) == {c \in made : effective(c) = d}
             told(d) == {c \in refused(d) : phase[c] = "returned" /\ Acked(c, FirstStatus(d))}
             let == {c \in made : effective(c) \in Permits}
             through == r.decisions["allow"] + r.decisions["log_only"]
  <1>2. let = CallsUnder(Permits) /\ \A d : refused(d) = CallsUnder({d})
    BY DEF CallsUnder, Made
  <1>3. r.total + r.skipped = Len(log.lines)
    BY <1>1, EveryLineCounts, WholeReport
  <1>4. \A a \in DOMAIN r.agents :
            r.agents[a] = Report(log.lines, [NoFilters EXCEPT !.agent = a]).total
    BY AgentsSplitTheReport
  <1>5. r.skipped = 0 => GarbageLines = {}
    BY <1>1, EveryLineCounts, WholeReport, FS_EmptySet
  <1>6. \A d \in Decision : r.decisions[d] = Cardinality(EventsOf({d})) /\ r.decisions[d] \in Nat
    <2>1. \A d : IsFiniteSet(EventsOf({d}))
      BY <1>1, EveryLineCounts, FS_Subset DEF EventsOf
    <2> QED
      BY <2>1, WholeReport, FS_CardinalityType
  <1>7. through = Cardinality(EventsOf(Permits))
    <2>1. Cardinality(EventsOf({"allow", "log_only"})) =
              Cardinality(EventsOf({"allow"})) + Cardinality(EventsOf({"log_only"}))
      BY <1>1, EveryLineCounts, DecisionsAddUp
    <2>2. "allow" \in Decision /\ "log_only" \in Decision
      BY DEF Decision
    <2> HIDE DEF r
    <2> QED
      BY <1>6, <2>1, <2>2 DEF Permits
  <1>8. ASSUME GarbageLines = {}, NEW d \in Decision \ Permits
        PROVE  /\ Cardinality(told(d)) <= r.decisions[d]
               /\ r.decisions[d] <= Cardinality(refused(d))
    <2>1. told(d) \in SUBSET {c \in CallsUnder({d}) : Acked(c, FirstStatus(d))}
      BY <1>2
    <2> HIDE DEF told, refused, r
    <2> QED
      BY <1>1, <1>2, <1>6, <1>8, <2>1, RefusalsCount
  <1>9. ASSUME GarbageLines = {}
        PROVE  /\ Cardinality({c \in Caller : entered[c] = 1}) <= through
               /\ through <= 2 * Cardinality(let)
    <2> HIDE DEF through, let
    <2> QED
      BY <1>1, <1>2, <1>7, <1>9, ExecutionsCount
  <1>10. ASSUME r.skipped = 0
         PROVE  /\ \A d \in Decision \ Permits :
                       /\ r.decisions[d] >= Cardinality(told(d))
                       /\ r.decisions[d] <= Cardinality(refused(d))
                /\ through >= Cardinality({c \in Caller : entered[c] = 1})
                /\ through <= 2 * Cardinality(let)
    <2> HIDE DEF told, refused, r, through, let
    <2> QED
      BY <1>5, <1>8, <1>9, <1>10
  <1> QED
    BY <1>3, <1>4, <1>10 DEF ReportAccountsForCalls

(* enforra report of the file the two SDKs share, taken in any state:      *)
(* every line is counted or skipped, agents split the total, and while no  *)
(* line is torn, refusals are counted once and only of refused calls, and  *)
(* executions once or twice, and of every callback that was entered.       *)
THEOREM ReportCountsCalls == MixedSpec => []ReportAccountsForCalls
  <1> DEFINE Known == CallInv /\ FitsInv /\ PythonInv /\ CountInv /\ AckInv /\ FiniteInv
  <1>1. MixedInit => Known
    <2> SUFFICES ASSUME MixedInit PROVE Known
      OBVIOUS
    <2>1. CallInv
      BY InitType, DecisionInit, GateInit, RecordInit, OutcomeInit DEF CallInv, KnownInv, MixedInit
    <2>2. PythonInv
      BY SdkPythonAssumption DEF MixedInit, Init, PythonInit, PythonInv
    <2>3. /\ log.lines = << >> /\ acked = {}
          /\ \A c \in Caller : phase[c] = "idle" /\ append[c].pc = "idle"
      BY DEF MixedInit, Init, AuditInit, EmptyLog, NoAppend
    <2>4. CountInv /\ AckInv
      BY <2>3 DEF CountInv, OnceEach, AckInv, StatusLines, InFlightPc
    <2>5. FiniteInv
      BY <2>3, FS_EmptySet DEF FiniteInv
    <2>6. FitsInv
      BY <2>3 DEF FitsInv, Fits
    <2> QED
      BY <2>1, <2>2, <2>4, <2>5, <2>6
  <1>2. Known /\ [MixedNext]_mixedVars => Known'
    BY MixedStep, FitsStep, PythonStepKeeps, CountStep, AckStep, FiniteStep
  <1>3. Known => ReportAccountsForCalls
    BY LinesAccountForCalls
  <1> QED
    BY <1>1, <1>2, <1>3, PTL DEF MixedSpec

=============================================================================
