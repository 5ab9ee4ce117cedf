---------------------------- MODULE SdkNodeProofs ----------------------------
(***************************************************************************)
(* Theorems about SdkNode, for every set of calls, policy, set of inputs,  *)
(* integrity options and I/O faults: its safety invariants, what a caller  *)
(* is told, what an auditor may conclude from the lines of a call, and     *)
(* that enforceToolCall implements EnforcementGate.                        *)
(*                                                                         *)
(* The invariants are proved one on top of the other: TypeInv (with what   *)
(* an outstanding append holds), DecisionInv (which decision the events    *)
(* of a call carry), GateInv (what is known when the callback is entered)  *)
(* and ReplayInv (which arguments an event holds); then RecordInv and      *)
(* OutcomeInv, which say where a call and its record are; and on these     *)
(* LineInv (each line on file is true of its call) and OrderInv (with no   *)
(* torn line none is missing or out of order).                             *)
(***************************************************************************)
EXTENDS SdkNode, LocalAuditProofs

-----------------------------------------------------------------------------
(* The type of the state.                                                  *)

(* The type is inductive with the event an outstanding append holds.       *)
TypeInv == TypeOK /\ AppendHoldsEvent

(* It holds what the lemmas about append need.                             *)
LEMMA AuditPart == TypeInv => AuditTypeInv
  BY DEF TypeInv, TypeOK, AuditTypeInv

(* Observe mode turns decisions into decisions.                            *)
LEMMA DecisionType ==
    ASSUME NEW m, NEW d \in Decision
    PROVE  EffectiveDecision(m, d) \in Decision
  BY DEF EffectiveDecision, Decision

(* The initial states have their type.                                     *)
LEMMA InitType == Init => TypeInv
  <1> SUFFICES ASSUME Init PROVE TypeInv
    OBVIOUS
  <1>1. log \in Log
    <2>1. <<>> \in Seq(Line)
      BY EmptySeq
    <2> QED
      BY <2>1 DEF Init, AuditInit, EmptyLog, Log
  <1>2. append \in [Caller -> Append_] /\ \A c \in Caller : append[c].pc = "idle"
    BY NoAppendType DEF Init, AuditInit
  <1>3. AuditTypeOK
    BY <1>1, <1>2, LocalAuditAssumption DEF Init, AuditInit, AuditTypeOK, Log, Append_
  <1>4. TypeOK
    BY <1>3, SdkNodeAssumption DEF Init, TypeOK, Phase, Decision
  <1> QED
    BY <1>2, <1>4 DEF TypeInv, AppendHoldsEvent

(* Return leaves everything but the phase, the result and the append.      *)
LEMMA ReturnType ==
    ASSUME TypeInv, NEW c \in Caller, NEW r \in Result, Return(c, r)
    PROVE  TypeInv'
  <1>1. append \in [Caller -> Append_] /\ append' = [append EXCEPT ![c] = NoAppend]
    BY DEF TypeInv, TypeOK, AuditTypeOK, Append_, Return
  <1>2. append' \in [Caller -> Append_]
    BY <1>1, NoAppendType
  <1>3. \A d \in Caller : append'[d].pc # "idle" => append'[d].ev \in Event
    BY <1>1, NoAppendType DEF TypeInv, AppendHoldsEvent
  <1>4. AuditTypeOK'
    BY <1>2 DEF TypeInv, TypeOK, AuditTypeOK, Append_, Return
  <1>5. TypeOK'
    BY <1>4 DEF TypeInv, TypeOK, Return, Goto, Phase
  <1> QED
    BY <1>3, <1>5 DEF TypeInv, AppendHoldsEvent

(* The decision that is applied to a call is a decision.                   *)
LEMMA EffectiveType ==
    ASSUME TypeInv, NEW c \in Caller
    PROVE  effective(c) \in Decision
  BY DecisionType DEF TypeInv, TypeOK, effective

(* A step of a call's append, however the append is carried out.           *)
AppendMovesOn(c) == AppendMoves(c) /\ log' \in Log /\ UNCHANGED sdkVars

(* A step of the Node logger is one.                                       *)
LEMMA MovesShape ==
    ASSUME TypeInv, NEW c \in Caller, AuditStep(c)
    PROVE  AppendMovesOn(c)
  BY AuditPart, AppendStepShape DEF AuditStep, AppendMovesOn

(* It keeps the type.                                                      *)
LEMMA TypeMoves ==
    ASSUME TypeInv, NEW c \in Caller, AppendMovesOn(c)
    PROVE  TypeInv'
  <1>1. AppendMoves(c) /\ log' \in Log /\ UNCHANGED sdkVars
    BY DEF AppendMovesOn
  <1>2. PICK next \in Append_ : /\ next.ev \in Event
                                /\ append' = [append EXCEPT ![c] = next]
                                /\ acked' \in {acked, acked \cup {next.ev}}
    BY <1>1 DEF AppendMoves
  <1>3. append \in [Caller -> Append_]
    BY DEF TypeInv, TypeOK, AuditTypeOK, Append_
  <1>4. append' \in [Caller -> Append_] /\ AppendHoldsEvent'
    BY <1>2, <1>3 DEF TypeInv, AppendHoldsEvent
  <1>5. AuditTypeOK'
    BY <1>1, <1>2, <1>4 DEF AppendMoves, TypeInv, TypeOK, AuditTypeOK, Append_, Log
  <1> QED
    BY <1>1, <1>4, <1>5 DEF sdkVars, TypeInv, TypeOK

(* Every step keeps the type.                                              *)
LEMMA TypeStep == TypeInv /\ [Next]_vars => TypeInv'
  <1> SUFFICES ASSUME TypeInv, [Next]_vars PROVE TypeInv'
    OBVIOUS
  <1> USE DEF TypeInv
  <1>1. append \in [Caller -> Append_] /\ log \in Log
    BY DEF TypeOK, AuditTypeOK, Append_, Log
  <1>2. ASSUME NEW c \in Caller, EnforceToolCall(c)
        PROVE  TypeInv'
    <2> DEFINE seen == Policy[args[c]]
               decision == EffectiveDecision(mode, seen)
    <2>1. seen \in Decision /\ decision \in Decision
      BY SdkNodeAssumption, DecisionType DEF TypeOK, AuditTypeOK
    <2>2. FirstStatus(decision) \in Status
      BY <2>1 DEF FirstStatus, Status, Decision, Permits
    <2>3. CallAppend(c, FirstStatus(decision), seen, decision)
      BY <1>2 DEF EnforceToolCall
    <2> HIDE DEF decision, seen
    <2>4. /\ append' \in [Caller -> Append_]
          /\ AppendHoldsEvent'
          /\ overlapped' \in BOOLEAN
      BY <2>1, <2>2, <2>3, AuditPart, CallAppendShape DEF AppendHoldsEvent
    <2>5. AuditTypeOK'
      BY <1>2, <2>4 DEF EnforceToolCall, TypeOK, AuditTypeOK, Append_
    <2>6. observed' \in [Caller -> Decision] /\ phase' \in [Caller -> Phase]
      BY <1>2, <2>1 DEF EnforceToolCall, TypeOK, Goto, Phase, seen
    <2> QED
      BY <1>2, <2>4, <2>5, <2>6 DEF EnforceToolCall, TypeOK
  <1>3. ASSUME NEW c \in Caller, AuditStep(c)
        PROVE  TypeInv'
    BY <1>3, MovesShape, TypeMoves
  <1>4. ASSUME NEW c \in Caller, Refused(c)
        PROVE  TypeInv'
    BY <1>4, ReturnType, EffectiveType DEF Refused, Result
  <1>5. ASSUME NEW c \in Caller, EnterCallback(c)
        PROVE  TypeInv'
    <2>1. append' \in [Caller -> Append_] /\ AppendHoldsEvent'
      BY <1>1, <1>5, NoAppendType DEF EnterCallback, AppendHoldsEvent
    <2>2. AuditTypeOK'
      BY <1>5, <2>1 DEF EnterCallback, TypeOK, AuditTypeOK, Append_
    <2>3. phase' \in [Caller -> Phase] /\ entered' \in [Caller -> Nat]
      BY <1>5 DEF EnterCallback, TypeOK, Goto, Phase
    <2> QED
      BY <1>5, <2>1, <2>2, <2>3 DEF EnterCallback, TypeOK
  <1>6. ASSUME NEW c \in Caller, EvidenceFails(c)
        PROVE  TypeInv'
    BY <1>6, ReturnType, EffectiveType DEF EvidenceFails, Result
  <1>7. ASSUME NEW c \in Caller, CallbackReturns(c) \/ CallbackThrows(c)
        PROVE  TypeInv'
    <2>1. PICK status \in Status : CallAppend(c, status, observed[c], effective(c))
      BY <1>7 DEF CallbackReturns, CallbackThrows, FinalStatus, Status
    <2>2. observed[c] \in Decision /\ effective(c) \in Decision
      BY EffectiveType DEF TypeOK
    <2>3. /\ append' \in [Caller -> Append_]
          /\ AppendHoldsEvent'
          /\ overlapped' \in BOOLEAN
      BY <2>1, <2>2, AuditPart, CallAppendShape DEF AppendHoldsEvent
    <2>4. AuditTypeOK'
      BY <1>7, <2>3 DEF CallbackReturns, CallbackThrows, TypeOK, AuditTypeOK, Append_
    <2>5. phase' \in [Caller -> Phase] /\ callback' \in [Caller -> {"none", "returned", "threw"}]
      BY <1>7 DEF CallbackReturns, CallbackThrows, TypeOK, Goto, Phase
    <2> QED
      BY <1>7, <2>3, <2>4, <2>5 DEF CallbackReturns, CallbackThrows, TypeOK
  <1>8. ASSUME NEW c \in Caller, Closed(c)
        PROVE  TypeInv'
    BY <1>8, ReturnType, EffectiveType DEF Closed, Result
  <1>9. ASSUME NEW c \in Caller, Failed(c)
        PROVE  TypeInv'
    BY <1>9, ReturnType, EffectiveType DEF Failed, Result
  <1>10. ASSUME NEW c \in Caller, MutateArgs(c)
         PROVE  TypeInv'
    <2>1. AuditTypeOK'
      BY <1>10 DEF MutateArgs, TypeOK, AuditTypeOK
    <2> QED
      BY <1>10, <2>1 DEF MutateArgs, TypeOK, AppendHoldsEvent
  <1>11. CASE ProcessStops
    <2>1. append' \in [Caller -> Append_] /\ AppendHoldsEvent'
      BY <1>11, NoAppendType DEF ProcessStops, AppendHoldsEvent
    <2>2. AuditTypeOK'
      BY <1>11, <2>1 DEF ProcessStops, TypeOK, AuditTypeOK, Append_
    <2>3. phase' \in [Caller -> Phase]
      BY <1>11 DEF ProcessStops, TypeOK, Phase
    <2> QED
      BY <1>11, <2>1, <2>2, <2>3 DEF ProcessStops, TypeOK
  <1>12. CASE UNCHANGED vars
    BY <1>12 DEF vars, auditVars, sdkVars, TypeOK, AuditTypeOK, AppendHoldsEvent
  <1> QED
    BY <1>2, <1>3, <1>4, <1>5, <1>6, <1>7, <1>8, <1>9, <1>10, <1>11, <1>12 DEF Next, SdkStep

(* The type invariant, with what an outstanding append holds.              *)
LEMMA TypeInvariant == Spec => []TypeInv
  BY InitType, TypeStep, PTL DEF Spec

(* The state always has its type: an outstanding append carries a complete *)
(* event, an open last line is a line, and every result is well formed.    *)
THEOREM TypeCorrect == Spec => []TypeOK
  BY TypeInvariant, PTL DEF TypeInv

-----------------------------------------------------------------------------
(* One decision per call.                                                  *)

(* The events of a call, outstanding and acknowledged, carry the decision  *)
(* the call was made under; a call that was not made has none.             *)
DecisionInv ==
    /\ \A c \in Caller :
          /\ phase[c] = "idle" => append[c].pc = "idle"
          /\ append[c].pc # "idle" =>
                /\ append[c].ev.caller = c
                /\ append[c].ev.observed = observed[c]
                /\ append[c].ev.decision = effective(c)
    /\ \A ev \in acked :
          /\ phase[ev.caller] # "idle"
          /\ ev.observed = observed[ev.caller]
          /\ ev.decision = effective(ev.caller)

(* No event carries a decision at first.                                   *)
LEMMA DecisionInit == Init => DecisionInv
  BY NoAppendType DEF Init, AuditInit, DecisionInv

(* A step that leaves the decisions alone, calls no call back to idle, and *)
(* starts an append only under the call's decision.                        *)
LEMMA DecisionKept ==
    ASSUME TypeInv, DecisionInv, UNCHANGED <<mode, observed, acked>>,
           \A c \in Caller : phase'[c] = "idle" =>
               phase[c] = "idle" /\ (append'[c] = append[c] \/ append'[c].pc = "idle"),
           \A c \in Caller : \/ append'[c] = append[c]
                             \/ append'[c].pc = "idle"
                             \/ /\ append'[c].ev.caller = c
                                /\ append'[c].ev.observed = observed[c]
                                /\ append'[c].ev.decision = effective(c)
    PROVE  DecisionInv'
  <1>1. \A ev \in acked : ev.caller \in Caller
    BY DEF TypeInv, TypeOK, AuditTypeOK, Event
  <1> QED
    BY <1>1 DEF DecisionInv, effective

(* A step of an append leaves the event its decision.                      *)
LEMMA DecisionMoves ==
    ASSUME TypeInv, DecisionInv, NEW c \in Caller, AppendMovesOn(c)
    PROVE  DecisionInv'
  <1>1. AppendMoves(c) /\ UNCHANGED <<phase, observed, mode>>
    BY DEF AppendMovesOn, sdkVars
  <1>2. PICK next \in Append_ :
            /\ append' = [append EXCEPT ![c] = next]
            /\ next.ev.caller = append[c].ev.caller
            /\ next.ev.observed = append[c].ev.observed
            /\ next.ev.decision = append[c].ev.decision
            /\ acked' \in {acked, acked \cup {next.ev}}
    BY <1>1 DEF AppendMoves
  <1>3. /\ phase[c] # "idle"
        /\ next.ev.caller = c
        /\ next.ev.observed = observed[c]
        /\ next.ev.decision = effective(c)
    BY <1>1, <1>2 DEF AppendMoves, DecisionInv
  <1>4. append \in [Caller -> Append_]
    BY DEF TypeInv, TypeOK, AuditTypeOK, Append_
  <1> QED
    BY <1>1, <1>2, <1>3, <1>4 DEF DecisionInv, effective

(* Every step keeps DecisionInv.                                           *)
LEMMA DecisionStep == TypeInv /\ DecisionInv /\ [Next]_vars => DecisionInv'
  <1> SUFFICES ASSUME TypeInv, DecisionInv, [Next]_vars PROVE DecisionInv'
    OBVIOUS
  <1>1. /\ append \in [Caller -> Append_]
        /\ phase \in [Caller -> Phase]
        /\ observed \in [Caller -> Decision]
        /\ \A ev \in acked : ev.caller \in Caller
    BY DEF TypeInv, TypeOK, AuditTypeOK, Append_, Event
  <1>2. ASSUME NEW c \in Caller, EnforceToolCall(c)
        PROVE  DecisionInv'
    <2> DEFINE seen == Policy[args[c]]
               decision == EffectiveDecision(mode, seen)
    <2>1. seen \in Decision /\ decision \in Decision
      BY SdkNodeAssumption, DecisionType DEF TypeInv, TypeOK, AuditTypeOK
    <2>2. FirstStatus(decision) \in Status
      BY <2>1 DEF FirstStatus, Status, Decision, Permits
    <2>3. /\ phase[c] = "idle"
          /\ CallAppend(c, FirstStatus(decision), seen, decision)
          /\ \A d \in Caller : phase'[d] = IF d = c THEN phase'[c] ELSE phase[d]
          /\ phase'[c] # "idle"
          /\ \A d \in Caller : observed'[d] = IF d = c THEN seen ELSE observed[d]
          /\ UNCHANGED <<acked, mode>>
      BY <1>1, <1>2 DEF EnforceToolCall, Goto
    <2>4. /\ append'[c].ev.caller = c
          /\ append'[c].ev.observed = seen
          /\ append'[c].ev.decision = decision
          /\ \A d \in Caller \ {c} : append'[d] = append[d]
      BY <1>1, <2>3 DEF CallAppend
    <2> HIDE DEF seen
    <2>5. ASSUME NEW d \in Caller
          PROVE  /\ phase'[d] = "idle" => append'[d].pc = "idle"
                 /\ append'[d].pc # "idle" =>
                       /\ append'[d].ev.caller = d
                       /\ append'[d].ev.observed = observed'[d]
                       /\ append'[d].ev.decision = effective(d)'
      <3>1. CASE d = c
        BY <2>3, <2>4, <3>1 DEF effective
      <3>2. CASE d # c
        BY <2>3, <2>4, <3>2 DEF effective, DecisionInv
      <3> QED
        BY <3>1, <3>2
    <2>6. ASSUME NEW ev \in acked
          PROVE  /\ phase'[ev.caller] # "idle"
                 /\ ev.observed = observed'[ev.caller]
                 /\ ev.decision = effective(ev.caller)'
      <3>1. ev.caller \in Caller /\ ev.caller # c
        BY <1>1, <2>3 DEF DecisionInv
      <3> QED
        BY <2>3, <3>1 DEF effective, DecisionInv
    <2> QED
      BY <2>3, <2>5, <2>6 DEF DecisionInv
  <1>3. ASSUME NEW c \in Caller, AuditStep(c)
        PROVE  DecisionInv'
    BY <1>3, MovesShape, DecisionMoves
  <1>4. ASSUME NEW c \in Caller, NEW r, phase[c] # "idle", Return(c, r)
        PROVE  DecisionInv'
    BY <1>1, <1>4, NoAppendType, DecisionKept DEF Return, Goto
  <1>5. ASSUME NEW c \in Caller, EnterCallback(c)
        PROVE  DecisionInv'
    BY <1>1, <1>5, NoAppendType, DecisionKept DEF EnterCallback, Goto
  <1>6. ASSUME NEW c \in Caller, CallbackReturns(c) \/ CallbackThrows(c)
        PROVE  DecisionInv'
    BY <1>1, <1>6, DecisionKept DEF CallbackReturns, CallbackThrows, CallAppend, Goto
  <1>7. ASSUME NEW c \in Caller, MutateArgs(c)
        PROVE  DecisionInv'
    BY <1>7, DecisionKept DEF MutateArgs
  <1>8. CASE ProcessStops
    BY <1>8, NoAppendType, DecisionKept DEF ProcessStops, InProcess
  <1>9. CASE UNCHANGED vars
    BY <1>9, DecisionKept DEF vars, auditVars, sdkVars
  <1>10. ASSUME NEW c \in Caller, Refused(c) \/ EvidenceFails(c) \/ Closed(c) \/ Failed(c)
         PROVE  DecisionInv'
    <2>1. phase[c] # "idle" /\ \E r : Return(c, r)
      BY <1>10 DEF Refused, EvidenceFails, Closed, Failed
    <2> QED
      BY <1>4, <2>1
  <1> QED
    BY <1>2, <1>3, <1>5, <1>6, <1>7, <1>8, <1>9, <1>10 DEF Next, SdkStep

(* DecisionInv is an invariant.                                            *)
LEMMA DecisionInvariant == Spec => []DecisionInv
  BY DecisionInit, DecisionStep, TypeInvariant, PTL DEF Spec

(* The policy is consulted once per call: whatever calls run beside it,    *)
(* whatever the application does to its arguments and wherever a write     *)
(* fails, every acknowledged event of a call carries the same decision,    *)
(* and in observe mode no event is a refusal.                              *)
THEOREM DecisionsAgree == Spec => []OneDecisionPerCall
  <1>1. TypeInv /\ DecisionInv => OneDecisionPerCall
    BY DEF TypeInv, TypeOK, AuditTypeOK, Event, DecisionInv, OneDecisionPerCall,
           effective, EffectiveDecision, Decision, Permits
  <1> QED
    BY <1>1, DecisionInvariant, TypeInvariant, PTL

-----------------------------------------------------------------------------
(* The gate.                                                               *)

(* What is known on the way to the callback.  An append that resolved is   *)
(* acknowledged; a call that awaits its evidence was permitted, and the    *)
(* event it awaits is its decision_logged one.                             *)
GateInv ==
    /\ \A c \in Caller :
          /\ append[c].pc = "resolved" => append[c].ev \in acked
          /\ phase[c] = "evidence" =>
                /\ effective(c) \in Permits
                /\ append[c].pc # "idle"
                /\ append[c].ev.status = "decision_logged"
          /\ phase[c] \in {"idle", "refusing", "evidence"} => entered[c] = 0
    /\ ExecutionGate

(* No callback is entered at first.                                        *)
LEMMA GateInit == Init => GateInv
  BY NoAppendType DEF Init, AuditInit, GateInv, ExecutionGate

(* A step that leaves the decisions and the callbacks alone, forgets no    *)
(* acknowledgement, and lets no call into "evidence".                      *)
LEMMA GateKept ==
    ASSUME TypeInv, GateInv, UNCHANGED <<mode, observed, entered>>, acked \subseteq acked',
           \A c \in Caller :
               /\ phase'[c] \in {"idle", "refusing", "evidence"} => phase'[c] = phase[c]
               /\ append'[c].pc = "resolved" => append'[c].ev \in acked'
               /\ phase'[c] = "evidence" =>
                     /\ append'[c].pc # "idle"
                     /\ append'[c].ev.status = append[c].ev.status
    PROVE  GateInv'
  <1>1. ExecutionGate'
    BY DEF GateInv, ExecutionGate, Acked, effective
  <1>2. ASSUME NEW c \in Caller
        PROVE  /\ phase'[c] = "evidence" =>
                     effective(c)' \in Permits /\ append'[c].ev.status = "decision_logged"
               /\ phase'[c] \in {"idle", "refusing", "evidence"} => entered'[c] = 0
    BY DEF GateInv, effective
  <1> QED
    BY <1>1, <1>2 DEF GateInv

(* A step of an append acknowledges the event where the append resolves.   *)
LEMMA GateMoves ==
    ASSUME TypeInv, GateInv, NEW c \in Caller, AppendMovesOn(c)
    PROVE  GateInv'
  <1>1. AppendMoves(c) /\ UNCHANGED <<phase, observed, entered, mode>>
    BY DEF AppendMovesOn, sdkVars
  <1>2. PICK next \in Append_ :
            /\ next.pc # "idle"
            /\ append' = [append EXCEPT ![c] = next]
            /\ next.ev.status = append[c].ev.status
            /\ \/ next.pc = "resolved" /\ acked' = acked \cup {next.ev}
               \/ next.pc # "resolved" /\ acked' = acked
    BY <1>1 DEF AppendMoves
  <1>3. append \in [Caller -> Append_] /\ acked \subseteq acked'
    BY <1>2 DEF TypeInv, TypeOK, AuditTypeOK, Append_
  <1>4. ASSUME NEW d \in Caller
        PROVE  /\ append'[d].pc = "resolved" => append'[d].ev \in acked'
               /\ phase'[d] = "evidence" =>
                     /\ append'[d].pc # "idle"
                     /\ append'[d].ev.status = append[d].ev.status
    BY <1>1, <1>2, <1>3 DEF GateInv
  <1> QED
    BY <1>1, <1>3, <1>4, GateKept

(* Every step keeps GateInv.                                               *)
LEMMA GateStep == TypeInv /\ DecisionInv /\ GateInv /\ [Next]_vars => GateInv'
  <1> SUFFICES ASSUME TypeInv, DecisionInv, GateInv, [Next]_vars PROVE GateInv'
    OBVIOUS
  <1>1. /\ append \in [Caller -> Append_]
        /\ phase \in [Caller -> Phase]
        /\ observed \in [Caller -> Decision]
        /\ entered \in [Caller -> Nat]
    BY DEF TypeInv, TypeOK, AuditTypeOK, Append_
  <1>2. ASSUME NEW c \in Caller, EnforceToolCall(c)
        PROVE  GateInv'
    <2> DEFINE seen == Policy[args[c]]
               decision == EffectiveDecision(mode, seen)
    <2>1. /\ phase[c] = "idle"
          /\ entered[c] = 0
          /\ \A d \in Caller \ {c} : /\ phase'[d] = phase[d]
                                     /\ observed'[d] = observed[d]
                                     /\ append'[d] = append[d]
          /\ observed'[c] = seen
          /\ append'[c].pc = "mkdir"
          /\ append'[c].ev.status = FirstStatus(decision)
          /\ phase'[c] = IF decision \in Permits THEN "evidence" ELSE "refusing"
          /\ UNCHANGED <<mode, entered, acked>>
      BY <1>1, <1>2 DEF EnforceToolCall, Goto, CallAppend, GateInv
    <2>2. decision \in Permits => FirstStatus(decision) = "decision_logged"
      BY DEF FirstStatus, Permits
    <2> HIDE DEF seen
    <2>3. ExecutionGate'
      <3> SUFFICES ASSUME NEW d \in Caller, entered'[d] > 0
                   PROVE  /\ entered'[d] = 1
                          /\ effective(d)' \in Permits
                          /\ Acked(d, "decision_logged")'
        BY DEF ExecutionGate
      <3>1. d # c /\ entered[d] > 0
        BY <2>1
      <3> QED
        BY <2>1, <3>1 DEF GateInv, ExecutionGate, Acked, effective
    <2>4. ASSUME NEW d \in Caller
          PROVE  /\ append'[d].pc = "resolved" => append'[d].ev \in acked'
                 /\ phase'[d] = "evidence" =>
                       /\ effective(d)' \in Permits
                       /\ append'[d].pc # "idle"
                       /\ append'[d].ev.status = "decision_logged"
                 /\ phase'[d] \in {"idle", "refusing", "evidence"} => entered'[d] = 0
      <3>1. CASE d = c
        BY <2>1, <2>2, <3>1 DEF effective
      <3>2. CASE d # c
        BY <2>1, <3>2 DEF GateInv, effective
      <3> QED
        BY <3>1, <3>2
    <2> QED
      BY <2>3, <2>4 DEF GateInv
  <1>3. ASSUME NEW c \in Caller, AuditStep(c)
        PROVE  GateInv'
    BY <1>3, MovesShape, GateMoves
  <1>4. ASSUME NEW c \in Caller, EnterCallback(c)
        PROVE  GateInv'
    <2>1. /\ phase[c] = "evidence"
          /\ append[c].pc = "resolved"
          /\ phase' = [phase EXCEPT ![c] = "running"]
          /\ entered' = [entered EXCEPT ![c] = @ + 1]
          /\ append' = [append EXCEPT ![c] = NoAppend]
          /\ UNCHANGED <<acked, observed, mode>>
      BY <1>4 DEF EnterCallback, Goto
    <2>2. Acked(c, "decision_logged") /\ effective(c) \in Permits
      BY <2>1 DEF GateInv, DecisionInv, Acked
    <2>3. entered'[c] = 1 /\ \A d \in Caller \ {c} : entered'[d] = entered[d]
      BY <1>1, <2>1 DEF GateInv
    <2>4. ExecutionGate'
      BY <2>1, <2>2, <2>3 DEF GateInv, ExecutionGate, Acked, effective
    <2>5. ASSUME NEW d \in Caller
          PROVE  /\ append'[d].pc = "resolved" => append'[d].ev \in acked'
                 /\ phase'[d] = "evidence" =>
                       /\ effective(d)' \in Permits
                       /\ append'[d].pc # "idle"
                       /\ append'[d].ev.status = "decision_logged"
                 /\ phase'[d] \in {"idle", "refusing", "evidence"} => entered'[d] = 0
      BY <1>1, <2>1, <2>3, NoAppendType DEF GateInv, effective
    <2> QED
      BY <2>4, <2>5 DEF GateInv
  <1>5. ASSUME NEW c \in Caller, Refused(c) \/ EvidenceFails(c) \/ Closed(c) \/ Failed(c)
        PROVE  GateInv'
    <2>1. \E r : Return(c, r)
      BY <1>5 DEF Refused, EvidenceFails, Closed, Failed
    <2>2. /\ phase' = [phase EXCEPT ![c] = "returned"]
          /\ append' = [append EXCEPT ![c] = NoAppend]
          /\ UNCHANGED <<mode, observed, entered, acked>>
      BY <2>1 DEF Return, Goto
    <2> QED
      BY <1>1, <2>2, NoAppendType, GateKept DEF GateInv
  <1>6. ASSUME NEW c \in Caller, CallbackReturns(c) \/ CallbackThrows(c)
        PROVE  GateInv'
    BY <1>1, <1>6, GateKept DEF CallbackReturns, CallbackThrows, CallAppend, Goto, GateInv
  <1>7. ASSUME NEW c \in Caller, MutateArgs(c)
        PROVE  GateInv'
    BY <1>7, GateKept DEF MutateArgs, GateInv
  <1>8. CASE ProcessStops
    BY <1>8, NoAppendType, GateKept DEF ProcessStops, InProcess
  <1>9. CASE UNCHANGED vars
    BY <1>9, GateKept DEF vars, auditVars, sdkVars, GateInv
  <1> QED
    BY <1>2, <1>3, <1>4, <1>5, <1>6, <1>7, <1>8, <1>9 DEF Next, SdkStep

(* Evidence before execution: with any number of concurrent calls, any     *)
(* policy, any failing file operation and a crash anywhere, the callback   *)
(* is entered at most once, only under an effective allow or log_only, and *)
(* only after the call's own decision_logged event was acknowledged.       *)
THEOREM GateHolds == Spec => []ExecutionGate
  <1>1. Spec => []GateInv
    BY DecisionInvariant, GateInit, GateStep, TypeInvariant, PTL DEF Spec
  <1> QED
    BY <1>1, PTL DEF GateInv

-----------------------------------------------------------------------------
(* The audit log replays.                                                  *)

(* While the application leaves the arguments of a call alone, they are    *)
(* the ones the policy was evaluated on and the ones in the call's events. *)
ReplayInv ==
    /\ \A c \in Caller \ touched :
          /\ phase[c] # "idle" => Policy[args[c]] = observed[c]
          /\ append[c].pc # "idle" => append[c].ev.args = args[c]
    /\ UntouchedCallsReplay

(* No event holds arguments at first.                                      *)
LEMMA ReplayInit == Init => ReplayInv
  BY NoAppendType DEF Init, AuditInit, ReplayInv, UntouchedCallsReplay

(* A step that acknowledges nothing, changes arguments only of calls it    *)
(* puts among the touched ones, and starts no append with other arguments. *)
LEMMA ReplayKept ==
    ASSUME ReplayInv, acked' = acked, observed' = observed, touched \subseteq touched',
           \A c \in Caller \ touched' : args'[c] = args[c],
           \A c \in Caller : phase'[c] # "idle" => phase[c] # "idle",
           \A c \in Caller : \/ append'[c] = append[c]
                             \/ append'[c].pc = "idle"
                             \/ append'[c].ev.args = args[c]
    PROVE  ReplayInv'
  BY DEF ReplayInv, UntouchedCallsReplay

(* Every step keeps ReplayInv.                                             *)
LEMMA ReplayStep == TypeInv /\ DecisionInv /\ ReplayInv /\ [Next]_vars => ReplayInv'
  <1> SUFFICES ASSUME TypeInv, DecisionInv, ReplayInv, [Next]_vars PROVE ReplayInv'
    OBVIOUS
  <1>1. /\ append \in [Caller -> Append_]
        /\ phase \in [Caller -> Phase]
        /\ observed \in [Caller -> Decision]
        /\ args \in [Caller -> Input]
        /\ touched \subseteq Caller
    BY DEF TypeInv, TypeOK, AuditTypeOK, Append_
  <1>2. ASSUME NEW c \in Caller, EnforceToolCall(c)
        PROVE  ReplayInv'
    <2> DEFINE seen == Policy[args[c]]
    <2>1. /\ \A d \in Caller \ {c} : /\ phase'[d] = phase[d]
                                     /\ observed'[d] = observed[d]
                                     /\ append'[d] = append[d]
          /\ observed'[c] = seen
          /\ append'[c].ev.args = args[c]
          /\ UNCHANGED <<args, acked, touched>>
      BY <1>1, <1>2 DEF EnforceToolCall, Goto, CallAppend
    <2>2. UntouchedCallsReplay'
      BY <2>1 DEF ReplayInv, UntouchedCallsReplay
    <2> QED
      BY <2>1, <2>2 DEF ReplayInv
  <1>3. ASSUME NEW c \in Caller, AuditStep(c)
        PROVE  ReplayInv'
    <2>1. AppendMoves(c) /\ UNCHANGED <<phase, observed, touched>>
      BY <1>3, AuditPart, AppendStepShape DEF AuditStep, sdkVars
    <2>2. PICK next \in Append_ :
              /\ append' = [append EXCEPT ![c] = next]
              /\ next.ev.caller = append[c].ev.caller
              /\ next.ev.observed = append[c].ev.observed
              /\ next.ev.args \in {append[c].ev.args, args[c]}
              /\ acked' \in {acked, acked \cup {next.ev}}
      BY <2>1 DEF AppendMoves
    <2>3. /\ phase[c] # "idle"
          /\ append[c].pc # "idle"
          /\ next.ev.caller = c
          /\ next.ev.observed = observed[c]
          /\ args' = args
      BY <2>1, <2>2 DEF AppendMoves, DecisionInv
    <2>4. c \notin touched => next.ev.args = args[c] /\ Policy[args[c]] = observed[c]
      BY <2>2, <2>3 DEF ReplayInv
    <2>5. UntouchedCallsReplay'
      BY <2>1, <2>2, <2>3, <2>4 DEF ReplayInv, UntouchedCallsReplay
    <2> QED
      BY <1>1, <2>1, <2>2, <2>3, <2>4, <2>5 DEF ReplayInv
  <1>4. ASSUME NEW c \in Caller, Refused(c) \/ EvidenceFails(c) \/ Closed(c) \/ Failed(c)
        PROVE  ReplayInv'
    <2>1. phase[c] # "idle" /\ \E r : Return(c, r)
      BY <1>4 DEF Refused, EvidenceFails, Closed, Failed
    <2> QED
      BY <1>1, <2>1, NoAppendType, ReplayKept DEF Return, Goto
  <1>5. ASSUME NEW c \in Caller, EnterCallback(c)
        PROVE  ReplayInv'
    BY <1>1, <1>5, NoAppendType, ReplayKept DEF EnterCallback, Goto
  <1>6. ASSUME NEW c \in Caller, CallbackReturns(c) \/ CallbackThrows(c)
        PROVE  ReplayInv'
    BY <1>1, <1>6, ReplayKept DEF CallbackReturns, CallbackThrows, CallAppend, Goto
  <1>7. ASSUME NEW c \in Caller, MutateArgs(c)
        PROVE  ReplayInv'
    BY <1>1, <1>7, ReplayKept DEF MutateArgs
  <1>8. CASE ProcessStops
    BY <1>8, NoAppendType, ReplayKept DEF ProcessStops, InProcess
  <1>9. CASE UNCHANGED vars
    BY <1>9, ReplayKept DEF vars, auditVars, sdkVars
  <1> QED
    BY <1>2, <1>3, <1>4, <1>5, <1>6, <1>7, <1>8, <1>9 DEF Next, SdkStep

(* The audit log replays: where the application leaves a call's arguments  *)
(* alone while the call runs, evaluating the policy on the arguments in    *)
(* any acknowledged event of it gives the decision in that event, although *)
(* they are copied after the evaluation and after an await.                *)
THEOREM EventsReplay == Spec => []UntouchedCallsReplay
  <1>1. Spec => []ReplayInv
    BY DecisionInvariant, ReplayInit, ReplayStep, TypeInvariant, PTL DEF Spec
  <1> QED
    BY <1>1, PTL DEF ReplayInv

-----------------------------------------------------------------------------
(* Where a call and its record are.                                        *)

Endings == {"executed", "logged", "failed"}

Refusals == {"blocked", "pending_approval"}

(* What the record says of a call in each phase.  The append a call awaits *)
(* decides whether its decision (in "evidence") or its outcome (when it is *)
(* refused or its callback has ended) is on record, and the event it       *)
(* awaits is of its phase.                                                 *)
RecordInv ==
    \A c \in Caller :
        /\ phase[c] \in {"idle", "refusing"} => c \notin Attested
        /\ phase[c] = "evidence" => (c \in Attested <=> append[c].pc = "resolved")
        /\ phase[c] \in {"idle", "evidence", "running"} => c \notin Recorded
        /\ phase[c] \in {"running", "returned", "lost"} => append[c].pc = "idle"
        /\ phase[c] \in {"refusing", "closing", "failing"} =>
              (c \in Recorded <=> append[c].pc = "resolved")
        /\ phase[c] = "refusing" => append[c].ev.status \in Refusals
        /\ phase[c] = "closing" => append[c].ev.status \in {"executed", "logged"}
        /\ phase[c] = "failing" => append[c].ev.status = "failed"

Honest(c) ==
    LET r == result[c]
    IN  /\ r.executed <=> entered[c] = 1
        /\ r.ok => callback[c] = "returned" /\ ~r.auditFailed
        /\ r.data <=> callback[c] = "returned"
        /\ r.error = "callback" <=> callback[c] = "threw"
        /\ ~r.auditFailed => \E status \in Status \ {"decision_logged"} : Acked(c, status)

(* What a result says: it is honest, it names the decision, and an ok one  *)
(* is backed by an acknowledged event that the callback ran.               *)
Told(c) ==
    /\ Honest(c)
    /\ result[c].decision = effective(c)
    /\ result[c].ok => /\ result[c].executed
                       /\ \E status \in {"executed", "logged"} : Acked(c, status)

ToldInv == \A c \in Caller : (phase[c] = "returned" /\ result[c] # NoResult) => Told(c)

(* What has happened to a call in each phase, and what it was told.        *)
OutcomeInv ==
    /\ \A c \in Caller :
          /\ phase[c] = "refusing" => effective(c) \notin Permits
          /\ phase[c] \in {"running", "closing", "failing"} => entered[c] = 1
          /\ phase[c] \in {"idle", "refusing", "evidence", "running"} => callback[c] = "none"
          /\ phase[c] = "closing" => callback[c] = "returned"
          /\ phase[c] = "failing" => callback[c] = "threw"
          /\ phase[c] # "returned" => result[c] = NoResult
    /\ ToldInv

KnownInv == TypeInv /\ DecisionInv /\ GateInv

(* What is known of a call, whether or not an exception can leave it       *)
(* without a result.                                                       *)
CallInv == KnownInv /\ RecordInv /\ OutcomeInv

-----------------------------------------------------------------------------
(* How the record changes.                                                 *)

(* An append that resolves puts its call on record, and no other call.     *)
LEMMA RecordGrows ==
    ASSUME NEW c \in Caller, NEW ev, ev.caller = c, acked' = acked \cup {ev}
    PROVE  /\ ev.status = "decision_logged" =>
                 Attested' = Attested \cup {c} /\ Recorded' = Recorded
           /\ ev.status # "decision_logged" =>
                 Attested' = Attested /\ Recorded' = Recorded \cup {c}
  BY DEF Attested, Recorded

(* A step that acknowledges nothing leaves the record alone.               *)
LEMMA RecordStays == acked' = acked => Attested' = Attested /\ Recorded' = Recorded
  BY DEF Attested, Recorded

(* Nothing is on record at first.                                          *)
LEMMA RecordInit == Init => RecordInv
  <1> SUFFICES ASSUME Init PROVE RecordInv
    OBVIOUS
  <1>1. Attested = {} /\ Recorded = {}
    BY DEF Init, AuditInit, Attested, Recorded
  <1> QED
    BY <1>1 DEF Init, RecordInv

(* A step of an append puts the call on record where the append resolves.  *)
LEMMA RecordMoves ==
    ASSUME KnownInv, RecordInv, NEW c \in Caller, AppendMovesOn(c)
    PROVE  RecordInv'
  <1>1. /\ append \in [Caller -> Append_]
        /\ phase \in [Caller -> Phase]
    BY DEF KnownInv, TypeInv, TypeOK, AuditTypeOK, Append_
  <1>2. AppendMoves(c) /\ phase' = phase
    BY DEF AppendMovesOn, sdkVars
  <1>3. PICK next \in Append_ :
            /\ append' = [append EXCEPT ![c] = next]
            /\ next.ev.caller = append[c].ev.caller
            /\ next.ev.status = append[c].ev.status
            /\ \/ next.pc = "resolved" /\ acked' = acked \cup {next.ev}
               \/ next.pc # "resolved" /\ acked' = acked
    BY <1>2 DEF AppendMoves
  <1>4. /\ append[c].pc \in {"mkdir", "read", "write"}
        /\ next.ev.caller = c
    BY <1>2, <1>3 DEF AppendMoves, KnownInv, DecisionInv
  <1>5. phase[c] \in {"refusing", "evidence", "closing", "failing"}
    BY <1>1, <1>4 DEF RecordInv, KnownInv, DecisionInv, Phase
  <1>6. /\ phase[c] = "evidence" => next.ev.status = "decision_logged"
        /\ phase[c] # "evidence" => next.ev.status # "decision_logged"
    BY <1>3, <1>5 DEF KnownInv, GateInv, RecordInv, Refusals
  <1>7. CASE next.pc # "resolved"
    BY <1>1, <1>2, <1>3, <1>4, <1>7, RecordStays DEF RecordInv
  <1>8. CASE next.pc = "resolved"
    <2>1. /\ next.ev.status = "decision_logged" =>
                Attested' = Attested \cup {c} /\ Recorded' = Recorded
          /\ next.ev.status # "decision_logged" =>
                Attested' = Attested /\ Recorded' = Recorded \cup {c}
      BY <1>3, <1>4, <1>8, RecordGrows
    <2>2. \A d \in Caller \ {c} : append'[d] = append[d]
      BY <1>1, <1>3
    <2>3. append'[c] = next
      BY <1>1, <1>3
    <2> QED
      BY <1>2, <1>3, <1>5, <1>6, <1>8, <2>1, <2>2, <2>3 DEF RecordInv
  <1> QED
    BY <1>7, <1>8

(* Every step keeps RecordInv.                                             *)
LEMMA RecordStep == KnownInv /\ OutcomeInv /\ RecordInv /\ [Next]_vars => RecordInv'
  <1> SUFFICES ASSUME KnownInv, OutcomeInv, RecordInv, [Next]_vars PROVE RecordInv'
    OBVIOUS
  <1>1. /\ append \in [Caller -> Append_]
        /\ phase \in [Caller -> Phase]
        /\ acked \subseteq Event
    BY DEF KnownInv, TypeInv, TypeOK, AuditTypeOK, Append_
  <1>2. ASSUME NEW c \in Caller, EnforceToolCall(c)
        PROVE  RecordInv'
    <2> DEFINE decision == EffectiveDecision(mode, Policy[args[c]])
    <2>1. /\ phase[c] = "idle"
          /\ \A d \in Caller \ {c} : phase'[d] = phase[d] /\ append'[d] = append[d]
          /\ append'[c].pc = "mkdir"
          /\ append'[c].ev.status = FirstStatus(decision)
          /\ phase'[c] = IF decision \in Permits THEN "evidence" ELSE "refusing"
          /\ Attested' = Attested /\ Recorded' = Recorded
      BY <1>1, <1>2, RecordStays DEF EnforceToolCall, Goto, CallAppend
    <2>2. decision \in Decision
      BY SdkNodeAssumption, DecisionType DEF KnownInv, TypeInv, TypeOK, AuditTypeOK
    <2>3. decision \notin Permits => FirstStatus(decision) \in Refusals
      BY <2>2 DEF FirstStatus, Permits, Decision, Refusals
    <2> HIDE DEF decision
    <2> QED
      BY <2>1, <2>3 DEF RecordInv
  <1>3. ASSUME NEW c \in Caller, AuditStep(c)
        PROVE  RecordInv'
    BY <1>3, MovesShape, RecordMoves DEF KnownInv
  <1>4. ASSUME NEW c \in Caller, EnterCallback(c)
        PROVE  RecordInv'
    BY <1>1, <1>4, RecordStays, NoAppendType DEF EnterCallback, Goto, RecordInv
  <1>5. ASSUME NEW c \in Caller, CallbackReturns(c) \/ CallbackThrows(c)
        PROVE  RecordInv'
    <2>1. /\ phase[c] = "running"
          /\ \/ phase'[c] = "closing" /\ append'[c].ev.status = FinalStatus(effective(c))
             \/ phase'[c] = "failing" /\ append'[c].ev.status = "failed"
          /\ \A d \in Caller \ {c} : phase'[d] = phase[d] /\ append'[d] = append[d]
          /\ append'[c].pc = "mkdir"
          /\ Attested' = Attested /\ Recorded' = Recorded
      BY <1>1, <1>5, RecordStays DEF CallbackReturns, CallbackThrows, CallAppend, Goto
    <2> QED
      BY <2>1 DEF RecordInv, FinalStatus
  <1>6. ASSUME NEW c \in Caller, Refused(c) \/ EvidenceFails(c) \/ Closed(c) \/ Failed(c)
        PROVE  RecordInv'
    <2>1. \E r : Return(c, r)
      BY <1>6 DEF Refused, EvidenceFails, Closed, Failed
    <2> QED
      BY <1>1, <2>1, RecordStays, NoAppendType DEF Return, Goto, RecordInv
  <1>7. ASSUME NEW c \in Caller, MutateArgs(c)
        PROVE  RecordInv'
    BY <1>7, RecordStays DEF MutateArgs, RecordInv
  <1>8. CASE ProcessStops
    BY <1>8, RecordStays, NoAppendType DEF ProcessStops, InProcess, RecordInv
  <1>9. CASE UNCHANGED vars
    BY <1>9, RecordStays DEF vars, auditVars, sdkVars, RecordInv
  <1> QED
    BY <1>2, <1>3, <1>4, <1>5, <1>6, <1>7, <1>8, <1>9 DEF Next, SdkStep

-----------------------------------------------------------------------------
(* What a caller is told.                                                  *)

(* No call has an outcome at first.                                        *)
LEMMA OutcomeInit == Init => OutcomeInv
  BY DEF Init, AuditInit, OutcomeInv, ToldInv

(* A recorded call has an acknowledged outcome event with its decision.    *)
LEMMA RecordedIsAcked ==
    ASSUME KnownInv, NEW c \in Recorded
    PROVE  \E status \in Status \ {"decision_logged"} : Acked(c, status)
  BY DEF KnownInv, TypeInv, TypeOK, AuditTypeOK, Event, DecisionInv, Recorded, Acked

(* A step that lets no call return keeps the calls that did as they were.  *)
LEMMA ToldKept ==
    ASSUME OutcomeInv, UNCHANGED <<mode, result>>, acked \subseteq acked',
           \A c \in Caller : (phase'[c] = "returned" /\ result[c] # NoResult) =>
               /\ phase[c] = "returned"
               /\ observed'[c] = observed[c]
               /\ entered'[c] = entered[c]
               /\ callback'[c] = callback[c]
    PROVE  ToldInv'
  <1> SUFFICES ASSUME NEW c \in Caller, phase'[c] = "returned", result'[c] # NoResult
               PROVE  Told(c)'
    BY DEF ToldInv
  <1>1. Told(c)
    BY DEF OutcomeInv, ToldInv
  <1>2. effective(c)' = effective(c) /\ \A status : Acked(c, status) => Acked(c, status)'
    BY DEF Acked, effective
  <1> QED
    BY <1>1, <1>2 DEF Told, Honest

(* A step of an append changes nothing but the record.                     *)
LEMMA OutcomeMoves ==
    ASSUME OutcomeInv, NEW c \in Caller, AppendMovesOn(c)
    PROVE  OutcomeInv'
  <1>1. UNCHANGED sdkVars /\ acked \subseteq acked'
    BY DEF AppendMovesOn, AppendMoves
  <1>2. ToldInv'
    BY <1>1, ToldKept DEF sdkVars
  <1> QED
    BY <1>1, <1>2 DEF sdkVars, OutcomeInv, effective

(* Every step keeps OutcomeInv.                                            *)
LEMMA OutcomeStep == KnownInv /\ RecordInv /\ OutcomeInv /\ [Next]_vars => OutcomeInv'
  <1> SUFFICES ASSUME KnownInv, RecordInv, OutcomeInv, [Next]_vars PROVE OutcomeInv'
    OBVIOUS
  <1>1. /\ append \in [Caller -> Append_]
        /\ phase \in [Caller -> Phase]
        /\ observed \in [Caller -> Decision]
        /\ entered \in [Caller -> Nat]
        /\ callback \in [Caller -> {"none", "returned", "threw"}]
        /\ result \in [Caller -> Result \cup {NoResult}]
    BY DEF KnownInv, TypeInv, TypeOK, AuditTypeOK, Append_
  <1>2. ASSUME NEW c \in Caller, EnforceToolCall(c)
        PROVE  OutcomeInv'
    <2> DEFINE seen == Policy[args[c]]
               decision == EffectiveDecision(mode, seen)
    <2>1. /\ phase[c] = "idle"
          /\ \A d \in Caller \ {c} : phase'[d] = phase[d] /\ observed'[d] = observed[d]
          /\ observed'[c] = seen
          /\ phase'[c] = IF decision \in Permits THEN "evidence" ELSE "refusing"
          /\ UNCHANGED <<mode, entered, callback, result, acked>>
      BY <1>1, <1>2 DEF EnforceToolCall, Goto
    <2> HIDE DEF seen
    <2>2. ToldInv'
      BY <2>1, ToldKept DEF OutcomeInv
    <2> QED
      BY <2>1, <2>2 DEF OutcomeInv, effective
  <1>3. ASSUME NEW c \in Caller, AuditStep(c)
        PROVE  OutcomeInv'
    BY <1>3, MovesShape, OutcomeMoves DEF KnownInv
  <1>4. ASSUME NEW c \in Caller, EnterCallback(c)
        PROVE  OutcomeInv'
    <2>1. /\ phase[c] = "evidence"
          /\ phase' = [phase EXCEPT ![c] = "running"]
          /\ entered' = [entered EXCEPT ![c] = @ + 1]
          /\ UNCHANGED <<acked, observed, mode, callback, result>>
      BY <1>4 DEF EnterCallback, Goto
    <2>2. entered'[c] = 1 /\ \A d \in Caller \ {c} : entered'[d] = entered[d]
      BY <1>1, <2>1 DEF KnownInv, GateInv
    <2>3. ToldInv'
      BY <1>1, <2>1, <2>2, ToldKept DEF OutcomeInv
    <2> QED
      BY <1>1, <2>1, <2>2, <2>3 DEF OutcomeInv, effective
  <1>5. ASSUME NEW c \in Caller, CallbackReturns(c) \/ CallbackThrows(c)
        PROVE  OutcomeInv'
    <2>1. /\ phase[c] = "running"
          /\ \/ /\ phase' = [phase EXCEPT ![c] = "closing"]
                /\ callback' = [callback EXCEPT ![c] = "returned"]
             \/ /\ phase' = [phase EXCEPT ![c] = "failing"]
                /\ callback' = [callback EXCEPT ![c] = "threw"]
          /\ UNCHANGED <<acked, observed, mode, entered, result>>
      BY <1>5 DEF CallbackReturns, CallbackThrows, Goto
    <2>2. ToldInv'
      BY <1>1, <2>1, ToldKept DEF OutcomeInv
    <2> QED
      BY <1>1, <2>1, <2>2 DEF OutcomeInv, effective
  <1>6. ASSUME NEW c \in Caller, NEW r \in Result, Return(c, r), Told(c)'
        PROVE  OutcomeInv'
    <2>1. /\ phase' = [phase EXCEPT ![c] = "returned"]
          /\ result' = [result EXCEPT ![c] = r]
          /\ UNCHANGED <<acked, observed, mode, entered, callback>>
      BY <1>6 DEF Return, Goto
    <2>2. ASSUME NEW d \in Caller, d # c, phase'[d] = "returned",
                 result'[d] # NoResult
          PROVE  Told(d)'
      <3>1. phase[d] = "returned" /\ result[d] # NoResult
        BY <1>1, <2>1, <2>2
      <3>2. Told(d) /\ result'[d] = result[d]
        BY <1>1, <2>1, <2>2, <3>1 DEF OutcomeInv, ToldInv
      <3> QED
        BY <2>1, <3>2 DEF Told, Honest, Acked, effective
    <2>3. ToldInv'
      BY <1>6, <2>2 DEF ToldInv
    <2> QED
      BY <1>1, <2>1, <2>3 DEF OutcomeInv, effective
  <1>7. ASSUME NEW c \in Caller, NEW r \in Result, Return(c, r)
        PROVE  /\ result'[c] = r
               /\ UNCHANGED <<entered, callback, acked, observed, mode>>
    BY <1>1, <1>7 DEF Return
  <1>8. ASSUME NEW c \in Caller, append[c].pc = "resolved", phase[c] \in {"refusing", "closing", "failing"},
               UNCHANGED <<acked, observed, mode>>
        PROVE  \E status \in Status \ {"decision_logged"} : Acked(c, status)'
    <2>1. c \in Recorded
      BY <1>8 DEF RecordInv
    <2> QED
      BY <1>8, <2>1, RecordedIsAcked DEF Acked, effective
  <1>9. ASSUME NEW c \in Caller, Refused(c)
        PROVE  OutcomeInv'
    <2> DEFINE failed == append[c].pc = "rejected"
               r == [ok |-> FALSE, decision |-> effective(c), executed |-> FALSE,
                     auditFailed |-> failed, data |-> FALSE,
                     error |-> IF failed THEN "audit" ELSE "none"]
    <2>1. /\ phase[c] = "refusing"
          /\ append[c].pc \in {"resolved", "rejected"}
          /\ Return(c, r)
      BY <1>9 DEF Refused
    <2>2. r \in Result
      BY EffectiveType DEF Result, KnownInv
    <2>3. entered[c] = 0 /\ callback[c] = "none"
      BY <2>1 DEF KnownInv, GateInv, OutcomeInv
    <2>4. /\ result'[c] = r
          /\ entered'[c] = entered[c]
          /\ callback'[c] = callback[c]
      BY <1>7, <2>1, <2>2
    <2>5. append[c].pc = "resolved" =>
              \E status \in Status \ {"decision_logged"} : Acked(c, status)'
      BY <1>7, <1>8, <2>1, <2>2
    <2>6. /\ ~result'[c].ok /\ ~result'[c].executed /\ ~result'[c].data
          /\ result'[c].error # "callback"
          /\ ~result'[c].auditFailed => append[c].pc = "resolved"
      <3>1. r.auditFailed <=> append[c].pc = "rejected"
        OBVIOUS
      <3>2. ~r.ok /\ ~r.executed /\ ~r.data /\ r.error # "callback"
        BY <2>1
      <3> QED
        BY <2>1, <2>4, <3>1, <3>2
    <2>7. Honest(c)'
      BY <2>3, <2>4, <2>5, <2>6 DEF Honest
    <2>8. result'[c].decision = effective(c)'
      BY <1>7, <2>1, <2>2, <2>4 DEF effective
    <2>9. Told(c)'
      BY <2>6, <2>7, <2>8 DEF Told
    <2> QED
      BY <1>6, <2>1, <2>2, <2>9
  <1>10. ASSUME NEW c \in Caller, EvidenceFails(c)
         PROVE  OutcomeInv'
    <2> DEFINE r == [ok |-> FALSE, decision |-> effective(c), executed |-> FALSE,
                     auditFailed |-> TRUE, data |-> FALSE, error |-> "audit"]
    <2>1. phase[c] = "evidence" /\ Return(c, r)
      BY <1>10 DEF EvidenceFails
    <2>2. r \in Result
      BY EffectiveType DEF Result, KnownInv
    <2>3. entered[c] = 0 /\ callback[c] = "none"
      BY <2>1 DEF KnownInv, GateInv, OutcomeInv
    <2>4. Honest(c)'
      BY <1>7, <2>1, <2>2, <2>3 DEF Honest
    <2>5. result'[c].decision = effective(c)' /\ ~result'[c].ok
      BY <1>7, <2>1, <2>2 DEF effective
    <2>6. Told(c)'
      BY <2>4, <2>5 DEF Told
    <2> QED
      BY <1>6, <2>1, <2>2, <2>6
  <1>11. ASSUME NEW c \in Caller, Closed(c)
         PROVE  OutcomeInv'
    <2> DEFINE failed == append[c].pc = "rejected"
               r == [ok |-> ~failed, decision |-> effective(c), executed |-> TRUE,
                     auditFailed |-> failed, data |-> TRUE,
                     error |-> IF failed THEN "audit" ELSE "none"]
    <2>1. /\ phase[c] = "closing"
          /\ append[c].pc \in {"resolved", "rejected"}
          /\ Return(c, r)
      BY <1>11 DEF Closed
    <2>2. r \in Result
      BY EffectiveType DEF Result, KnownInv
    <2>3. entered[c] = 1 /\ callback[c] = "returned"
      BY <2>1 DEF OutcomeInv
    <2>4. /\ result'[c] = r
          /\ entered'[c] = entered[c]
          /\ callback'[c] = callback[c]
      BY <1>7, <2>1, <2>2
    <2>5. append[c].pc = "resolved" =>
              \E status \in Status \ {"decision_logged"} : Acked(c, status)'
      BY <1>7, <1>8, <2>1, <2>2
    <2>6. /\ (result'[c].ok => ~result'[c].auditFailed) /\ result'[c].executed /\ result'[c].data
          /\ result'[c].error # "callback"
          /\ ~result'[c].auditFailed => append[c].pc = "resolved"
      <3>1. r.auditFailed <=> append[c].pc = "rejected"
        OBVIOUS
      <3>2. (r.ok => ~r.auditFailed) /\ r.executed /\ r.data /\ r.error # "callback"
        BY <2>1
      <3> QED
        BY <2>1, <2>4, <3>1, <3>2
    <2>7. Honest(c)'
      BY <2>3, <2>4, <2>5, <2>6 DEF Honest
    <2>8. result'[c].decision = effective(c)'
      BY <1>7, <2>1, <2>2, <2>4 DEF effective
    <2>9. append[c].pc = "resolved" =>
              \E status \in {"executed", "logged"} : Acked(c, status)'
      <3> SUFFICES ASSUME append[c].pc = "resolved"
                   PROVE  \E status \in {"executed", "logged"} : Acked(c, status)'
        OBVIOUS
      <3>1. /\ append[c].ev \in acked
            /\ append[c].ev.caller = c
            /\ append[c].ev.observed = observed[c]
            /\ append[c].ev.decision = effective(c)
            /\ append[c].ev.status \in {"executed", "logged"}
        BY <2>1 DEF KnownInv, GateInv, DecisionInv, RecordInv
      <3>2. UNCHANGED <<acked, observed, mode>>
        BY <1>7, <2>1, <2>2
      <3> QED
        BY <3>1, <3>2 DEF Acked, effective
    <2>10. Told(c)'
      BY <2>6, <2>7, <2>8, <2>9 DEF Told
    <2> QED
      BY <1>6, <2>1, <2>2, <2>10
  <1>12. ASSUME NEW c \in Caller, Failed(c)
         PROVE  OutcomeInv'
    <2> DEFINE r == [ok |-> FALSE, decision |-> effective(c), executed |-> TRUE,
                     auditFailed |-> append[c].pc = "rejected", data |-> FALSE,
                     error |-> "callback"]
    <2>1. /\ phase[c] = "failing"
          /\ append[c].pc \in {"resolved", "rejected"}
          /\ Return(c, r)
      BY <1>12 DEF Failed
    <2>2. r \in Result
      BY EffectiveType DEF Result, KnownInv
    <2>3. entered[c] = 1 /\ callback[c] = "threw"
      BY <2>1 DEF OutcomeInv
    <2>4. /\ result'[c] = r
          /\ entered'[c] = entered[c]
          /\ callback'[c] = callback[c]
      BY <1>7, <2>1, <2>2
    <2>5. append[c].pc = "resolved" =>
              \E status \in Status \ {"decision_logged"} : Acked(c, status)'
      BY <1>7, <1>8, <2>1, <2>2
    <2>6. /\ ~result'[c].ok /\ result'[c].executed /\ ~result'[c].data
          /\ result'[c].error = "callback"
          /\ ~result'[c].auditFailed => append[c].pc = "resolved"
      <3>1. r.auditFailed <=> append[c].pc = "rejected"
        OBVIOUS
      <3>2. ~r.ok /\ r.executed /\ ~r.data /\ r.error = "callback"
        BY <2>1
      <3> QED
        BY <2>1, <2>4, <3>1, <3>2
    <2>7. Honest(c)'
      BY <2>3, <2>4, <2>5, <2>6 DEF Honest
    <2>8. result'[c].decision = effective(c)'
      BY <1>7, <2>1, <2>2, <2>4 DEF effective
    <2>9. Told(c)'
      BY <2>6, <2>7, <2>8 DEF Told
    <2> QED
      BY <1>6, <2>1, <2>2, <2>9
  <1>13. ASSUME NEW c \in Caller, MutateArgs(c)
         PROVE  OutcomeInv'
    BY <1>13, ToldKept DEF MutateArgs, OutcomeInv, effective
  <1>14. CASE ProcessStops
    BY <1>14, ToldKept DEF ProcessStops, InProcess, OutcomeInv, effective
  <1>15. CASE UNCHANGED vars
    BY <1>15, ToldKept DEF vars, auditVars, sdkVars, OutcomeInv, effective
  <1> QED
    BY <1>2, <1>3, <1>4, <1>5, <1>9, <1>10, <1>11, <1>12, <1>13, <1>14, <1>15 DEF Next, SdkStep

(* Every call that returns has a result.                                   *)
ReportedInv == \A c \in Caller : phase[c] = "returned" => result[c] # NoResult

(* Every step keeps ReportedInv.                                           *)
LEMMA ReportedStep == TypeInv /\ ReportedInv /\ [Next]_vars => ReportedInv'
  <1> SUFFICES ASSUME TypeInv, ReportedInv, [Next]_vars PROVE ReportedInv'
    OBVIOUS
  <1>1. /\ phase \in [Caller -> Phase]
        /\ result \in [Caller -> Result \cup {NoResult}]
    BY DEF TypeInv, TypeOK
  <1>2. ASSUME NEW c \in Caller, Refused(c) \/ EvidenceFails(c) \/ Closed(c) \/ Failed(c)
        PROVE  ReportedInv'
    <2>1. PICK r \in Result : Return(c, r)
      BY <1>2, EffectiveType DEF Refused, EvidenceFails, Closed, Failed, Result
    <2> QED
      BY <1>1, <2>1, NoResultAssumption DEF Return, Goto, ReportedInv
  <1> QED
    BY <1>1, <1>2 DEF Next, SdkStep, EnforceToolCall, AuditStep, EnterCallback, CallbackReturns,
       CallbackThrows, MutateArgs, ProcessStops, Goto, vars, sdkVars, ReportedInv

AllInv == CallInv /\ ReportedInv

(* All the invariants together.                                            *)
LEMMA AllInvariant == Spec => []AllInv
  <1>1. Init => AllInv
    BY InitType, DecisionInit, GateInit, RecordInit, OutcomeInit
       DEF AllInv, CallInv, KnownInv, ReportedInv, Init
  <1>2. AllInv /\ [Next]_vars => AllInv'
    BY TypeStep, DecisionStep, GateStep, RecordStep, OutcomeStep, ReportedStep
       DEF AllInv, CallInv, KnownInv
  <1> QED
    BY <1>1, <1>2, PTL DEF Spec

(* A result that is told is honest.                                        *)
LEMMA HonestResults == AllInv => ResultIsHonest
  BY DEF AllInv, CallInv, ReportedInv, OutcomeInv, ToldInv, Told, Honest, ResultIsHonest

(* The result a caller gets is honest about the callback and the record,   *)
(* wherever a write failed: see ResultIsHonest.                            *)
THEOREM ResultsAreHonest == Spec => []ResultIsHonest
  BY AllInvariant, HonestResults, PTL

-----------------------------------------------------------------------------
(* What an auditor may conclude from the lines of a call.                  *)

(* What a line with event ev says about its call, whichever lines were     *)
(* lost: the call was made, was refused if the event says so and only      *)
(* then, and ended as it says.                                             *)
Tells(ev) ==
    /\ phase[ev.caller] # "idle"
    /\ effective(ev.caller) \in Permits <=> ev.status \notin Refusals
    /\ ev.status \in Endings =>
          /\ callback[ev.caller] = IF ev.status = "failed" THEN "threw" ELSE "returned"
          /\ phase[ev.caller] \in {"closing", "failing", "returned", "lost"}
          /\ phase[ev.caller] \in {"closing", "failing"} =>
                append[ev.caller].pc \in {"resolved", "rejected"}

(* Every line of the logger is true, and no two tell how a call ended.     *)
LineInv ==
    /\ \A i \in DOMAIN log.lines : Parses(log.lines[i]) =>
          \E ev \in Event : log.lines[i].ev = ev /\ Tells(ev)
    /\ \A i, j \in DOMAIN log.lines :
          (/\ Parses(log.lines[i])
           /\ Parses(log.lines[j])
           /\ log.lines[i].ev.caller = log.lines[j].ev.caller
           /\ log.lines[i].ev.status \in Endings
           /\ log.lines[j].ev.status \in Endings) => i = j

(* While no line is torn, every acknowledged event is on file, and the     *)
(* decision_logged line of a call is before the one with its outcome.      *)
OrderInv ==
    GarbageLines = {} =>
        /\ \A ev \in acked : OnFile(ev)
        /\ \A i \in DOMAIN log.lines : log.lines[i].ev.status \in Endings =>
              \E j \in 1 .. i - 1 : /\ log.lines[j].ev.caller = log.lines[i].ev.caller
                                    /\ log.lines[j].ev.status = "decision_logged"

(* Nothing is on file at first.                                            *)
LEMMA TrailInit == Init => LineInv /\ OrderInv
  <1> SUFFICES ASSUME Init PROVE LineInv /\ OrderInv
    OBVIOUS
  <1>1. DOMAIN log.lines = {} /\ acked = {}
    BY DEF Init, AuditInit, EmptyLog
  <1> QED
    BY <1>1 DEF LineInv, OrderInv

(* A step that writes nothing keeps what the lines say true: a call it     *)
(* moves had no line yet, no line with an outcome yet, or has ended.       *)
LEMMA LinesKept ==
    ASSUME LineInv, UNCHANGED <<mode, log>>,
           \A c \in Caller :
               \/ phase[c] = "idle"
               \/ /\ observed'[c] = observed[c]
                  /\ phase'[c] # "idle"
                  /\ \/ phase[c] \in {"refusing", "evidence", "running"}
                     \/ append[c].pc \in {"mkdir", "read", "write"}
                     \/ /\ callback'[c] = callback[c]
                        /\ \/ phase'[c] \in {"returned", "lost"}
                           \/ phase'[c] = phase[c] /\ append'[c] = append[c],
           \A c \in Caller : append[c].pc \in {"mkdir", "read", "write"} =>
               phase[c] \in {"refusing", "evidence", "closing", "failing"}
    PROVE  LineInv'
  <1>1. ASSUME NEW ev \in Event, Tells(ev)
        PROVE  Tells(ev)'
    <2>1. ev.caller \in Caller
      BY DEF Event
    <2>2. observed'[ev.caller] = observed[ev.caller] /\ phase'[ev.caller] # "idle"
      BY <1>1, <2>1 DEF Tells
    <2>3. effective(ev.caller)' = effective(ev.caller)
      BY <2>2 DEF effective
    <2>4. ev.status \in Endings =>
              /\ callback'[ev.caller] = callback[ev.caller]
              /\ phase'[ev.caller] \in {"closing", "failing", "returned", "lost"}
              /\ phase'[ev.caller] \in {"closing", "failing"} =>
                    append'[ev.caller].pc \in {"resolved", "rejected"}
      BY <1>1, <2>1 DEF Tells
    <2> QED
      BY <1>1, <2>2, <2>3, <2>4 DEF Tells
  <1> QED
    BY <1>1 DEF LineInv

(* An append in flight is awaited.                                         *)
LEMMA InFlightAwaited ==
    ASSUME AllInv, NEW c \in Caller, append[c].pc \in {"mkdir", "read", "write"}
    PROVE  phase[c] \in {"refusing", "evidence", "closing", "failing"}
  BY DEF AllInv, CallInv, KnownInv, TypeInv, TypeOK, Phase, DecisionInv, RecordInv

(* A write puts the event the caller awaits on file, and no line with the  *)
(* outcome of that call is there yet.                                      *)
LEMMA LineWritten ==
    ASSUME AllInv, LineInv, NEW c \in Caller, Writes(c), UNCHANGED sdkVars
    PROVE  LineInv'
  <1>1. AuditTypeInv /\ append \in [Caller -> Append_]
    BY AuditPart DEF AllInv, CallInv, KnownInv, TypeInv, TypeOK, AuditTypeOK, Append_
  <1> PICK ev \in Event, n \in Nat : ev = append[c].ev /\ n = Len(log.lines)
    BY <1>1, LogIsLog, LogFacts DEF Writes
  <1>2. DOMAIN log.lines = 1 .. n
    BY <1>1, LogIsLog, LogFacts
  <1>3. /\ append[c].pc = "write"
        /\ append'[c].pc \in {"resolved", "rejected"}
        /\ \A d \in Caller \ {c} : append'[d] = append[d]
        /\ UNCHANGED <<mode, phase, observed, callback>>
    BY <1>1 DEF Writes, sdkVars
  <1>4. phase[c] \in {"refusing", "evidence", "closing", "failing"}
    BY <1>3, InFlightAwaited
  <1>5. ev.caller = c
    BY <1>3 DEF AllInv, CallInv, KnownInv, DecisionInv
  <1>6. /\ effective(c) \in Permits <=> ev.status \notin Refusals
        /\ ev.status \in Endings =>
              /\ callback[c] = IF ev.status = "failed" THEN "threw" ELSE "returned"
              /\ phase[c] \in {"closing", "failing"}
    <2>1. CASE phase[c] = "refusing"
      BY <2>1 DEF RecordInv, AllInv, CallInv, OutcomeInv, Refusals, Endings
    <2>2. CASE phase[c] = "evidence"
      BY <2>2 DEF AllInv, CallInv, KnownInv, GateInv, Refusals, Endings
    <2>3. CASE phase[c] \in {"closing", "failing"}
      <3>1. effective(c) \in Permits
        BY <2>3 DEF AllInv, CallInv, KnownInv, GateInv, ExecutionGate, OutcomeInv
      <3> QED
        BY <2>3, <3>1 DEF RecordInv, AllInv, CallInv, OutcomeInv, Refusals, Endings
    <2> QED
      BY <1>4, <2>1, <2>2, <2>3
  <1>7. ASSUME NEW i \in DOMAIN log'.lines, Parses(log'.lines[i])
        PROVE  \/ i \in DOMAIN log.lines /\ log'.lines[i] = log.lines[i] /\ Parses(log.lines[i])
               \/ i = n + 1 /\ log'.lines[i].ev = ev
    BY <1>1, <1>7, LinesAfterWrite, LineOfEvent DEF Parses
  <1>8. ASSUME NEW i \in DOMAIN log.lines, Parses(log.lines[i]), log.lines[i].ev.caller = c
        PROVE  log.lines[i].ev.status \notin Endings
    BY <1>3, <1>4, <1>8 DEF LineInv, Tells
  <1>9. ASSUME NEW i \in DOMAIN log'.lines, Parses(log'.lines[i])
        PROVE  \E e \in Event : log'.lines[i].ev = e /\ Tells(e)'
    <2>1. CASE i \in DOMAIN log.lines /\ log'.lines[i] = log.lines[i] /\ Parses(log.lines[i])
      <3>1. PICK e \in Event : log.lines[i].ev = e /\ Tells(e)
        BY <2>1 DEF LineInv
      <3>2. e.caller \in Caller /\ (e.status \in Endings => e.caller # c)
        BY <1>8, <2>1, <3>1 DEF Event
      <3>3. effective(e.caller)' = effective(e.caller)
        BY <1>3 DEF effective
      <3>4. Tells(e)'
        BY <1>3, <3>1, <3>2, <3>3 DEF Tells
      <3> QED
        BY <2>1, <3>1, <3>4
    <2>2. CASE log'.lines[i].ev = ev
      <3>1. effective(c)' = effective(c)
        BY <1>3 DEF effective
      <3>2. Tells(ev)'
        BY <1>3, <1>4, <1>5, <1>6, <3>1 DEF Tells
      <3> QED
        BY <2>2, <3>2
    <2> QED
      BY <1>7, <1>9, <2>1, <2>2
  <1>10. ASSUME NEW i \in DOMAIN log'.lines, NEW j \in DOMAIN log'.lines,
                Parses(log'.lines[i]), Parses(log'.lines[j]),
                log'.lines[i].ev.caller = log'.lines[j].ev.caller,
                log'.lines[i].ev.status \in Endings, log'.lines[j].ev.status \in Endings
         PROVE  i = j
    <2>1. \A k \in {i, j} : \/ /\ k \in DOMAIN log.lines
                               /\ log'.lines[k] = log.lines[k]
                               /\ Parses(log.lines[k])
                               /\ log.lines[k].ev.caller # c
                            \/ k = n + 1 /\ log'.lines[k].ev.caller = c
      BY <1>5, <1>7, <1>8, <1>10
    <2> QED
      BY <1>10, <2>1 DEF LineInv
  <1> QED
    BY <1>9, <1>10 DEF LineInv

(* Every step keeps LineInv.                                               *)
LEMMA LineStep == AllInv /\ LineInv /\ [Next]_vars => LineInv'
  <1> SUFFICES ASSUME AllInv, LineInv, [Next]_vars PROVE LineInv'
    OBVIOUS
  <1>1. /\ append \in [Caller -> Append_]
        /\ phase \in [Caller -> Phase]
        /\ observed \in [Caller -> Decision]
        /\ callback \in [Caller -> {"none", "returned", "threw"}]
        /\ AuditTypeInv
    BY AuditPart DEF AllInv, CallInv, KnownInv, TypeInv, TypeOK, AuditTypeOK, Append_
  <1>2. \A c \in Caller : append[c].pc \in {"mkdir", "read", "write"} =>
            phase[c] \in {"refusing", "evidence", "closing", "failing"}
    BY InFlightAwaited
  <1>3. ASSUME NEW c \in Caller, EnforceToolCall(c)
        PROVE  LineInv'
    <2>1. /\ phase[c] = "idle"
          /\ \A d \in Caller \ {c} : /\ phase'[d] = phase[d]
                                     /\ observed'[d] = observed[d]
                                     /\ append'[d] = append[d]
          /\ UNCHANGED <<mode, log, callback>>
      BY <1>1, <1>3 DEF EnforceToolCall, Goto, CallAppend
    <2> QED
      BY <1>2, <2>1, LinesKept
  <1>4. ASSUME NEW c \in Caller, AuditStep(c)
        PROVE  LineInv'
    <2>1. UNCHANGED sdkVars /\ (Writes(c) \/ Prepares(c))
      BY <1>1, <1>4, WriteShape DEF AuditStep
    <2>2. CASE Writes(c)
      BY <2>1, <2>2, LineWritten
    <2>3. CASE Prepares(c)
      <3>1. /\ append[c].pc \in {"mkdir", "read", "write"}
            /\ \A d \in Caller \ {c} : append'[d] = append[d]
            /\ UNCHANGED <<mode, log, phase, observed, callback>>
        BY <1>1, <2>1, <2>3 DEF Prepares, sdkVars
      <3> QED
        BY <1>2, <3>1, LinesKept
    <2> QED
      BY <2>1, <2>2, <2>3
  <1>5. ASSUME NEW c \in Caller, NEW r, Return(c, r)
        PROVE  LineInv'
    <2>1. /\ phase'[c] = "returned"
          /\ \A d \in Caller \ {c} : phase'[d] = phase[d] /\ append'[d] = append[d]
          /\ UNCHANGED <<mode, log, observed, callback>>
      BY <1>1, <1>5 DEF Return, Goto
    <2> QED
      BY <1>2, <2>1, LinesKept
  <1>6. ASSUME NEW c \in Caller, EnterCallback(c) \/ CallbackReturns(c) \/ CallbackThrows(c)
        PROVE  LineInv'
    <2>1. /\ phase[c] \in {"evidence", "running"}
          /\ phase'[c] # "idle"
          /\ \A d \in Caller \ {c} : /\ phase'[d] = phase[d]
                                     /\ append'[d] = append[d]
                                     /\ callback'[d] = callback[d]
          /\ UNCHANGED <<mode, log, observed>>
      BY <1>1, <1>6 DEF EnterCallback, CallbackReturns, CallbackThrows, Goto, CallAppend
    <2> QED
      BY <1>2, <2>1, LinesKept
  <1>7. ASSUME NEW c \in Caller, MutateArgs(c)
        PROVE  LineInv'
    BY <1>2, <1>7, LinesKept DEF MutateArgs
  <1>8. CASE ProcessStops
    <2>1. /\ UNCHANGED <<mode, log, observed, callback>>
          /\ \A d \in Caller : \/ phase'[d] = "lost"
                               \/ phase'[d] = phase[d] /\ phase[d] \in {"idle", "returned", "lost"}
      BY <1>1, <1>8 DEF ProcessStops, InProcess, Phase
    <2> QED
      BY <1>2, <2>1, LinesKept
  <1>9. CASE UNCHANGED vars
    BY <1>2, <1>9, LinesKept DEF vars, auditVars, sdkVars
  <1>10. ASSUME NEW c \in Caller, Refused(c) \/ EvidenceFails(c) \/ Closed(c) \/ Failed(c)
         PROVE  \E r : Return(c, r)
    BY <1>10 DEF Refused, EvidenceFails, Closed, Failed
  <1> QED
    BY <1>3, <1>4, <1>5, <1>6, <1>7, <1>8, <1>9, <1>10 DEF Next, SdkStep

(* Every step keeps OrderInv: a write that leaves no torn line adds one,   *)
(* and the outcome of a call is written after its decision_logged event    *)
(* was acknowledged.                                                       *)
LEMMA OrderStep == AllInv /\ OrderInv /\ [Next]_vars => OrderInv'
  <1> SUFFICES ASSUME AllInv, OrderInv, [Next]_vars, GarbageLines' = {}
               PROVE  /\ \A ev \in acked' : OnFile(ev)'
                      /\ \A i \in DOMAIN log'.lines : log'.lines[i].ev.status \in Endings =>
                            \E j \in 1 .. i - 1 :
                               /\ log'.lines[j].ev.caller = log'.lines[i].ev.caller
                               /\ log'.lines[j].ev.status = "decision_logged"
    BY DEF OrderInv
  <1>1. CASE UNCHANGED <<log, acked>>
    BY <1>1 DEF OrderInv, GarbageLines, OnFile, Parses
  <1>2. ASSUME NEW c \in Caller, Writes(c)
        PROVE  /\ \A ev \in acked' : OnFile(ev)'
               /\ \A i \in DOMAIN log'.lines : log'.lines[i].ev.status \in Endings =>
                     \E j \in 1 .. i - 1 :
                        /\ log'.lines[j].ev.caller = log'.lines[i].ev.caller
                        /\ log'.lines[j].ev.status = "decision_logged"
    <2>1. log \in Log /\ log' \in Log
      BY <1>2, AuditPart, LogIsLog DEF Writes, AllInv, CallInv, KnownInv
    <2> PICK n \in Nat, ev \in Event : n = Len(log.lines) /\ ev = append[c].ev
      BY <1>2, <2>1, LogFacts DEF Writes
    <2>2. /\ DOMAIN log.lines = 1 .. n
          /\ DOMAIN log'.lines = 1 .. Len(log'.lines)
          /\ \A i \in DOMAIN log'.lines : log'.lines[i] # Garbage
      BY <2>1, LogFacts DEF GarbageLines, Parses
    <2>3. PICK written \in {Garbage, LineOf(c)} : Merges(log, log') \/ Extends(log, log', written)
      BY <1>2 DEF Writes
    <2>4. Extends(log, log', LineOf(c))
      BY <2>2, <2>3 DEF Merges, Extends
    <2>5. /\ DOMAIN log'.lines = 1 .. n + 1
          /\ \A i \in 1 .. n : log'.lines[i] = log.lines[i]
          /\ log'.lines[n + 1].ev = ev
      BY <1>2, <2>2, <2>4, LineOfEvent DEF Extends
    <2>6. /\ \A e \in acked : OnFile(e)
          /\ \A i \in DOMAIN log.lines : log.lines[i].ev.status \in Endings =>
                \E j \in 1 .. i - 1 : /\ log.lines[j].ev.caller = log.lines[i].ev.caller
                                      /\ log.lines[j].ev.status = "decision_logged"
      BY <2>2, <2>5 DEF OrderInv, GarbageLines, Parses
    <2>7. acked' \subseteq acked \cup {ev}
      BY <1>2 DEF Writes
    <2>8. \A e \in acked' : OnFile(e)'
      BY <2>2, <2>5, <2>6, <2>7 DEF OnFile
    <2>9. ev.caller = c /\ append[c].pc \in {"mkdir", "read", "write"}
      BY <1>2 DEF Writes, AllInv, CallInv, KnownInv, DecisionInv
    <2>10. ev.status \in Endings =>
               \E j \in 1 .. n : /\ log.lines[j].ev.caller = c
                                 /\ log.lines[j].ev.status = "decision_logged"
      <3> SUFFICES ASSUME ev.status \in Endings
                   PROVE  \E j \in 1 .. n : /\ log.lines[j].ev.caller = c
                                            /\ log.lines[j].ev.status = "decision_logged"
        OBVIOUS
      <3>1. phase[c] \in {"closing", "failing"}
        BY <2>9, InFlightAwaited DEF RecordInv, AllInv, CallInv, KnownInv, GateInv, Endings, Refusals
      <3>2. Acked(c, "decision_logged")
        BY <3>1 DEF AllInv, CallInv, KnownInv, GateInv, ExecutionGate, OutcomeInv
      <3>3. PICK e \in acked : e.caller = c /\ e.status = "decision_logged"
        BY <3>2 DEF Acked
      <3> QED
        BY <2>2, <2>6, <3>3 DEF OnFile
    <2>11. ASSUME NEW i \in DOMAIN log'.lines, log'.lines[i].ev.status \in Endings
           PROVE  \E j \in 1 .. i - 1 :
                      /\ log'.lines[j].ev.caller = log'.lines[i].ev.caller
                      /\ log'.lines[j].ev.status = "decision_logged"
      <3>1. CASE i \in 1 .. n
        <4>1. PICK j \in 1 .. i - 1 : /\ log.lines[j].ev.caller = log.lines[i].ev.caller
                                      /\ log.lines[j].ev.status = "decision_logged"
          BY <2>2, <2>5, <2>6, <2>11, <3>1
        <4>2. /\ j \in 1 .. n
              /\ log'.lines[j] = log.lines[j] /\ log'.lines[i] = log.lines[i]
          BY <2>5, <3>1
        <4> QED
          BY <4>1, <4>2
      <3>2. CASE i = n + 1
        <4>1. PICK j \in 1 .. n : /\ log.lines[j].ev.caller = c
                                  /\ log.lines[j].ev.status = "decision_logged"
          BY <2>5, <2>10, <2>11, <3>2
        <4>2. j \in 1 .. i - 1 /\ log'.lines[j] = log.lines[j] /\ log'.lines[i].ev = ev
          BY <2>5, <3>2
        <4> QED
          BY <2>9, <4>1, <4>2
      <3> QED
        BY <2>5, <3>1, <3>2
    <2> QED
      BY <2>8, <2>11
  <1>3. ASSUME NEW c \in Caller, AuditStep(c)
        PROVE  Writes(c) \/ UNCHANGED <<log, acked>>
    BY <1>3, AuditPart, WriteShape DEF AuditStep, Prepares, AllInv, CallInv, KnownInv
  <1>4. ASSUME NEW c \in Caller, Refused(c) \/ EvidenceFails(c) \/ Closed(c) \/ Failed(c)
        PROVE  UNCHANGED <<log, acked>>
    BY <1>4 DEF Refused, EvidenceFails, Closed, Failed, Return
  <1> QED
    BY <1>1, <1>2, <1>3, <1>4
       DEF Next, SdkStep, EnforceToolCall, EnterCallback, CallbackReturns, CallbackThrows,
           MutateArgs, ProcessStops, vars, auditVars

TrailInv == AllInv /\ LineInv /\ OrderInv

(* What is known of the lines, at every moment.                            *)
LEMMA TrailInvariant == Spec => []TrailInv
  BY TrailInit, LineStep, OrderStep, AllInvariant, PTL DEF Spec, TrailInv, AllInv

(* While no line is torn: what is acknowledged is a line of its call.      *)
LEMMA AckedIsALine ==
    ASSUME TrailInv, GarbageLines = {}, NEW c \in Caller, NEW status, Acked(c, status)
    PROVE  StatusLines(c, {status}) # {}
  BY DEF TrailInv, OrderInv, Acked, OnFile, StatusLines, GarbageLines

(* An auditor who reads a file with no torn line may believe it, at every  *)
(* moment of every interleaving: a refusal stands alone and its callback   *)
(* never ran, an outcome follows the evidence of its call and tells how    *)
(* the callback ended, and an entered callback has its evidence on file.   *)
THEOREM TrailsTellTheTruth == Spec => []TrailTellsTheTruth
  <1>1. TrailInv => TrailTellsTheTruth
    <2> SUFFICES ASSUME TrailInv, GarbageLines = {}, NEW c \in Caller
                 PROVE  LET evidence == StatusLines(c, {"decision_logged"})
                            refusals == StatusLines(c, {"blocked", "pending_approval"})
                            endings  == StatusLines(c, {"executed", "logged", "failed"})
                        IN  /\ refusals # {} => evidence = {} /\ endings = {} /\ entered[c] = 0
                            /\ entered[c] > 0 => evidence # {}
                            /\ \A i \in endings :
                                  /\ \A j \in endings : i = j
                                  /\ \E j \in evidence : j < i
                                  /\ callback[c] = IF log.lines[i].ev.status = "failed"
                                                   THEN "threw" ELSE "returned"
      BY DEF TrailTellsTheTruth
    <2> DEFINE evidence == StatusLines(c, {"decision_logged"})
               refusals == StatusLines(c, Refusals)
               endings  == StatusLines(c, Endings)
    <2>1. ASSUME NEW i \in evidence \cup refusals \cup endings
          PROVE  /\ i \in DOMAIN log.lines
                 /\ Parses(log.lines[i])
                 /\ log.lines[i].ev.caller = c
                 /\ Tells(log.lines[i].ev)
      BY <2>1 DEF StatusLines, TrailInv, LineInv
    <2>2. ASSUME refusals # {}
          PROVE  evidence = {} /\ endings = {} /\ entered[c] = 0
      <3>1. effective(c) \notin Permits
        <4>1. PICK i \in refusals : TRUE
          BY <2>2
        <4> QED
          BY <2>1, <4>1 DEF Tells, StatusLines
      <3>2. evidence = {} /\ endings = {}
        BY <2>1, <3>1 DEF Tells, StatusLines, Refusals, Endings
      <3>3. ~(entered[c] > 0)
        BY <3>1 DEF TrailInv, AllInv, CallInv, KnownInv, GateInv, ExecutionGate
      <3>4. entered[c] \in Nat
        BY DEF TrailInv, AllInv, CallInv, KnownInv, TypeInv, TypeOK
      <3> QED
        BY <3>2, <3>3, <3>4
    <2>3. entered[c] > 0 => evidence # {}
      BY AckedIsALine DEF TrailInv, AllInv, CallInv, KnownInv, GateInv, ExecutionGate
    <2>4. ASSUME NEW i \in endings
          PROVE  /\ \A j \in endings : i = j
                 /\ \E j \in evidence : j < i
                 /\ callback[c] = IF log.lines[i].ev.status = "failed" THEN "threw" ELSE "returned"
      <3>1. /\ i \in DOMAIN log.lines
            /\ log.lines[i].ev.caller = c
            /\ log.lines[i].ev.status \in Endings
            /\ Tells(log.lines[i].ev)
        BY <2>1, <2>4 DEF StatusLines
      <3>2. \A j \in endings : i = j
        BY <2>1, <2>4 DEF StatusLines, TrailInv, LineInv
      <3>3. PICK j \in 1 .. i - 1 : /\ log.lines[j].ev.caller = c
                                    /\ log.lines[j].ev.status = "decision_logged"
        BY <3>1 DEF TrailInv, OrderInv
      <3>4. j \in DOMAIN log.lines /\ j < i
        <4>1. PICK n \in Nat : DOMAIN log.lines = 1 .. n
          BY AuditPart, LogIsLog, LogFacts DEF TrailInv, AllInv, CallInv, KnownInv
        <4> QED
          BY <3>1, <4>1
      <3>5. j \in evidence
        BY <3>3, <3>4 DEF StatusLines, GarbageLines
      <3> QED
        BY <3>1, <3>2, <3>4, <3>5 DEF Tells
    <2> QED
      BY <2>2, <2>3, <2>4 DEF Refusals, Endings
  <1> QED
    BY <1>1, TrailInvariant, PTL

(* A decision_logged line that no outcome follows is explained, in a file  *)
(* with no torn line: a caller that was not told of an audit failure has   *)
(* the outcome of its call on file.                                        *)
THEOREM OpenTrailsAreExplained == Spec => []OpenTrailsExplained
  <1>1. TrailInv => OpenTrailsExplained
    <2> SUFFICES ASSUME TrailInv, GarbageLines = {}, NEW c \in Caller,
                        phase[c] = "returned",
                        StatusLines(c, {"decision_logged"}) # {},
                        StatusLines(c, {"executed", "logged", "failed"}) = {},
                        ~result[c].auditFailed
                 PROVE  FALSE
      BY DEF OpenTrailsExplained
    <2>1. PICK status \in Status \ {"decision_logged"} : Acked(c, status)
      BY HonestResults DEF TrailInv, ResultIsHonest
    <2>2. StatusLines(c, {status}) # {}
      BY <2>1, AckedIsALine
    <2>3. status \in Refusals
      BY <2>1, <2>2 DEF Status, Refusals, StatusLines
    <2>4. PICK i \in DOMAIN log.lines, j \in DOMAIN log.lines :
              /\ log.lines[i].ev.caller = c /\ log.lines[i].ev.status \in Refusals
              /\ log.lines[j].ev.caller = c /\ log.lines[j].ev.status = "decision_logged"
              /\ Parses(log.lines[i]) /\ Parses(log.lines[j])
      BY <2>2, <2>3 DEF StatusLines
    <2>5. Tells(log.lines[i].ev) /\ Tells(log.lines[j].ev)
      BY <2>4 DEF TrailInv, LineInv
    <2> QED
      BY <2>4, <2>5 DEF Tells, Refusals
  <1> QED
    BY <1>1, TrailInvariant, PTL

-----------------------------------------------------------------------------
(* enforceToolCall implements EnforcementGate.                             *)

GateVars == <<CallStage, Attested, Recorded, CallReport>>

(* A step that takes one call to another phase and reports nothing.        *)
LEMMA StageMoves ==
    ASSUME TypeInv, NEW c \in Caller, NEW p \in Phase,
           Goto(c, p), acked' = acked, result' = result
    PROVE  /\ CallStage[c] = StageOf[phase[c]]
           /\ CallStage' = [CallStage EXCEPT ![c] = StageOf[p]]
           /\ UNCHANGED <<Attested, Recorded, CallReport>>
  <1>1. phase \in [Caller -> Phase]
    BY DEF TypeInv, TypeOK
  <1>2. CallStage' = [CallStage EXCEPT ![c] = StageOf[p]]
    BY <1>1 DEF CallStage, Goto
  <1> QED
    BY <1>1, <1>2, RecordStays DEF CallStage, CallReport

(* The stage of the gate each phase stands for.                            *)
LEMMA StageValues ==
    /\ StageOf["idle"] = "new"
    /\ StageOf["refusing"] = "refused"
    /\ StageOf["evidence"] = "cleared"
    /\ StageOf["running"] = "entered"
    /\ StageOf["closing"] = "ended"
    /\ StageOf["failing"] = "ended"
    /\ StageOf["returned"] = "reported"
    /\ StageOf["lost"] = "abandoned"
  BY DEF StageOf

ReportOf(r) ==
    <<IF r.executed THEN "ran" ELSE IF r.decision \in Permits THEN "not_run" ELSE "refused",
      ~r.auditFailed>>

(* A step that returns a result.                                           *)
LEMMA ReturnReports ==
    ASSUME TypeInv, NEW c \in Caller, NEW r \in Result, Return(c, r)
    PROVE  /\ CallStage[c] = StageOf[phase[c]]
           /\ CallStage' = [CallStage EXCEPT ![c] = "reported"]
           /\ UNCHANGED <<Attested, Recorded>>
           /\ CallReport' = [CallReport EXCEPT ![c] = ReportOf(r)]
  <1>1. /\ phase \in [Caller -> Phase]
        /\ result \in [Caller -> Result \cup {NoResult}]
    BY DEF TypeInv, TypeOK
  <1>2. /\ phase' = [phase EXCEPT ![c] = "returned"]
        /\ result' = [result EXCEPT ![c] = r]
        /\ acked' = acked
    BY DEF Return, Goto
  <1>3. CallStage' = [CallStage EXCEPT ![c] = "reported"]
    BY <1>1, <1>2, StageValues DEF CallStage
  <1>4. r # NoResult
    BY NoResultAssumption
  <1>5. CallReport' = [CallReport EXCEPT ![c] = ReportOf(r)]
    BY <1>1, <1>2, <1>4 DEF CallReport, ReportOf
  <1> QED
    BY <1>1, <1>2, <1>3, <1>5, RecordStays DEF CallStage

(* The initial states are initial states of the gate.                      *)
LEMMA GateInitially == Init => Gate!Init
  <1> SUFFICES ASSUME Init PROVE Gate!Init
    OBVIOUS
  <1>1. Attested = {} /\ Recorded = {}
    BY DEF Init, AuditInit, Attested, Recorded
  <1>2. CallStage = [c \in Caller |-> "new"]
    BY StageValues DEF Init, CallStage
  <1>3. CallReport = [c \in Caller |-> <<"none", FALSE>>]
    BY DEF Init, CallReport
  <1> QED
    BY <1>1, <1>2, <1>3 DEF Gate!Init

(* Every step is a step of the gate, or none.                              *)
LEMMA GateSteps == AllInv /\ [Next]_vars => [Gate!Next]_GateVars
  <1> SUFFICES ASSUME AllInv, [Next]_vars PROVE Gate!Next \/ UNCHANGED GateVars
    OBVIOUS
  <1>1. /\ TypeInv
        /\ phase \in [Caller -> Phase]
        /\ append \in [Caller -> Append_]
    BY DEF AllInv, CallInv, KnownInv, TypeInv, TypeOK, AuditTypeOK, Append_
  <1>2. ASSUME NEW c \in Caller, EnforceToolCall(c)
        PROVE  Gate!Judge(c)
    <2>1. PICK p \in {"evidence", "refusing"} :
              /\ phase[c] = "idle"
              /\ Goto(c, p)
              /\ UNCHANGED <<acked, result>>
      BY <1>2 DEF EnforceToolCall
    <2>2. /\ CallStage[c] = "new"
          /\ CallStage' = [CallStage EXCEPT ![c] = StageOf[p]]
          /\ UNCHANGED <<Attested, Recorded, CallReport>>
      <3>1. p \in Phase
        BY DEF Phase
      <3> QED
        BY <1>1, <2>1, <3>1, StageMoves, StageValues
    <2>3. StageOf[p] \in {"refused", "cleared"}
      BY StageValues
    <2> QED
      BY <2>2, <2>3 DEF Gate!Judge
  <1>3. ASSUME NEW c \in Caller, AuditStep(c)
        PROVE  Gate!Attest(c) \/ Gate!Record(c) \/ UNCHANGED GateVars
    <2>1. AppendMoves(c) /\ UNCHANGED sdkVars
      BY <1>1, <1>3, AuditPart, AppendStepShape DEF AuditStep
    <2>2. UNCHANGED <<CallStage, CallReport>>
      BY <2>1 DEF sdkVars, CallStage, CallReport
    <2>3. PICK next \in Append_ :
              /\ next.ev.caller = append[c].ev.caller
              /\ next.ev.status = append[c].ev.status
              /\ \/ next.pc = "resolved" /\ acked' = acked \cup {next.ev}
                 \/ next.pc # "resolved" /\ acked' = acked
      BY <2>1 DEF AppendMoves
    <2>4. CASE acked' = acked
      BY <2>2, <2>4, RecordStays DEF GateVars
    <2>5. CASE acked' = acked \cup {next.ev}
      <3>1. append[c].pc \in {"mkdir", "read", "write"} /\ next.ev.caller = c
        BY <2>1, <2>3 DEF AppendMoves, AllInv, CallInv, KnownInv, DecisionInv
      <3>9. phase[c] \in {"refusing", "evidence", "closing", "failing"}
        BY <1>1, <3>1 DEF AllInv, CallInv, RecordInv, KnownInv, DecisionInv, Phase
      <3>2. CASE next.ev.status = "decision_logged"
        <4>1. Attested' = Attested \cup {c} /\ Recorded' = Recorded
          BY <2>5, <3>1, <3>2, RecordGrows
        <4>2. CASE phase[c] = "evidence"
          <5>1. CallStage[c] = "cleared"
            BY <4>2, StageValues DEF CallStage
          <5> QED
            BY <2>2, <4>1, <5>1 DEF Gate!Attest
        <4>3. CASE phase[c] # "evidence"
          BY <2>3, <3>9, <3>2, <4>3 DEF AllInv, CallInv, RecordInv, Refusals
        <4> QED
          BY <4>2, <4>3
      <3>3. CASE next.ev.status # "decision_logged"
        <4>1. Attested' = Attested /\ Recorded' = Recorded \cup {c}
          BY <2>5, <3>1, <3>3, RecordGrows
        <4>2. phase[c] \in {"refusing", "closing", "failing"}
          BY <2>3, <3>9, <3>3 DEF AllInv, CallInv, KnownInv, GateInv
        <4>3. CallStage[c] \in {"refused", "ended"}
          BY <4>2, StageValues DEF CallStage
        <4> QED
          BY <2>2, <4>1, <4>3 DEF Gate!Record
      <3> QED
        BY <3>2, <3>3
    <2> QED
      BY <2>3, <2>4, <2>5
  <1>4. ASSUME NEW c \in Caller, EnterCallback(c)
        PROVE  Gate!Enter(c)
    <2>1. /\ phase[c] = "evidence"
          /\ append[c].pc = "resolved"
          /\ Goto(c, "running")
          /\ UNCHANGED <<acked, result>>
      BY <1>4 DEF EnterCallback
    <2>2. /\ CallStage[c] = "cleared"
          /\ CallStage' = [CallStage EXCEPT ![c] = "entered"]
          /\ UNCHANGED <<Attested, Recorded, CallReport>>
      <3>1. "running" \in Phase
        BY DEF Phase
      <3> QED
        BY <1>1, <2>1, <3>1, StageMoves, StageValues
    <2>3. c \in Attested
      BY <2>1 DEF AllInv, CallInv, RecordInv
    <2> QED
      BY <2>2, <2>3 DEF Gate!Enter
  <1>5. ASSUME NEW c \in Caller, CallbackReturns(c) \/ CallbackThrows(c)
        PROVE  Gate!End(c)
    <2>1. PICK p \in {"closing", "failing"} :
              /\ phase[c] = "running"
              /\ Goto(c, p)
              /\ UNCHANGED <<acked, result>>
      BY <1>5 DEF CallbackReturns, CallbackThrows
    <2>2. /\ CallStage[c] = "entered"
          /\ CallStage' = [CallStage EXCEPT ![c] = "ended"]
          /\ UNCHANGED <<Attested, Recorded, CallReport>>
      <3>1. p \in Phase
        BY DEF Phase
      <3> QED
        BY <1>1, <2>1, <3>1, StageMoves, StageValues
    <2> QED
      BY <2>2 DEF Gate!End
  <1>6. ASSUME NEW c \in Caller, Refused(c)
        PROVE  Gate!Tell(c)
    <2> DEFINE failed == append[c].pc = "rejected"
               r == [ok |-> FALSE, decision |-> effective(c), executed |-> FALSE,
                     auditFailed |-> failed, data |-> FALSE,
                     error |-> IF failed THEN "audit" ELSE "none"]
    <2>1. /\ phase[c] = "refusing"
          /\ append[c].pc \in {"resolved", "rejected"}
          /\ Return(c, r)
          /\ r \in Result
      BY <1>1, <1>6, EffectiveType DEF Refused, Result
    <2>2. effective(c) \notin Permits /\ (c \in Recorded <=> append[c].pc = "resolved")
      BY <2>1 DEF AllInv, CallInv, OutcomeInv, RecordInv
    <2>3. /\ CallStage[c] = "refused"
          /\ CallStage' = [CallStage EXCEPT ![c] = "reported"]
          /\ UNCHANGED <<Attested, Recorded>>
          /\ CallReport' = [CallReport EXCEPT ![c] = ReportOf(r)]
      BY <1>1, <2>1, ReturnReports, StageValues
    <2>4. ReportOf(r) = <<"refused", c \in Recorded>>
      <3>1. ~r.executed /\ r.decision = effective(c) /\ (r.auditFailed <=> append[c].pc = "rejected")
        OBVIOUS
      <3>2. ~r.auditFailed <=> c \in Recorded
        BY <2>1, <2>2, <3>1
      <3> QED
        BY <2>1, <2>2, <3>1, <3>2 DEF ReportOf, Result
    <2> QED
      BY <2>3, <2>4 DEF Gate!Tell
  <1>7. ASSUME NEW c \in Caller, EvidenceFails(c)
        PROVE  Gate!Tell(c)
    <2> DEFINE r == [ok |-> FALSE, decision |-> effective(c), executed |-> FALSE,
                     auditFailed |-> TRUE, data |-> FALSE, error |-> "audit"]
    <2>1. /\ phase[c] = "evidence"
          /\ append[c].pc = "rejected"
          /\ Return(c, r)
          /\ r \in Result
      BY <1>1, <1>7, EffectiveType DEF EvidenceFails, Result
    <2>2. effective(c) \in Permits /\ c \notin Attested
      BY <2>1 DEF AllInv, CallInv, KnownInv, GateInv, RecordInv
    <2>3. /\ CallStage[c] = "cleared"
          /\ CallStage' = [CallStage EXCEPT ![c] = "reported"]
          /\ UNCHANGED <<Attested, Recorded>>
          /\ CallReport' = [CallReport EXCEPT ![c] = ReportOf(r)]
      BY <1>1, <2>1, ReturnReports, StageValues
    <2>4. ReportOf(r) = <<"not_run", FALSE>>
      BY <2>2 DEF ReportOf
    <2> QED
      BY <2>2, <2>3, <2>4 DEF Gate!Tell
  <1>8. ASSUME NEW c \in Caller, NEW r \in Result, phase[c] \in {"closing", "failing"},
               append[c].pc \in {"resolved", "rejected"}, Return(c, r), r.executed,
               r.auditFailed <=> append[c].pc = "rejected"
        PROVE  Gate!Tell(c)
    <2>1. c \in Recorded <=> append[c].pc = "resolved"
      BY <1>8 DEF AllInv, CallInv, RecordInv
    <2>2. /\ CallStage[c] = "ended"
          /\ CallStage' = [CallStage EXCEPT ![c] = "reported"]
          /\ UNCHANGED <<Attested, Recorded>>
          /\ CallReport' = [CallReport EXCEPT ![c] = ReportOf(r)]
      BY <1>1, <1>8, ReturnReports, StageValues
    <2>3. ~r.auditFailed <=> c \in Recorded
      BY <1>8, <2>1
    <2>4. ReportOf(r) = <<"ran", c \in Recorded>>
      BY <1>8, <2>3 DEF ReportOf, Result
    <2> QED
      BY <2>2, <2>4 DEF Gate!Tell
  <1>9. ASSUME NEW c \in Caller, Closed(c)
        PROVE  Gate!Tell(c)
    <2> DEFINE failed == append[c].pc = "rejected"
               r == [ok |-> ~failed, decision |-> effective(c), executed |-> TRUE,
                     auditFailed |-> failed, data |-> TRUE,
                     error |-> IF failed THEN "audit" ELSE "none"]
    <2>1. /\ phase[c] = "closing"
          /\ append[c].pc \in {"resolved", "rejected"}
          /\ Return(c, r)
          /\ r \in Result
      BY <1>1, <1>9, EffectiveType DEF Closed, Result
    <2>2. r.executed /\ (r.auditFailed <=> append[c].pc = "rejected")
      OBVIOUS
    <2> QED
      BY <1>8, <2>1, <2>2
  <1>10. ASSUME NEW c \in Caller, Failed(c)
         PROVE  Gate!Tell(c)
    <2> DEFINE r == [ok |-> FALSE, decision |-> effective(c), executed |-> TRUE,
                     auditFailed |-> append[c].pc = "rejected", data |-> FALSE,
                     error |-> "callback"]
    <2>1. /\ phase[c] = "failing"
          /\ append[c].pc \in {"resolved", "rejected"}
          /\ Return(c, r)
          /\ r \in Result
      BY <1>1, <1>10, EffectiveType DEF Failed, Result
    <2>2. r.executed /\ (r.auditFailed <=> append[c].pc = "rejected")
      OBVIOUS
    <2> QED
      BY <1>8, <2>1, <2>2
  <1>11. ASSUME NEW c \in Caller, MutateArgs(c)
         PROVE  UNCHANGED GateVars
    BY <1>11, RecordStays DEF MutateArgs, GateVars, CallStage, CallReport
  <1>12. CASE ProcessStops
    <2> DEFINE lost == {c \in Caller : InProcess(c)}
    <2>1. /\ lost # {}
          /\ phase' = [c \in Caller |-> IF c \in lost THEN "lost" ELSE phase[c]]
          /\ UNCHANGED <<acked, result>>
      BY <1>12 DEF ProcessStops
    <2>2. \A c \in lost : CallStage[c] \in {"refused", "cleared", "entered", "ended"}
      BY StageValues DEF CallStage, InProcess
    <2>3. CallStage' = [c \in Caller |-> IF c \in lost THEN "abandoned" ELSE CallStage[c]]
      BY <2>1, StageValues DEF CallStage
    <2>4. UNCHANGED <<Attested, Recorded, CallReport>>
      BY <2>1, RecordStays DEF CallReport
    <2>5. lost \in SUBSET {c \in Caller : CallStage[c] \in {"refused", "cleared", "entered", "ended"}}
      BY <2>2
    <2> HIDE DEF lost
    <2>6. Gate!Abandon
      BY <2>1, <2>3, <2>4, <2>5 DEF Gate!Abandon
    <2> QED
      BY <2>6 DEF Gate!Next
  <1>13. CASE UNCHANGED vars
    BY <1>13, RecordStays DEF vars, auditVars, sdkVars, GateVars, CallStage, CallReport
  <1> QED
    BY <1>2, <1>3, <1>4, <1>5, <1>6, <1>7, <1>9, <1>10, <1>11, <1>12, <1>13
       DEF Next, SdkStep, Gate!Next

(* enforceToolCall keeps the promise of EnforcementGate: every step of the *)
(* SDK, of the file system, of the application and of a crash is a step of *)
(* the gate or leaves it unchanged.                                        *)
THEOREM GateImplemented == Spec => ImplementsGate
  BY GateInitially, GateSteps, AllInvariant, PTL DEF Spec, ImplementsGate, Gate!GateSpec,
     Gate!gateVars, GateVars

=============================================================================
