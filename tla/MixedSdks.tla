------------------------------- MODULE MixedSdks -------------------------------
(***************************************************************************)
(* A Node process that serves MCP tools and a Python process that calls    *)
(* run_tool, each with the default audit path: both write .enforra/        *)
(* audit.jsonl, under one policy, and enforra report reads it at any time. *)
(***************************************************************************)
EXTENDS McpTool, SdkPython, AuditReport

(* A filter that was not given is no name of an agent or a tool.           *)
ASSUME MixedSdksAssumption == \A c \in Caller : Any \notin {Agent[c], Tool[c]}

NodeCaller == Caller \ PythonCaller

mixedVars == <<vars, reply, raised>>

MixedInit == Init /\ McpInit /\ PythonInit

(* One of the two processes stops, with the calls it has in progress.      *)
OneProcessStops(callers) ==
    /\ \E c \in callers : InProcess(c)
    /\ LET lost == {c \in callers : InProcess(c)}
       IN  /\ phase' = [c \in Caller |-> IF c \in lost THEN "lost" ELSE phase[c]]
           /\ append' = [c \in Caller |-> IF c \in lost THEN NoAppend ELSE append[c]]
    /\ UNCHANGED <<integrity, log, args, acked, overlapped,
                   mode, observed, entered, callback, touched, result, reply, raised>>

MixedNext ==
    \/ \E c \in NodeCaller : McpStep(c) /\ UNCHANGED raised
    \/ \E c \in PythonCaller : PythonStep(c) /\ UNCHANGED reply
    \/ \E callers \in {NodeCaller, PythonCaller} : OneProcessStops(callers)

MixedSpec == MixedInit /\ [][MixedNext]_mixedVars

-----------------------------------------------------------------------------
(* enforra report of the shared file, taken at any time.  It accounts for  *)
(* every line; with no line it skips, each call is in it as often as it    *)
(* left lines: a refused call once, and only if it was refused, a call     *)
(* that was let through once or twice, and at least once if its callback   *)
(* was entered.  Reports by agent split the whole one.                     *)
ReportAccountsForCalls ==
    LET r == Report(log.lines, NoFilters)
        made == {c \in Caller : phase[c] # "idle" /\ ~(c \in PythonCaller /\ raised[c] = "agent")}
        refused(d) == {c \in made : effective(c) = d}
        told(d) == {c \in refused(d) : phase[c] = "returned" /\ Acked(c, FirstStatus(d))}
        let == {c \in made : effective(c) \in Permits}
        through == r.decisions["allow"] + r.decisions["log_only"]
    IN  /\ r.total + r.skipped = Len(log.lines)
        /\ \A a \in DOMAIN r.agents :
              r.agents[a] = Report(log.lines, [NoFilters EXCEPT !.agent = a]).total
        /\ r.skipped = 0 =>
              /\ \A d \in Decision \ Permits :
                    /\ r.decisions[d] >= Cardinality(told(d))
                    /\ r.decisions[d] <= Cardinality(refused(d))
              /\ through >= Cardinality({c \in Caller : entered[c] = 1})
              /\ through <= 2 * Cardinality(let)

=============================================================================
