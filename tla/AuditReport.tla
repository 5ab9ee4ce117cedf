------------------------------ MODULE AuditReport ------------------------------
(***************************************************************************)
(* packages/cli: enforra report, the counts it makes of the lines of an    *)
(* audit file.  A line that does not parse is skipped and counted as such. *)
(***************************************************************************)
EXTENDS AuditChain, PolicyDecision, FiniteSets

CONSTANTS
    Agent,      \* the agent of each audit event's caller
    Tool        \* its tool: "tool" in Node's events, "tool_name" in Python's

Any == "any"    \* a filter that was not given

NoFilters == [agent |-> Any, tool |-> Any, decision |-> Any]

(* matchesReportFilters, of the event toSafeAuditEvent makes of a line.    *)
Matches(ev, filters) ==
    /\ filters.agent \in {Any, Agent[ev.caller]}
    /\ filters.tool \in {Any, Tool[ev.caller]}
    /\ filters.decision \in {Any, ev.decision}

\* A report that keeps the last event of each call.
ReportedLast(lines, filters) ==
    {i \in DOMAIN lines :
        /\ Parses(lines[i]) /\ Matches(lines[i].ev, filters)
        /\ \A j \in i + 1 .. Len(lines) : lines[j].ev = NoEvent \/ lines[j].ev.caller # lines[i].ev.caller}

(* The lines buildAuditReport keeps as events.                             *)
Reported(lines, filters) ==
    {i \in DOMAIN lines : Parses(lines[i]) /\ Matches(lines[i].ev, filters)}

(* buildAuditReport; tools are counted as agents are.                      *)
Report(lines, filters) ==
    LET events == Reported(lines, filters)
    IN  [total     |-> Cardinality(events),
         skipped   |-> Cardinality({i \in DOMAIN lines : ~Parses(lines[i])}),
         decisions |-> [d \in Decision |-> Cardinality({i \in events : lines[i].ev.decision = d})],
         agents    |-> [a \in {Agent[lines[i].ev.caller] : i \in events} |->
                           Cardinality({i \in events : Agent[lines[i].ev.caller] = a})]]

=============================================================================
