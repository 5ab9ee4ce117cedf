------------------------------ MODULE LocalAudit ------------------------------
(***************************************************************************)
(* packages/local-audit: append() of the loggers that share one audit      *)
(* file.  Each call of append is a chain of awaited file operations with   *)
(* no lock around it, so the appends of concurrent tool calls interleave   *)
(* at every await:                                                         *)
(*                                                                         *)
(*   "mkdir" --> build and redact the event --> ("read" the last hash) --> *)
(*   "write" (appendFile) --> "resolved" or "rejected"                     *)
(*                                                                         *)
(* A caller has at most one append outstanding, so append state is kept    *)
(* per Caller.  The event holds the caller's arguments by reference until  *)
(* redactPayload copies them, after the first await.                       *)
(*                                                                         *)
(* The module is used in two ways: AuditSpec is a set of callers that each *)
(* append one event; SdkNode drives the same actions from                  *)
(* enforceToolCall.                                                        *)
(***************************************************************************)
EXTENDS AuditChain, PolicyDecision, FiniteSets

CONSTANTS
    Caller,     \* who calls append, one outstanding call each
    Integrities,\* the integrity options the callers' loggers may have been created with
    Input,      \* what a tool call's arguments may be, less what redactPayload hides
    Faults      \* the I/O failures that can happen

(* "mkdir" and "read": that operation rejects.  A member of Cut: appendFile *)
(* rejects after that much of the line was written (a full disk, an error   *)
(* on close), or the process dies when it was.                              *)
ASSUME LocalAuditAssumption ==
    /\ Integrities \subseteq [Caller -> {"none", "hash_chain"}]
    /\ Faults \subseteq {"mkdir", "read"} \cup Cut

(* An audit event, less what no property tells apart.  Its id is a random   *)
(* UUID; here the caller and the status identify it, since a caller appends *)
(* each status at most once.                                                *)
Status == {"decision_logged", "executed", "logged", "blocked", "pending_approval", "failed"}

Event == [caller: Caller, status: Status, observed: Decision, decision: Decision, args: Input]

ASSUME NoEventAssumption == NoEvent \notin Event

VARIABLES
    integrity,  \* the integrity option of each caller's logger, fixed from the start
    log,        \* the audit file
    args,       \* the live argument object of each caller
    append,     \* the state of each caller's append
    acked,      \* the events whose append resolved (history)
    overlapped  \* an append was called while another was in flight (history)

auditVars == <<integrity, log, args, append, acked, overlapped>>

AppendPc == {"idle", "mkdir", "read", "write", "resolved", "rejected"}

NoAppend == [pc |-> "idle", ev |-> NoEvent, prev |-> NoHash]

InFlight(c) == append[c].pc \in {"mkdir", "read", "write"}

-----------------------------------------------------------------------------
(* The steps of append.                                                    *)

AuditInit ==
    /\ integrity \in Integrities
    /\ log = EmptyLog
    /\ args \in [Caller -> Input]
    /\ append = [c \in Caller |-> NoAppend]
    /\ acked = {}
    /\ overlapped = FALSE

(* append is called and waits for mkdir.  The args field is only the       *)
(* reference: RedactEvent overwrites it with what the object then holds.   *)
CallAppend(c, status, observed, decision) ==
    /\ append' = [append EXCEPT ![c] =
          [pc   |-> "mkdir",
           ev   |-> [caller |-> c, status |-> status, observed |-> observed,
                     decision |-> decision, args |-> args[c]],
           prev |-> NoHash]]
    /\ overlapped' = (overlapped \/ \E d \in Caller : InFlight(d))

\* An event built from a field all calls share.
RedactEventShared(c) ==
    /\ append[c].pc = "mkdir"
    /\ \E d \in {d \in Caller : InFlight(d)} :
          append' = [append EXCEPT
              ![c].ev.args = args[d],
              ![c].pc = IF integrity[c] = "hash_chain" THEN "read" ELSE "write"]
    /\ UNCHANGED <<integrity, log, args, acked, overlapped>>

(* mkdir resolves; the event is built and its arguments are copied.        *)
RedactEvent(c) ==
    /\ append[c].pc = "mkdir"
    /\ append' = [append EXCEPT
          ![c].ev.args = args[c],
          ![c].pc = IF integrity[c] = "hash_chain" THEN "read" ELSE "write"]
    /\ UNCHANGED <<integrity, log, args, acked, overlapped>>

(* mkdir rejects, or building the event throws.                            *)
MkdirFails(c) ==
    /\ "mkdir" \in Faults
    /\ append[c].pc = "mkdir"
    /\ append' = [append EXCEPT ![c].pc = "rejected"]
    /\ UNCHANGED <<integrity, log, args, acked, overlapped>>

\* A reader that starts over until the last line has a hash.
ReadLastHashRetried(c) ==
    /\ append[c].pc = "read"
    /\ append' = [append EXCEPT
          ![c].pc = IF ReadLast(log.lines).ok THEN "write" ELSE "mkdir",
          ![c].prev = IF ReadLast(log.lines).ok THEN ReadLast(log.lines).hash ELSE NoHash]
    /\ UNCHANGED <<integrity, log, args, acked, overlapped>>

(* readLastIntegrityHash: the file is read; the last line has a hash to    *)
(* chain to, or append rejects.                                            *)
ReadLastHash(c) ==
    /\ append[c].pc = "read"
    /\ append' = [append EXCEPT
          ![c].pc = IF ReadLast(log.lines).ok THEN "write" ELSE "rejected",
          ![c].prev = IF ReadLast(log.lines).ok THEN ReadLast(log.lines).hash ELSE NoHash]
    /\ UNCHANGED <<integrity, log, args, acked, overlapped>>

ReadFails(c) ==
    /\ "read" \in Faults
    /\ append[c].pc = "read"
    /\ append' = [append EXCEPT ![c].pc = "rejected"]
    /\ UNCHANGED <<integrity, log, args, acked, overlapped>>

LineOf(c) ==
    IF integrity[c] = "hash_chain"
    THEN ChainedLine(append[c].ev, append[c].prev)
    ELSE PlainLine(append[c].ev)

AppendFile(c) ==
    /\ append[c].pc = "write"
    /\ log' = Land(log, LineOf(c), "whole")
    /\ append' = [append EXCEPT ![c].pc = "resolved"]
    /\ acked' = acked \cup {append[c].ev}
    /\ UNCHANGED <<integrity, args, overlapped>>

\* A writer that drops appendFile's promise and lets append resolve anyway.
AppendFileUnawaited(c, cut) ==
    /\ cut \in Faults \cap Cut
    /\ append[c].pc = "write"
    /\ log' = Land(log, LineOf(c), cut)
    /\ append' = [append EXCEPT ![c].pc = "resolved"]
    /\ acked' = acked \cup {append[c].ev}
    /\ UNCHANGED <<integrity, args, overlapped>>

AppendFileFails(c, cut) ==
    /\ cut \in Faults \cap Cut
    /\ append[c].pc = "write"
    /\ log' = Land(log, LineOf(c), cut)
    /\ append' = [append EXCEPT ![c].pc = "rejected"]
    /\ UNCHANGED <<integrity, args, acked, overlapped>>

AppendStep(c) ==
    \/ RedactEvent(c)
    \/ MkdirFails(c)
    \/ ReadLastHash(c)
    \/ ReadFails(c)
    \/ AppendFile(c)
    \/ \E cut \in Cut : AppendFileFails(c, cut)

-----------------------------------------------------------------------------
(* Callers that append one event each.                                     *)

StartAppend(c) ==
    /\ append[c].pc = "idle"
    /\ CallAppend(c, "executed", "allow", "allow")
    /\ UNCHANGED <<integrity, log, args, acked>>

(* The process that runs the callers stops; the file stays as it is.       *)
Crash ==
    /\ \E c \in Caller : InFlight(c)
    /\ append' = [c \in Caller |->
          IF InFlight(c) THEN [append[c] EXCEPT !.pc = "rejected"] ELSE append[c]]
    /\ UNCHANGED <<integrity, log, args, acked, overlapped>>

AuditNext ==
    \/ \E c \in Caller : StartAppend(c) \/ AppendStep(c)
    \/ Crash

AuditSpec ==
    /\ AuditInit
    /\ [][AuditNext]_auditVars
    /\ \A c \in Caller : WF_auditVars(AppendStep(c))

-----------------------------------------------------------------------------
Content == {Canonical(ev) : ev \in Event} \cup {NoEvent}

Hash == Content \X Content

Line == [ev: Event \cup {NoEvent}, prev: Hash, hash: Hash]

(* The type of the state; an open last line needs a line.                  *)
AuditTypeOK ==
    /\ integrity \in Integrities
    /\ log \in [lines: Seq(Line), open: BOOLEAN]
    /\ log.open => log.lines # <<>>
    /\ args \in [Caller -> Input]
    /\ append \in [Caller -> [pc: AppendPc, ev: Event \cup {NoEvent}, prev: Hash]]
    /\ acked \subseteq Event
    /\ overlapped \in BOOLEAN

OnFile(ev) == \E i \in DOMAIN log.lines : log.lines[i].ev = ev

GarbageLines == {i \in DOMAIN log.lines : ~Parses(log.lines[i])}

AllChained == \A c \in Caller : integrity[c] = "hash_chain"

(* With no torn write, an event whose append resolved is a line of the file *)
(* for good, and of one line only, in every interleaving of the appends.    *)
AckedEventsOnFile ==
    GarbageLines = {} =>
        \A ev \in acked : \E i \in DOMAIN log.lines :
            /\ log.lines[i].ev = ev
            /\ \A j \in DOMAIN log.lines : log.lines[j].ev = ev => j = i

(* A torn write costs at most one acknowledged event: there are never more  *)
(* acknowledged events missing from the file than lines that do not parse.  *)
TornWriteCostsOneEvent ==
    Cardinality({ev \in acked : ~OnFile(ev)}) <= Cardinality(GarbageLines)

(* The file only grows: a line that has its newline never changes.          *)
AppendOnly ==
    [][/\ Len(log'.lines) >= Len(log.lines)
       /\ \A i \in DOMAIN log.lines :
             (i < Len(log.lines) \/ ~log.open) => log'.lines[i] = log.lines[i]]_log

(* Appends that interleave in hash_chain mode may fork the chain, but the   *)
(* lines still form a forest: with no torn write, each one starts the file  *)
(* or chains to a line before it.                                           *)
EveryLineChainsBackwards ==
    (AllChained /\ GarbageLines = {}) =>
        \A i \in DOMAIN log.lines :
            \/ log.lines[i].prev = NoHash
            \/ \E j \in 1 .. i - 1 : log.lines[i].prev = log.lines[j].hash

(* When no two appends overlap, the hash_chain file verifies up to a torn   *)
(* last line, whatever I/O fails and wherever the process stops; and        *)
(* nothing is ever written after a torn line: append fails closed.          *)
SerialLogVerifies ==
    (AllChained /\ ~overlapped) =>
        \/ Verify(log.lines).valid
        \/ /\ log.lines[Len(log.lines)] = Garbage
           /\ Verify(log.lines).firstInvalidLine = Len(log.lines)

(* Loggers without integrity (the Python SDK, or a client left at the       *)
(* default) may share the file with hash_chain ones.  When no two appends   *)
(* overlap, the first line of theirs, or the first torn one, is the end of  *)
(* the chain: no hash_chain line ever follows it.                           *)
ChainedLinesComeFirst ==
    ~overlapped =>
        \A i, j \in DOMAIN log.lines :
            (i < j /\ HasIntegrity(log.lines[j])) => HasIntegrity(log.lines[i])

(* docs/audit-integrity.md, Event Metadata: "The first event has            *)
(* previousHash: null. Later events store the hash of the previous event."  *)
LaterEventsStorePreviousHash ==
    AllChained =>
        \A i \in DOMAIN log.lines :
            log.lines[i].prev = IF i = 1 THEN NoHash ELSE log.lines[i - 1].hash

(* Every append that was called settles, as long as the process runs.       *)
AppendsSettle ==
    \A c \in Caller :
        (append[c].pc # "idle") ~> (append[c].pc \in {"resolved", "rejected"})

=============================================================================
