--------------------------- MODULE EnforcementGate ---------------------------
(***************************************************************************)
(* What enforcement promises of one tool call, without files, promises or  *)
(* I/O: a call is judged once; only a call that was cleared is attested,   *)
(* only an attested call enters the callback, only a call whose callback   *)
(* ended is closed, and the report a caller gets says whether its callback *)
(* ran and whether the record is complete.  Calls may be abandoned at any  *)
(* time, several at once: that is a crash.                                 *)
(***************************************************************************)
CONSTANTS Call

VARIABLES
    stage,      \* new, refused, cleared, entered, ended, reported or abandoned
    attested,   \* the calls with a record that they were cleared
    recorded,   \* the calls whose outcome is on record
    report      \* what the caller was told

gateVars == <<stage, attested, recorded, report>>

Init ==
    /\ stage = [c \in Call |-> "new"]
    /\ attested = {}
    /\ recorded = {}
    /\ report = [c \in Call |-> <<"none", FALSE>>]

Judge(c) ==
    /\ stage[c] = "new"
    /\ \E verdict \in {"refused", "cleared"} : stage' = [stage EXCEPT ![c] = verdict]
    /\ UNCHANGED <<attested, recorded, report>>

Attest(c) ==
    /\ stage[c] = "cleared"
    /\ attested' = attested \cup {c}
    /\ UNCHANGED <<stage, recorded, report>>

Enter(c) ==
    /\ stage[c] = "cleared"
    /\ c \in attested
    /\ stage' = [stage EXCEPT ![c] = "entered"]
    /\ UNCHANGED <<attested, recorded, report>>

End(c) ==
    /\ stage[c] = "entered"
    /\ stage' = [stage EXCEPT ![c] = "ended"]
    /\ UNCHANGED <<attested, recorded, report>>

Record(c) ==
    /\ stage[c] \in {"refused", "ended"}
    /\ recorded' = recorded \cup {c}
    /\ UNCHANGED <<stage, attested, report>>

(* The caller is told, with TRUE if and only if the outcome is on record.  *)
Tell(c) ==
    /\ \/ stage[c] = "refused" /\ report' = [report EXCEPT ![c] = <<"refused", c \in recorded>>]
       \/ stage[c] = "cleared" /\ c \notin attested /\ report' = [report EXCEPT ![c] = <<"not_run", FALSE>>]
       \/ stage[c] = "ended" /\ report' = [report EXCEPT ![c] = <<"ran", c \in recorded>>]
    /\ stage' = [stage EXCEPT ![c] = "reported"]
    /\ UNCHANGED <<attested, recorded>>

Abandon ==
    /\ \E lost \in SUBSET {c \in Call : stage[c] \in {"refused", "cleared", "entered", "ended"}} :
          /\ lost # {}
          /\ stage' = [c \in Call |-> IF c \in lost THEN "abandoned" ELSE stage[c]]
    /\ UNCHANGED <<attested, recorded, report>>

Next ==
    \/ \E c \in Call : Judge(c) \/ Attest(c) \/ Enter(c) \/ End(c) \/ Record(c) \/ Tell(c)
    \/ Abandon

GateSpec == Init /\ [][Next]_gateVars

=============================================================================
