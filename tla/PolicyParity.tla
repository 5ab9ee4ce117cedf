----------------------------- MODULE PolicyParity -----------------------------
(***************************************************************************)
(* The Node and the Python evaluation of one policy file, on the calls of  *)
(* PolicyCore: where they decide alike.                                    *)
(***************************************************************************)
EXTENDS PolicyCore, PolicyPython

(* What parsing guarantees of a file's conditions: a field of at least one *)
(* segment and an operator of the language.  And a number has one text:    *)
(* what a call holds is the condition's value if it has its type and its   *)
(* number.                                                                 *)
Comparable(f, call) ==
    \A r \in DOMAIN f.policies :
        \A c \in f.policies[r].conditions.all \cup f.policies[r].conditions.any :
            LET actual == GetPathValue(call, c.field)
            IN  /\ Len(c.field) \in Nat \ {0}
                /\ c.operator \in {"eq", "neq", "gt", "gte", "lt", "lte", "contains", "not_contains"}
                /\ (Numeric(actual) /\ actual.type = c.value.type /\ actual.number = c.value.number) =>
                       actual = c.value

ASSUME PolicyParityAssumption ==
    \A f \in PolicyFiles, call \in Inputs : Comparable(f, call)

(* examples/demos/cross-framework-governance/README.md:14: the frameworks  *)
(* "evaluate the same policy file and reach identical governance           *)
(* decisions".  They do, and by the same rule, for every call on which     *)
(* every condition of the file is portable.                                *)
PythonDecidesAlike ==
    (result # NoResult /\ PortableCall(file, input)) =>
        result = PythonEvaluatePolicy(file, input)

=============================================================================
