----------------------------- MODULE MCPolicyCore -----------------------------
(* Instances of PolicyCore for TLC: every policy file of up to MaxRules     *)
(* rules from a small pool, against calls that reach every kind of value a  *)
(* condition may find.                                                      *)
EXTENDS PolicyParity

CONSTANT MaxRules

Condition(field, operator, value) == [field |-> field, operator |-> operator, value |-> value]

One == Number(1, <<"1">>)
Two == Number(2, <<"2">>)

Amount == <<"args", "amount">>
NoteId == <<"args", "note", "id">>
Env    == <<"context", "env">>

MakeRule(priority, agent, tool, all, any, decision) ==
    [priority |-> priority, agent |-> agent, tool |-> tool,
     conditions |-> [all |-> all, any |-> any], decision |-> decision]

Pool == {
    MakeRule(2, Unset, "refund", {Condition(Amount, "gt", One)}, {}, "block"),
    MakeRule(1, "support", Unset,
             {Condition(NoteId, "not_contains", Text(<<"x">>))},
             {Condition(Amount, "lte", One), Condition(Amount, "eq", Two)}, "allow"),
    MakeRule(NoPriority, Unset, Unset, {},
             {Condition(Env, "neq", Text(<<"p">>)), Condition(NoteId, "contains", Text(<<"x">>))},
             "require_approval"),
    MakeRule(NoPriority, Unset, "*", {}, {}, "log_only"),
    MakeRule(2, "support", Unset, {Condition(Amount, "lt", Two), Condition(Env, "eq", Text(<<"p">>))}, {}, "allow"),
    MakeRule(NoPriority, Unset, Unset, {Condition(Amount, "gte", One), Condition(<<"args">>, "neq", One)}, {}, "block"),
    MakeRule(1, Unset, Unset, {}, {Condition(Amount, "eq", One), Condition(Env, "contains", Boolean(TRUE))}, "log_only")
}

Note(id) == Object([id |-> Text(id)])

Call(agent, tool, args, context) ==
    [agent |-> agent, tool |-> tool, args |-> Object(args), context |-> context]

SmallCalls == {
    Call("support", "refund", [amount |-> One, note |-> Note(<<"a">>)], Undefined),
    Call("support", "refund", [amount |-> Two, note |-> Note(<<"a">>)], Object([env |-> Text(<<"true">>)])),
    Call("support", "refund", [amount |-> Two, note |-> Note(<<"a", "x">>)], Object([env |-> Text(<<"p">>)])),
    Call("support", "refund", [amount |-> NaN, note |-> Null], Object([env |-> Null])),
    Call("billing", "refund", [amount |-> Text(<<"2">>), note |-> Array(<<"x">>)], Object([env |-> Boolean(TRUE)])),
    Call("billing", "refund", [amount |-> Boolean(TRUE), note |-> Null], Object([env |-> Text(<<"q">>)])),
    Call("billing", "search", NoProps, Undefined)
}

SmallPolicyFiles == [
    mode: {"enforce", "observe"},
    observeOnly: BOOLEAN,
    default: {NoDecision, "require_approval"},
    policies: UNION {[1 .. n -> Pool] : n \in 0 .. MaxRules}]

=============================================================================
