------------------------------ MODULE MCCliFiles ------------------------------
(* Instances of CliFiles for TLC: what users save are policies that differ *)
(* from the starter one in what the two SDKs may read differently, and     *)
(* cases for them.                                                         *)
EXTENDS CliFiles, TLC

Policy(fields) == Object(fields @@ [version |-> One])

Rules(fields) == [policies |-> List(<<Object(fields @@ [id |-> Word("r"), decision |-> Word("allow")])>>)]

OnTool(tool) == [match |-> Object([tool |-> Word(tool)])]

If(operator, value) ==
    OnTool("refund") @@ [conditions |-> List(<<StarterCondition(<<"args", "amount">>, operator, value)>>)]

Two == Number(2, <<"2">>)

SavedPolicies == {
    Policy(Rules(If("lt", Two)) @@ [mode |-> Word("observe")]),
    Policy(Rules(If("neq", Two)) @@ [defaults |-> Object([decision |-> Word("block")])]),
    Policy(Rules(If("eq", Boolean(TRUE)))),
    Policy(Rules(If("contains", Boolean(TRUE)))),
    Policy(Rules(If("eq", NaN))),
    Policy(Rules([priority |-> Float(1)] @@ OnTool("refund"))),
    Policy(Rules([priority |-> Boolean(TRUE)] @@ OnTool("refund"))),
    Policy(Rules([priority |-> Number(0, <<"0">>)] @@ OnTool("refund"))),
    Policy(Rules([match |-> Object([agnet |-> Word("billing"), tool |-> Word("refund")])])),
    Policy(Rules([match |-> Object([agent |-> Null, tool |-> Word("*")])])),
    Policy(Rules([match |-> Object(NoProps)])),
    Policy(Rules(OnTool("refund") @@ [conditions |-> Object([none |-> List(<<>>)])])),
    Policy(Rules(OnTool("refund") @@ [conditions |-> Object([any |-> List(<<>>)])])),
    Policy(Rules(OnTool("refund") @@ [owner |-> Word("billing")])),
    Policy([policies |-> List(<<>>), observe_only |-> Null]),
    Policy([policies |-> List(<<>>), observe_only |-> Boolean(TRUE), mode |-> Null]),
    Object([policies |-> List(<<>>), version |-> Boolean(TRUE)])
}

Refund(amount) == [agent |-> Word("billing"), tool |-> Word("refund"), args |-> Object([amount |-> amount])]

SavedCases == {
    Object([version |-> One, cases |-> List(<<
        Case(Refund(amount), [decision |-> Word("allow")])>>)]) : amount \in {One, Boolean(TRUE), Null}} \cup {
    Object([version |-> One, cases |-> List(<<
        Case([agent |-> Word("billing"), tool |-> Word("refund"), args |-> Object(NoProps)], [decision |-> Word("block")]),
        Case(Refund(Word("2")), [decision |-> Word("allow")])>>)])}

Symmetry == Permutations(Process)

=============================================================================
