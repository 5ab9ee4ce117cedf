------------------------------ MODULE MCSdkNode ------------------------------
(* Instances of SdkNode for TLC.  The decisions are those of PolicyRules'  *)
(* evaluatePolicy on the refund rules of policies/starter/support-agent    *)
(* (and a log_only rule), for one call per decision.                       *)
EXTENDS SdkNode, PolicyRules, TLC

NoIntegrity == {[c \in Caller |-> "none"]}
HashChain   == {[c \in Caller |-> "hash_chain"]}
EachMode    == NoIntegrity \cup HashChain

N(n) == Number(n, <<ToString(n)>>)

Amount(operator, n) == [field |-> <<"args", "amount">>, operator |-> operator, value |-> N(n)]

RefundRule(priority, conditions, decision) ==
    [priority |-> priority, agent |-> "support-agent", tool |-> "stripe.refund",
     conditions |-> [all |-> conditions, any |-> {}], decision |-> decision]

SupportPolicy == [
    mode |-> "enforce", observeOnly |-> FALSE, default |-> "block",
    policies |-> <<
        RefundRule(NoPriority, {Amount("lte", 50)}, "allow"),
        RefundRule(20, {Amount("gt", 50), Amount("lte", 500)}, "require_approval"),
        RefundRule(10, {Amount("gt", 500)}, "block"),
        [priority |-> NoPriority, agent |-> Unset, tool |-> "crm.lookup",
         conditions |-> NoConditions, decision |-> "log_only"] >>]

ToolCall(i) ==
    [agent   |-> "support-agent",
     tool    |-> IF i = "lookup" THEN "crm.lookup" ELSE "stripe.refund",
     args    |-> Object([amount |-> N(CASE i = "small" -> 20 [] i = "medium" -> 250
                                        [] i = "large" -> 900 [] i = "lookup" -> 0)]),
     context |-> Undefined]

SupportDecisions == [i \in Input |-> EvaluatePolicy(SupportPolicy, ToolCall(i)).observed]

\* Calls are interchangeable: all of them are in the same state at first.
Symmetry == Permutations(Caller)

=============================================================================
