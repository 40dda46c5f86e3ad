------------------------------ MODULE MCTargets ------------------------------
(* A small instance of Targets for TLC.  Keys collide across requests, some  *)
(* requests are refused, and one purchase is on offer under two keys.        *)
EXTENDS Targets, TLC

CONSTANTS a1, b1, b2, n1, n2, v1, k1, k2

Req(o, a, r, k) == [op |-> o, arg |-> a, rid |-> r, key |-> k]
Pay(n) == [account |-> a1, beneficiary |-> b1, amount |-> n, currency |-> "INR"]
Buy(n) == [vendor |-> v1, tonnes |-> n]

MCTransfers ==
    {Req("transfer", Pay(2), 1, k1), Req("transfer", Pay(1), 2, k1),
     Req("transfer", Pay(2), 3, k2),
     Req("modify_limit", [account |-> a1, amount |-> 1, currency |-> "INR"], 4, k2)}
MCAccounts ==
    {Req("transfer", [Pay(1) EXCEPT !.beneficiary = b2], 1, k1),
     Req("add_beneficiary", [beneficiary |-> b2], 2, k1),
     Req("add_beneficiary", [beneficiary |-> b2], 3, k2),
     Req("balance", [account |-> a1], 4, k2), Req("limit", [account |-> a1], 5, k1)}
MCPurchases ==
    {Req("create", Buy(1), 1, k1), Req("create", Buy(1), 2, k2),
     Req("create", Buy(1), 3, k1), Req("create", Buy(2), 4, k1)}
MCOrders ==
    {Req("create", Buy(1), 1, k1), Req("read_shipment", [po |-> 1], 2, k2),
     Req("amend", [po |-> 1, terms |-> Buy(2)], 3, k2),
     Req("cancel", [po |-> 1], 4, k2), Req("read", [po |-> 1], 5, k1)}
MCCrm ==
    {Req("merge", [source |-> n1, target |-> n2], 1, k1),
     Req("merge", [source |-> n2, target |-> n1], 2, k2),
     Req("send_email", [contact |-> n1], 3, k2), Req("export", {"name"}, 4, k1),
     Req("read_contact", [contact |-> n1], 5, k2)}
MCOthers ==
    {Req("send", [to |-> v1], 1, k1),
     Req("request_quote", Buy(1), 1, k1), Req("request_quote", Buy(2), 2, k2),
     Req("read_quote", [quote |-> 1], 3, k1), Req("reliability", [vendor |-> v1], 4, k2),
     Req("list_vendors", {}, 5, k2)}
MCWorkloads == {MCTransfers, MCAccounts, MCPurchases, MCOrders, MCCrm, MCOthers}

MCOpening == [a \in Accounts |-> 3]
MCLimit == [a \in Accounts |-> 2]
MCSymmetry == Permutations(Callers)
==============================================================================
