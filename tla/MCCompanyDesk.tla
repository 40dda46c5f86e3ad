---------------------------- MODULE MCCompanyDesk ----------------------------
EXTENDS CompanyDesk, TLC
CONSTANTS t1, t2, t3, t4, v1, v2, v3, m1, m2, q1, i1, a, b, c1, c2

Do(tool, arg) == [tool |-> tool, arg |-> arg]
Usd(n) == [amount |-> n, currency |-> "USD"]

MCTemplate == [x \in {v1, v2, v3} \X {m1, m2} |->
    CASE x = <<v1, m1>> -> Usd(1)
      [] x = <<v1, m2>> -> Usd(2)
      [] x = <<v2, m1>> -> Usd(2)
      [] OTHER -> None]
MCInvoice == i1 :> [money |-> Usd(2), vendor |-> v1]
MCContracts == a :> {c1} @@ b :> {c2}

Rfq(material) == Do("send_rfq_email",
    [rfq |-> q1, material |-> material, vendors |-> {v1, v2}])
Buy(tool, n, material) == Do(tool, [rfq |-> q1, quote |-> <<q1, v1>>,
    money |-> Usd(n), material |-> material, quantity |-> 1])
Release(n) == Do("release_purchase_order", [pr |-> <<q1, v1>>, money |-> Usd(n)])
Pay(tool, n, to) == Do(tool, [invoice |-> i1, money |-> Usd(n), beneficiary |-> to])
Read(tool, cs) == Do(tool, [contracts |-> cs, clauseKnown |-> FALSE])
Matter(tool, m) == Do(tool, [matter |-> m])
Lead(tool, l) == Do(tool, [lead |-> l])
Vendor(tool, v) == Do(tool, [vendor |-> v])

RaceWorkload == {Rfq(m1), Rfq(m2)}
BuyWorkload == {Rfq(m1), Rfq(m2), Buy("create_purchase_requisition", 1, m1),
                Buy("create_purchase_requisition", 2, m2),
                Buy("award_quote", 1, m1), Buy("award_quote", 2, m2), Release(1), Release(2)}
PayWorkload == {Pay("execute_payment", 2, v1), Pay("execute_payment", 3, v1),
                Pay("execute_payment", 2, v2), Pay("prepare_payment", 2, None),
                Pay("prepare_refund", 1, None), Vendor("change_vendor", v1),
                Vendor("lookup_vendor", v3),
                Do("reconcile_records", [invoice |-> i1, orderKnown |-> FALSE]), Vendor("post_erp_payment", None)}
LegalWorkload == {Read("extract_clause", {c1}), Read("compare_contracts", {c1, c2}),
                  Read("sign_contract", {c1}), Matter("send_commitment", a),
                  Matter("search_contracts", b)}
MailWorkload == {Do("send_email", [recipient |-> a]), Lead("delete_lead", a),
                 Lead("update_crm_record", b), Lead("qualify_lead", b),
                 Do("assign_severity", [ticket |-> a]), Do("propose_restart", <<>>),
                 Do("apply_patch", [path |-> b]), Do("read_file", [path |-> b])}
MCWorkloads == {BuyWorkload, PayWorkload, LegalWorkload, MailWorkload}
RaceOnly == {RaceWorkload}
Symmetry == Permutations({t1, t2, t3, t4})
==============================================================================
